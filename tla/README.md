# TripVerse backend: TLA+ models, model checking and proofs

TripVerse is a travel-booking API (TypeScript, Express, Prisma on PostgreSQL,
Redis, the SSLCommerz payment gateway; deployed as serverless functions).  This
directory models the parts of it whose correctness depends on the order in which
concurrent requests read and write shared rows.

Nothing in the code takes a lock: PostgreSQL runs at its default isolation level,
read committed, and the services protect themselves with conditional updates
(`updateMany` with the expected state in the `where`), unique indexes and re-reads.
All models therefore share one view of the program: **a request is a sequence of
steps; every read, every write transaction, every Redis command and every gateway
call is one step, and any other request may run between two of them.**  What a
request remembers from an earlier step is kept in `task[h]` and may be stale.

To run: `tlc -config money_faults.cfg MCTripMoney`, `tlapm TripMoneyProofs.tla`.

## 1. Inventory

Paths are relative to `src/src/modules` unless they say otherwise.

| Component | State | Operations | Talks to | Hard behaviour | Modelled |
|---|---|---|---|---|---|
| booking (`booking.service.ts`) | `Booking.status`, travel date | create, change status, issue refunds | payment rows, refund requests, gateway | check-then-insert, blind update by id, refund after commit, conditional update on the status read | `BookingService`, `BookingSlots` |
| payment (`payment.service.ts`, `lib/sslcommerz.ts`) | `Payment.status`, `bankTranId`, `refundInitiatedAt` | open a session, four callbacks | booking row, gateway | late, repeated and reordered callbacks; settlement against cancellation | `PaymentService` |
| refund requests (`refund.service.ts`) | `RefundRequest.status`, `refundAmount`, `updatedAt`, the policy columns | apply, decide, pay out, retry | booking, payments, gateway | approval against cancellation, partial payouts, claims by `updatedAt`, percentages quoted on one day and used on another | `RefundService`, `RefundPolicy` |
| authentication (`auth.service.ts`, `middleware/auth.ts`, `utils/jwt.ts`) | `User.tokenVersion`, `RefreshToken` rows, Redis codes | register, verify, resend, login, Google, demo, refresh, logout, forgot, reset | users, Redis, mail | rotation races, sessions ended while a request is half done, one-time codes with get / act / delete | `Sessions`, `OneTimeCodes` |
| users (`user.service.ts`) | `User.status`, `isDeleted`, `role` | profile, role, status, delete | sessions | suspending while a login is half done | `Sessions` |
| reviews (`review.service.ts`) | reviews, `TourPackage.rating` | create, edit, delete | package row | aggregate and write in overlapping transactions | `Reviews` |
| packages (`package.service.ts`) | package, moderation status, slug | create, edit, moderate, delete | categories, bookings | slug and category checked before the insert; a verdict on a package edited since | `Listings`, `Content` |
| categories (`category.service.ts`) | category | create, rename, delete | packages | deletion against creation of a package, names against unique indexes | `CategoryService`, `Content` |
| blog, comments (`blog/`) | posts, comments | create, edit, moderate, delete; comment, reply | - | as packages; a reply to a comment deleted meanwhile | `Listings`, `CommentService`, `Content` |
| wishlist | one row per user and package | add, remove, list | - | unique index | no |
| notifications, mails (`utils/background.ts`) | notification rows | create, mark read | - | best effort after the response | no |
| dashboards (`dashboard.service.ts`), booking lists | - | three reports, paged lists | bookings, packages | several statements without a transaction, paging by offset while rows are inserted | `Reports` |
| uploads, contact | - | Cloudinary, SMTP | - | I/O | no |
| HTTP shell (`app.ts`, `middleware/`) | - | parse, route, map errors | - | - | no |

What makes each one correct:

- **Money (booking, payment, refund).** Money goes back only for cancelled bookings
  and only if it was paid; a refunded row was really refunded; a paid booking has
  its money; a cancelled booking's money is returned or visibly waits for a retry;
  a decision stands; a late callback undoes nothing.
- **Slots.** One pending booking per customer, package and date; an abandoned
  checkout does not block the date, an active one is never cancelled by another.
- **Sessions.** After a logout, a password change, a suspension or a replayed
  refresh token, no earlier session works, whatever requests were under way.
- **One-time codes.** One account per address, one use per code; an account made by
  Google gets no password from a code.
- **Refund policy.** The percentage is that of the day of the application, the amount is
  right to the paisa, a change of plans never gets more than its tier.
- **Reports.** Figures that select the same bookings agree; nobody sees another agent's.
- **Reviews.** The stored average is the average of the reviews.
- **Content.** What is public has been judged since the agent last wrote it; a package
  has a category; replies are one level deep; a request that meets no other is refused
  by its own checks, never by the database.

## 2. Modules

| Module | Models |
|---|---|
| `Ledger` | rows and gateway state of ONE booking, shared by the three money services; helpers on them; the refund call |
| `BookingService` | `updateBookingStatus`, `issueRefunds`, and `createBooking` as far as it cancels a stale booking |
| `PaymentService` | `createPaymentSession`, `processGatewayResult` |
| `RefundService` | `createRefundRequest`, `decideRefundRequest`, `runPayout`, `retryRefundPayout` |
| `TripMoney` | the three services composed, time, crashes; the properties |
| `TripMoneyInvariant` | the inductive invariant `IInv` |
| `TripMoneyProofs` | theorems about `TripMoney`: the inductive invariant and what follows from it |
| `TripPromise` | the abstract specification: what the customer is promised, and nothing about how |
| `PromiseProofs` | `TripMoney` implements `TripPromise`; payouts, what is returned and for what |
| `RefundPolicy`, `PolicyProofs` | days until travel, quotes, percentages and paisa on top of `TripMoney` (and its `IInv`); theorems about them |
| `BookingSlots` | `createBooking` over all the bookings of one customer, package and date |
| `Reports`, `ReportsProofs` | the dashboards and the paged lists over the bookings of `BookingSlots`; theorems about both |
| `Sessions`, `SessionsProofs` | the sessions of one account; theorems about them |
| `SessionPromise` | the abstract specification of the sessions, which `Sessions` implements |
| `OneTimeCodes`, `CodesProofs` | the account of one e-mail address: sign-up and reset codes, Google sign-in; theorems about them |
| `Reviews`, `ReviewsProofs` | the reviews and the average of one package; theorems about them |
| `Listings` | packages and posts: slugs, edits, verdicts, soft deletion; the tables of `Content` |
| `CategoryService` | `createCategory`, `updateCategory`, `deleteCategory` |
| `CommentService` | `createComment`, `deleteComment` |
| `Content`, `ContentProofs` | the three composed, the properties; theorems about them |
| `MC*` | definitions for the configurations: sets of operations, symmetry |

### Money: `Ledger`, the three services, `TripMoney`

One booking with its payment rows, its refund-request rows and what the gateway did
(`session`, `sent`).  Correspondence of the variables with the columns is in
`Ledger`.  An action is named for what the code does at that step; `PROJECT.json`
maps each one to its lines.  Choices worth knowing:

- A write transaction that is one conditional update plus its consequences is one
  step (`WriteStatus`, `Settle`, `Approve`): the row lock it takes with its first
  update is held to the commit, so two such transactions are serial.  Where two of
  them lock rows in opposite orders PostgreSQL aborts one: that is `Crash`.
- `createPaymentSession`'s transaction is **two** steps (`Supersede`,
  `CreateSession`), because its `updateMany` cannot see a row that a concurrent
  checkout has not committed yet.  `createRefundRequest`'s transaction is split for
  the same reason (`ApplyRead`, `ApplyEligible`, `InsertRequest`).
- `createBooking` cancels the stale booking by id: `RebookCancel` writes CANCELLED
  whatever the booking has become.
- The two reads of the booking in `createRefundRequest` are one step: only the
  second one decides.  So are the reads of the latest application and of the count
  of rejections: a rejection is final.
- `retryRefundPayout` claims the row with its `updatedAt`; `fresh[r]` is the set of
  requests that have read the current one, emptied by every write of the row.
- A refund call has three outcomes: `done`, `refused`, and `lost`: the money goes
  back but the server does not learn it (timeout, "processing", or a failing
  database right after).
- `Crash(h)` ends a request between any two steps: the instance is stopped, a query
  fails, an error is thrown.
- Amounts are units: each payment has the price of the booking; `Shares` are the
  amounts a percentage may come to.

### `RefundPolicy`

Every step of `RefundPolicy` is a step of `TripMoney` with, where the service touches
them, the policy's columns: the draft a request carries and the columns of the row.
Units are paisa.  `Share` is `Math.round` of the percentage of the price; where
`TripMoney` lets an approval come to any of `Shares`, here it is the share of one
percentage: the one of the row, or one an admin asks for, capped for a change of plans.
`days` only goes down, and nothing ties it to the steps: any number of days may pass
between an application and its decision.  The travel date comes when `days` is down to 0
at the latest; how a day and an hour relate is left out.

### `TripPromise`

Five variables: is the trip on, what was paid, what was given back, the claims and what
they are due.  `TripMoney` maps to them by one `INSTANCE ... WITH` (`Promise`); what
crashes, retries, lost answers and stale reads do is invisible there, and every step of
the three services is one of its seven steps or changes nothing it speaks of.  Giving
back may exceed the price (`Amounts` goes up to `MaxSent`): the code does not keep that
it never does, see `double_refund`.

### `BookingSlots`

`createBooking`'s transaction is `FindNone` / `FindRecent` / `FindAbandoned` and then
`InsertBooking`, with other requests in between, since nothing it reads is locked.
What payments, cancellations and the agency do to a booking is one step each here
(`Pay`, `Cancel`, `Confirm`, `Revert`, `Complete`); `TripMoney` has them in full.  `paid` (has a
settled payment) is kept only while the booking may still be reverted, the one step that reads it.

### `Reports`

A dashboard is the set of statements that have not answered: each one reads at a moment of
its own, in any order, since they are sent together without a transaction.  The agent's
is in two rounds, the package ids first.  A list is walked page by page until a page is not
full.  Each figure is counted by the conditions of its own query, so that the figures agree
is a statement about five queries.  Reading changes nothing of what it reads (the theorem
`ReadingChangesNothing`), so one report or walk at a time is enough.

- `faded` holds the bookings completed longer ago than the `days` of `getRevenueOverTime`: the
  trend leaves them out, the revenue does not.  `Fade(b)` is the passing of that time; every
  write of a booking sets `updatedAt`.
- `rival` is an agent whose packages nobody has booked.  He may have some or none whenever his
  ids are read, so the last one may also go between that statement and the counts.  With none the
  code sends no count at all (`ShortCircuit`).
- `moved` is history: the bookings that have changed, for this report, since it began.
  `FiguresAddUp` says that the figures of one answer differ by these at most; with nothing
  changed they add up exactly, where the trend may miss what is in `faded` and nothing else.

### `Sessions`

A token is the pair `issueTokens` signs: the refresh JWT with its row, and the access
JWT with the same `tokenVersion`.  `account` is `DELETED` for `isDeleted`.
`revokeFamily` takes a snapshot (`RevokeRows`) and commits later (`RevokeCommit`):
its `updateMany` does not see rows inserted in between, which is why the version
bump, not the revocation, is what ends those sessions.  Updates of the user row that
do not depend on what was read are one step.  A row gets `old` (revoked for a week)
only while no request runs: no request lasts a week.  `parent`, `loginAt` and
`answered` are history for the properties and are never read by a guard.

### `SessionPromise`

Five variables: the account, the tokens issued, open, spent, and how often each was answered.
A token is open while it would be honoured were the account active; versions, rows and
requests do not occur.  `Promise` in `Sessions` maps to it: a rotation exchanges a token
once, its heir is open only if the token still is, and what ends the sessions closes all
of them in one step, for good, although the code revokes the rows only later.

### `OneTimeCodes`

Every Redis command is a step, keys expire at any time and requests crash anywhere.
Codes are numbered in the order they are minted, so that two of them are never equal
by chance; the reset is for an account that may reset.  Google sign-in is three reads and
writes, each a step: by identity, by address, then the link (by id, whatever was linked
meanwhile) or the creation, which the unique index on the address may refuse.  `user` says
what the account was made from, a sign-up or Google; an account made by Google has no
password, and `forgotPassword` sends it no code.

### `Reviews`

A transaction checks, writes and aggregates, then updates the package row and
commits.  It waits for a review row another transaction has written (`Locked`), and
for the package row.  Ratings are whole stars, averages tenths rounded half up as
`Math.round(avg * 10) / 10` does.  `outdated` is history: another write was committed
between the last writer's aggregate and its commit.

### Content: `Listings`, `CategoryService`, `CommentService`, `Content`

`package.service.ts` and `blog.service.ts` run the same machine on two tables, so the
rows are of either kind: `kind` is chosen by `Init` and never changes, and decides the
statuses and whether categories or comments exist.  Choices worth knowing:

- A slug is a sequence: `<<0>>` is "trip", `<<0, 2>>` "trip-2"; `startsWith` is
  `IsPrefix`.  The suffix is found by the numbers that are free (`UniqueSlug`), with the
  bound that a collision needs; that the bound suffices is the theorem `SlugIsFree`.
- `OldSlugs` belong to rows removed before the behaviour begins: soft deletion keeps a
  row and its slug, so they count as used and are never public.
- A check (`StartCreate`, `ChooseSlug`, `StartFile`, `StartDrop`, `CheckParent`) is one
  step and the write another; what the unique indexes and foreign keys refuse is the
  guard of the write (`MayInsert`, `NameFree`, `MayDrop`), and a refused request ends
  by `Fails`, which also stands for any other failure.
- An operation whose reads decide nothing that the write depends on is one step
  (`SoftDelete`, `DeleteComment`).
- A deleted category stays `Gone`: ids are random and never used again.
- `unseen` and `overlap` are history: the rows an agent has written since the last
  verdict, and whether another request has written since this one's first read.
- Who may act on a row never changes for the row and is left out: any request may act as
  the owner or the admin.

## 3. Runs

| Run | States | Question and result |
|---|---|---|
| `money_faults` | 0.8 M | Everything at once: two requests, two payments, an application, lost refund answers, crashes, rebooking.  The inductive invariant and what follows from it hold; only a stop or the blind write of `createBooking` loses sight of money (`OnlyFaultsForget`), only a stop of an approval (`OnlyCrashesHide`); an application that outlived its booking is never approved; and the services implement `TripPromise` (`KeepsPromise`) |
| `money_races` | 1.3 M | Two applications, without crashes and rebooking, with and without bank transaction ids: no settled money of a cancelled booking is forgotten, payouts that fall short are visible, terminal statuses stay; a customer moves settled money only on a booking that a revert left PENDING because a settlement overtook it (`OnlyOvertakenRevertsExpose`) |
| `decision_race` | 0.3 M | The refund policy: three requests on a booking that is paid or still being checked out, with crashes, quotes of three days, an admin's override, a price that makes every percentage round.  The percentage and the amount are right, the gateway returns what was approved and never twice |
| `money_ends` | 29 k | Liveness: every request is answered, late money is handled |
| `session_races` | 165 k | Three requests, every operation, expiry, pruning, crashes: no session survives what ended it, and `Sessions` implements `SessionPromise`, in which a token is exchanged once |
| `slot_races` | 1.6 M | Two `createBooking` requests against everything else, while dashboards and lists are read: an active checkout is never cancelled by a rebooking, figures differ by what changed meanwhile at most, no agent sees another's, a walk misses nothing |
| `code_races` | 1.6 M | Three requests, two Google identities, expiry and crashes at every step: one account, no password for an account of Google, and the code of an answered reset is dead |
| `review_races` | 500 k | Overlapping reviews: a write that nobody overlapped leaves the right average |
| `content_races` | 1.1 M | Packages with categories, or posts with comments: checks and indexes agree, nothing unjudged is public, packages keep their category, replies stay flat |
| `revert_race` | violation | `SettledNeverPending`, see below |
| `double_refund` | violation | `NeverOverReturned` |
| `duplicate_booking` | violation | `OnePendingPerSlot` |

The inductive invariant of every module is also checked by a run, with the types of the module
among its conjuncts: `IInv`, `PolicyInv`, `SessionInv`, `CodesInv`, `ReviewInv`, `ReadingInv`,
`ContentInv`.  In `money_faults` `RefundsOnlyAfterCancel`, `RefundedMeansReturned`,
`ApprovalCancels` and `RefundedRequestWasPaid` are checked as parts of `IInv`.  `KeepsPromise`
contains that a decision is never overturned (`DecisionsAreFinal`): in `TripPromise` no step
leaves `REJECTED` or `REFUNDED`, and what is due is set once.

`OnlyFaultsForget` and `OnlyCrashesHide` are the forms in which the two promises about lost
money survive faults.  With crashes there may be money that nobody looks after; what the
properties say is *which step* made it so: never one of a service that ran to its end, however
many requests overlapped and whatever had been cut off before.

`OnlyOvertakenRevertsExpose` is the same form for the statement at `booking.service.ts:540` that
the code does not keep (`revert_race`).  A customer who cancels a PENDING booking gets its settled
money back in full; the run has that race, and the property says what it takes: a booking with
settled money is never moved by its customer unless a revert has exposed it, no write but a
revert's exposes one, and a revert does so only if another request settled a payment between its
count and its write.

**Bounds.** Two requests suffice for every money race found (each is between two
writers, one of them suspended between its read and its write); `decision_race` and
the smaller modules use three, so that an approval, its payout and a cancellation -
or a winner, a loser and a logout - are all under way.  Two payments are needed for a
payout that fails half-way and for a second session that settles late, two applications for
a re-application after a rejection.  `Price = 2` with shares 0, 1 and 2 has nothing,
a part and all; `Price = 3` in `decision_race` makes 50 and 90 % round, 10 % come to
nothing, and takes the policy through a day of each of three tiers; the agency there only completes and cancels, the other
transitions being in the runs of `TripMoney`.  `MaxSent` is above the price, so an excess is seen; the count
saturates there.  `money_faults` has one application (`money_races` has two): crashes and
lost answers multiply the states, and `Inductive` covers every number of them.  `RoomFor...` guards start a request only while the rows or versions
it may need are left; no step inside a request is cut.  `MaxVersion = 3` leaves a
version to be ended, one to be ended again and one after it.  `content_races` has two rows
whose slugs collide with each other and with two old ones, two categories and two names
that share a slug (so a rename, a deletion and a refused name all happen), and three
comments: one, its reply, and one that must not become a reply to the reply.  `slot_races`
has two bookings: one found, active or abandoned, and one made meanwhile, which pages of one
and two rows order and split in every way; more are covered by the theorems, which need no bound.  Its
viewers are the customer and the two agents: the admin's report is the customer's without the
upcoming trips, and the theorems include it.  `code_races` has
two identities: one linked, one that comes too late.  Proved properties
need none of these bounds to be small.

**Symmetry** is over requests (in `content_races` over category ids, in `code_races` over Google
identities too), and not used for
liveness.

**Deadlock** is not checked where the system may stop: all bookings terminal, or the
rows and versions of the bound used up.

**Fairness** (`FairSpec`): weak fairness of `Step(h)`, the next step of a request that
has begun.  The calls it makes end: a refund has a timeout of 8 s (`sslcommerz.ts:196`);
opening a session and validating have none of their own, and rely on the default limits of
Node's `fetch`, after which they throw; queries return or throw.  A host that
stops a request first is `Crash`, which `money_ends` leaves out.  Starting a request, paying, callbacks and time are never
assumed to happen.

### Statements of the repository that the code does not keep

Checked by a violation run:

| Statement | What happens |
|---|---|
| `booking.service.ts:540` "A booking with settled money must never fall back to PENDING" | the settlement falls between the revert's count of settled payments and its update (`revert_race`) |
| `booking.service.ts:440` "Never double-refunds." | a cancellation and a late settlement both call the gateway before either conditional update (`double_refund`) |
| `README.md:316` "duplicate pending booking for the same package+date → 409" | two requests find nothing and both insert; at read committed the transaction does not help (`duplicate_booking`) |

Stated in the modules, found not to hold, and not kept as runs because the hazard is of
the same kind as one above.  To see a counterexample, check the definition with the given
operations, two requests and otherwise the constants of the named configuration:

| Definition | Configuration and change | What happens |
|---|---|---|
| `NoForgottenMoney` (`README.md:450`) | `revert_race.cfg`, `Ops = {"rebook", "checkout", "callback"}` | a payment settles between `createBooking`'s read of the stale booking and its blind cancellation; nobody refunds |
| `OneLiveSession` (`payment.service.ts:62`) | `revert_race.cfg`, `MaxPayments = 2`, `Ops = {"checkout"}` | two checkouts do not see each other's row |
| `NoWedgedApplication` (spec 26) | `revert_race.cfg`, `MaxRequests = 1`, `Ops = {"update", "apply"}`, `Targets = {"CANCELLED"}`, `InitialBookings = {"PAID"}` | the cancellation falls between the re-read of the booking and the insert; the comment at `refund.service.ts:144` accepts it |
| `AtMostTwoApplications` (`refund.service.ts:37`) | `revert_race.cfg`, `MaxRequests = 3`, `Ops = {"apply", "decide"}`, `InitialBookings = {"PAID"}` | two applications pass the count together, one is rejected before the other is inserted |
| `RefundedRowsBelongToPayout` (`refund.service.ts:652`) | `revert_race.cfg`, `MaxPayments = 2`, `MaxRequests = 1`, `Ops = {"checkout", "callback", "apply", "decide"}` | a second session settles after the approval and is refunded by the callback |
| `RevokedMeansRotated` (`auth.service.ts:573`) | `session_races.cfg`, `Ops = {"login", "refresh", "logout"}` | a logout revokes the row between a refresh's version check and its lookup |
| `AverageIsCurrent` (`review.service.ts:188`) | `review_races.cfg` | two transactions aggregate before either commits |
| `ResetCodeUsedOnce` (`auth.service.ts:356` "Single-use OTP") | `code_races.cfg`, as an INVARIANT | two resets compare one code before either deletes it; both set a password |
| `PendingSignUpStands` (`auth.service.ts:131`) | `code_races.cfg`, as a PROPERTY | two sign-ups find nothing staged, the second payload replaces the first |
| `LinkStands` (`auth.service.ts:442`) | `code_races.cfg`, as a PROPERTY | two Google identities of one address read the account before either is linked; the second link replaces the first |

The hazards behind these rows name no property in `PROJECT.json` where the code produces the bad
outcome and what a run checks only bounds it: the cut-off refund and the blind write
(`OnlyFaultsForget`), the count of rejections and the second session (`IInv`), the attribution of
refunded rows (`KeepsPromise`), the double use of a code (`AnsweredCodeIsDead`), the overlapping
averages (`UndisturbedWriteRepairs`), the verdict on an edited package (`PublicHasVerdict`).  Their
notes say which definition would be violated.

A document against itself: `docs/REFUND_POLICY.md:51-52` counts the days "before your travel
date the refund is approved", its table (line 54) and line 63 ("locked in when you submit") count
them at the application.  The code follows line 63 (`LockedInAtSubmission`).

## 4. Proofs

Eight modules hold theorems.  They are proved for any set of requests and any value of the
other constants that satisfies the assumptions named in `Ledger`, `TripMoney`,
`RefundPolicy`, `Sessions`, `Listings`, `BookingSlots`, `Reports`, `OneTimeCodes` and `Reviews`;
`OneTimeCodes` assumes that finitely many requests run at a time, `Reviews` that there are
finitely many authors.  A theorem that holds only for
some operations says so in its ASSUME.

**Money** (`TripMoneyProofs`).  The safety properties are not inductive: whether a refund may
be recorded depends on what the request in flight knows.  `IInv` adds to the types

- `Rows`: what the rows say about each other, e.g. that a row that took money has a
  paid session, and that at most one application is not rejected;
- `Knows(task[h])`: what a request at a given step may rely on although its locals are
  stale - a request that issues refunds knows that the booking is CANCELLED, because
  CANCELLED is terminal even for the blind write; one about to write PAID knows there is
  settled money or that the booking is cancelled;
- `OwnRow`: two checkouts never open one row.

`Inductive` proves `Spec => []IInv`, one lemma per handler.  From it:
`TypeCorrect`, `RefundsFollowCancellation`, `RefundedRowsWereReturned`,
`PaidBookingsHaveMoney`, `ApprovalsCancel`, `RefundedRequestsWerePaid`, and the action
properties `SettledRowsStay`, `DecisionsStay`.  `StepsForgetNothing` needs no assumption on the
operations: each step of a request hands the charge of a settled payment on
(`ChargeHandedOn`), the blind write apart.  `TerminalBookingsStay` and
`MoneyIsNeverForgotten` hold only for `Ops` without `"rebook"` (and, for the latter,
without `"crash"`): the blind write and a stop between commit and refund are exactly what
breaks them.

**The promise** (`PromiseProofs`).  `PromiseIsKept` proves `Spec => Promise!Spec`: under
`IInv` every step maps to a step of `TripPromise` or a stutter.  The steps that need `IInv` are
those whose right to act is only in the request's memory: a refund call knows the booking is
off and the payment paid, closing an application that enough was returned.
`WedgedAreNeverApproved` follows from the same case analysis.

`PayoutInv` says that a decision follows settled money and a payout in progress has a payment to
do; money stays settled or is refunded, and marks stay (`TracesStay`).  So a payout that ends
short has left a trace: `PayoutsHideNothing` for all operations, `ShortfallsAreVisible` without
crashes.

`OnlyOvertakenRevertsExposed` rests on what a customer's request can have read: its write is that
of a cancellation of a PENDING booking (`CustomersCancelPending`), which succeeds on a PENDING
booking only.  `CustomersNeverCancelSettled` is the unconditional form, for `Targets` without
`"PENDING"`: where nobody reverts, a booking with settled money is never PENDING (`NeverExposed`),
so no customer's request moves it.  Both assume `Ops` without `"rebook"`: the blind write cancels
a booking that has been paid since it was read.

What is returned is proved in two steps.  `ReturnedOnce` proves `NeverOverReturned`: only the
request that cancels the booking comes to return money, so one request at most ever does, and
each payment is taken from its list (`RefundOnceInv`).  `ApprovalsReturnExactly` proves
`ReturnsWhatWasApproved`: that request either cancelled directly, and then nothing is ever
approved, or approved, and then takes from each payment what is left of the amount (`ReturnInv`).
Both assume `Ops` without callbacks and without retries, and neither can do without: a late
settlement is refunded in full next to a payout (`double_refund`), and a retry repeats a refund
whose answer was lost, or one that has been made and is not recorded yet - the staggered retry that the
comment at `refund.service.ts:633` accepts.  Crashes and lost answers are included.

**Policy** (`PolicyProofs`).  `PolicyRefinesMoney` proves `PolicySpec => Spec`, so all of the above
holds of the policy too.  `PolicyInv` says what a draft and a row are worth (`Quoted`,
`Grantable`); the step that needs an argument is the approval, which reads the percentage
from its own draft and the rest from a row that other requests may be quoting, rejecting or
deciding.  `ShareIsNearest` and `ShareIsMonotone` are the arithmetic, for every price:
`LockedInSafe`, `TierIsTheLimitSafe`, `ApprovedToThePaisaSafe` follow from `PolicyInductive`;
`PolicyReturnsExactly` is `ApprovalsReturnExactly` carried over by `PolicyRefinesMoney`, so that
it is the quoted share of the price which goes back.

**Slots and reports** (`ReportsProofs`).  `RecentCheckoutSafe` (a request that cancels has found
a booking older than a day, and age only grows) and `SlotsTypeSafe` are about `BookingSlots`.
`ReadingChangesNothing` carries them over to `Reports`.  `FiguresAddUpSafe` counts: the bookings
in each status are disjoint and together all there are, for any number of them; a figure that
has answered is between what its query would find now without the bookings in `moved` and with
them (`Near`), so two figures about the same bookings differ by `moved` at most.
`NothingOfOthersSafe` and `FiguresAddUpSafe` hold with deletions between any two statements.
`WalkMissesNothingSafe` is the argument that a new booking pushes the others back, never
forward: a booking that has not been listed when page `n` is asked for has at least
`(n - 1) * limit` newer ones (`NotPassed`), and new bookings only add to them.  `ReadingInvariant`
states the inductive invariant of both.

**Sessions** (`SessionsProofs`).  `SessionInv` adds to the types `Lineage` (a token carries the
version of the login behind it; a request holds a version the user has reached), `Blocked`
(nothing holds the version of a blocked account), `Exchanged` (a token answered once is
revoked or dead) and `Heirs` (a token that was exchanged is revoked).  `SessionInvariant`
proves it inductive; `SessionsStayFresh`, `ReplaysArePunished`, `TokensHaveOneHeir`,
`BlockedAccountsHaveNone` and `SessionsTypeCorrect` follow.  The proof shows where safety
comes from: a rotation signs the version that was *read*, so a bump in between makes the
new token dead on arrival.  `SessionPromiseIsKept` proves `Spec => Promise!Spec`: under
`SessionInv` every step is a step of `SessionPromise` or a stutter.  Here the version *read* is
what the mapping turns on: a rotation's heir is open exactly if the token it replaces still is.

**Codes** (`CodesProofs`).  `CodesInv` adds to the types `RoomKept` (the codes minted and the
requests about to mint one stay within the bound, which is why finitely many requests are
assumed), `Remembers` (the code a request works with was minted, its payload staged),
`OneVerification` (one request at most has created the account and not answered),
`OnlyWithPassword` (a request that resets has found an account with a password) and
`AnsweredIsGone` (the code in Redis is not one that a reset has answered).  `OneAccountSafe`,
`AnsweredCodeIsDeadSafe` and `GoogleStaysPasswordlessSafe` follow, the last because an account
never loses the kind it was made as.

**Reviews** (`ReviewsProofs`).  The sum over the reviews is a fold, and the prover has no
induction over data.  The least counterexample stands in for it: a table of the partial sums of
the sets of up to `k` reviews exists for every `k` (`SumsExist`), or there were a least `k`
without one, which the well-foundedness of `<` on the naturals excludes.  From the table follow
the fold's equations and the bounds of `Total`, hence that the average of any number of
reviews is within 0 and 5.0 (`ReviewTypeSafe`) and to the nearest tenth.
`ReviewInv` adds what a transaction that nobody overlapped knows: what it has aggregated is what
its commit leaves.  `UndisturbedWriteRepairsSafe` follows, whatever overlaps came before.

**Content** (`ContentProofs`).  `SlugIsFree` is the algorithm by itself: among `k + 1` suffixes
one is not among the `k` slugs alike, so `Min` has something to choose from.  `ContentInv`
joins the properties with `Grounded`, what locals say that stays so (the row of an edit is
there, a checked parent is a top-level comment of the post, since comments never move), and
with `UndisturbedWritesSucceed`, which relates what a request checked to what the indexes will
ask.  `ContentInvariant` proves it, one lemma per group of operations;
`ChecksAgreeWithIndexes`, `NothingLeaks`, `PackagesStayFiled`, `RepliesStayFlat` and
`ContentTypeCorrect` follow.

**Only model-checked:** the two liveness properties of `money_ends` (`EveryRequestEnds`,
`LateMoneyIsHandled`), which are beyond this prover.  Every other property of a passing run is
stated by a theorem.  The other way round, `PayoutInv`, `RefundOnceInv` and `ReturnInv` are the
inductive invariants that are only proved: they live with their proofs, no run checks them.

## 5. What is not modelled

- More than one booking, account, address or package at a time: no operation above
  relates two of them, except the deletion of old token rows of anyone, which is in
  `PruneLedger`, and the dashboards, whose counts over packages add up over them.
- How a percentage is split over several payments to the paisa: in `runPayout` the slices are
  taken in whole paisa from what is left, which `TripMoney` does in its units; `RefundPolicy` is
  checked with one payment (its proofs have any number).
- Authorisation beyond the role that decides a transition; request validation; response
  texts, mails, notifications (best effort after the response; nothing reads them).
- Of the dashboards: counts of users, the rating of an agent, how the trend is laid out by day;
  of the lists: bookings created in the same instant (the order names no second column), filters
  on the status (a row that leaves the filter makes the next page skip another) and `totalPages`,
  which comes from a second statement.
- Of the content: whose row it is (`validateAgent`, `findOwnedPackage`, ownership of
  posts and comments), lists and search, the random slug of a title that has no letters
  (`package.service.ts:58`).
- The wishlist: single idempotent statements (`wishlist.service.ts`) on rows nothing else
  reads; every property of it would hold by its unique index.
- That a moderator has read what is approved: the verdict carries no version of the row
  (`package.service.ts:333`), so an edit between the read and the verdict is approved with it;
  `PublicHasVerdict` allows it.
- Collisions of two random codes; clock skew between server and database.
- `src/api/index.js`, 6681 lines, is the committed output of the bundler for `src/src`, so its
  program is what is modelled here, once; `prisma/seed.ts` runs on an empty database;
  `utils/email.ts` is markup.  Together they are close to half of the repository's
  implementation lines; the rest not mapped is routing, validation schemas, types,
  configuration and controllers that pass a request on.  None of it keeps state or orders steps.

## 6. Plan

Done: money, its abstract promise and the refinement, the refund policy, slots, reports,
sessions and their abstract promise, codes with Google sign-in, reviews, content, and proofs for
all of them.  Left:

1. What retries and callbacks may return at most: a bound of `sent` by the requests that can
   come to refund a payment, in place of their exclusion from `ApprovalsReturnExactly`.
2. An abstract account for `OneTimeCodes`, as the third refinement.
3. Filtered lists and the wishlist, should they come to promise anything.
