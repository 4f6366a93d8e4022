---------------------------- MODULE PolicyProofs ----------------------------
(***************************************************************************)
(* The refund policy proved for any price, any number of applications,     *)
(* decisions and days: every behaviour of RefundPolicy is one of TripMoney *)
(* - the policy only narrows what an approval may come to - and what is    *)
(* approved is what was quoted on the day of the application or what an    *)
(* admin asked for, never more than the tier for a change of plans.        *)
(***************************************************************************)
EXTENDS RefundPolicy, PromiseProofs

(* The arithmetic. *)

\* Every suggestion is a percentage.
LEMMA SuggestionIsPercentage ==
    ASSUME NEW category, NEW d \in Int
    PROVE  suggestRefundPercentage(category, d) \in 0..100
  BY DEF suggestRefundPercentage, Tier

\* A share is the nearest unit of the percentage.
LEMMA ShareIsNearest ==
    ASSUME NEW g \in 0..100
    PROVE  /\ Share(g) \in Nat
           /\ 200 * Share(g) - 2 * Price * g \in (-100)..100
           /\ Share(g) <= Price
  <1> DEFINE x == 2 * Price * g
  <1>1. Price \in Nat /\ x \in Nat
    BY ConstantTypes
  <1>2. Share(g) = (x + 100) \div 200
    BY DEF Share
  <1>3. Share(g) \in Shares
    BY SharesArePercentages
  <1>4. Share(g) \in Nat /\ Share(g) <= Price
    <2>1. Share(g) \in 0..Price
      BY <1>3, SharesOfPrice
    <2> QED BY <1>1, <2>1
  <1> HIDE DEF x
  <1>5. 200 * Share(g) - x \in (-100)..100
    BY <1>1, <1>2
  <1> QED BY <1>4, <1>5 DEF x

\* A higher percentage never gives less.
LEMMA ShareIsMonotone ==
    ASSUME NEW g \in 0..100, NEW k \in 0..100, g <= k
    PROVE  Share(g) <= Share(k)
  <1> DEFINE x == 2 * Price * g
             y == 2 * Price * k
  <1>1. Price \in Nat
    BY ConstantTypes
  <1>2. x \in Nat /\ y \in Nat /\ x <= y
    <2>1. 2 * Price \in Nat /\ k - g \in Nat
      BY <1>1
    <2>2. \A m, n \in Nat : m * n \in Nat
      OBVIOUS
    <2>3. 2 * Price * (k - g) \in Nat
      BY <2>1, <2>2
    <2>4. 2 * Price * (k - g) = y - x
      BY <1>1
    <2> QED BY <1>1, <2>3, <2>4
  <1>3. Share(g) = (x + 100) \div 200 /\ Share(k) = (y + 100) \div 200
    BY DEF Share
  <1> HIDE DEF x, y
  <1> QED BY <1>2, <1>3

(* The steps. *)

\* Where a request holds a quote.
Holding == {"eligible", "insert", "price", "approve"}

\* No other step of a service makes an application, decides one with money, or
\* comes to hold a quote it did not hold before.
LEMMA BookingsHoldNothing ==
    ASSUME TypeOK, NEW h \in Handlers,
           BookingStart(h) \/ BookingStep(h) \/ PaymentStart(h) \/ PaymentStep(h)
    PROVE  /\ task'[h].pc \notin Holding
           /\ \A k \in Handlers \ {h} : task'[k] = task[k]
           /\ \A r \in Requests : /\ request'[r] = None <=> request[r] = None
                                  /\ request'[r] \in Decided => request[r] \in Decided
           /\ approved' = approved
  <1> USE DEF requestVars, paymentVars, gatewayVars, Begin, Become, Done, Idle, Holding,
              UpdateTask, PaymentTask, CallbackTask
  <1>0. task \in [Handlers -> Tasks]
    BY DEF TypeOK
  <1>1. CASE UpdateRead(h)
    BY <1>0, <1>1 DEF UpdateRead
  <1>2. CASE RebookRead(h) \/ CountSettled(h) \/ WriteConflict(h)
    BY <1>0, <1>2 DEF RebookRead, CountSettled, WriteConflict
  <1>3. CASE WriteStatus(h)
    <2>1. task'[h].pc \notin Holding /\ \A k \in Handlers \ {h} : task'[k] = task[k]
      BY <1>0, <1>3 DEF WriteStatus
    <2>2. approved' = approved /\ (request' = request \/ CloseApplications)
      BY <1>0, <1>3 DEF WriteStatus
    <2> QED BY <2>1, <2>2 DEF CloseApplications, TypeOK, Decided, None
  <1>4. CASE ScanSettled(h) \/ RecordRefund(h) \/ RecordFailure(h) \/ RebookCancel(h)
    BY <1>0, <1>4 DEF ScanSettled, RecordRefund, RecordFailure, RebookCancel, NextRefund
  <1>5. CASE RefundWithoutBankId(h) \/ CallRefund(h)
    BY <1>0, <1>5 DEF RefundWithoutBankId, CallRefund, NextRefund, Records
  <1>6. CASE CheckoutRead(h) \/ CallbackRead(h) \/ Supersede(h)
    BY <1>0, <1>6 DEF CheckoutRead, CallbackRead, Supersede
  <1>7. CASE CreateSession(h) \/ InitSession(h) \/ InitFails(h)
    BY <1>0, <1>7 DEF CreateSession, InitSession, InitFails
  <1>8. CASE VerifyValid(h) \/ VerifyInvalid(h) \/ CloseSession(h) \/ SettleLost(h)
    BY <1>0, <1>8 DEF VerifyValid, VerifyInvalid, CloseSession, SettleLost
  <1>9. CASE Settle(h) \/ AfterSettle(h)
    BY <1>0, <1>9 DEF Settle, AfterSettle
  <1> QED
    BY <1>1, <1>2, <1>3, <1>4, <1>5, <1>6, <1>7, <1>8, <1>9
    DEF BookingStart, BookingStep, PaymentStart, PaymentStep

\* Neither do the steps of a payout or its retry, a conflict, a rejection or a
\* crash.
LEMMA PayoutsHoldNothing ==
    ASSUME TypeOK, NEW h \in Handlers,
           RetryRead(h) \/ InsertConflict(h) \/ Reject(h) \/ ApproveConflict(h)
           \/ Allocate(h) \/ PayoutWithoutBankId(h) \/ CallPayout(h)
           \/ RecordPayout(h) \/ RecordPayoutFailure(h) \/ Conclude(h)
           \/ RetryClaim(h) \/ RetryRefused(h) \/ RetryOwed(h) \/ Crash(h)
    PROVE  /\ task'[h].pc \notin Holding
           /\ \A k \in Handlers \ {h} : task'[k] = task[k]
           /\ \A r \in Requests : /\ request'[r] = None <=> request[r] = None
                                  /\ request'[r] \in Decided => request[r] \in Decided
           /\ approved' = approved
  <1> USE DEF requestVars, paymentVars, gatewayVars, Begin, Become, Done, Idle, Holding,
              PaymentTask, RequestTask, PayoutTask
  <1>0. task \in [Handlers -> Tasks]
    BY DEF TypeOK
  <1>1. CASE RetryRead(h) \/ InsertConflict(h) \/ ApproveConflict(h)
    BY <1>0, <1>1 DEF RetryRead, InsertConflict, ApproveConflict
  <1>2. CASE Reject(h) \/ Conclude(h)
    BY <1>0, <1>2 DEF Reject, RejectPending, Conclude, CloseRequest, TypeOK, Decided, None
  <1>3. CASE Allocate(h) \/ RecordPayout(h) \/ RecordPayoutFailure(h)
    BY <1>0, <1>3 DEF Allocate, RecordPayout, RecordPayoutFailure, NextPayout
  <1>4. CASE PayoutWithoutBankId(h) \/ CallPayout(h)
    BY <1>0, <1>4 DEF PayoutWithoutBankId, CallPayout, NextPayout
  <1>5. CASE RetryClaim(h) \/ RetryRefused(h) \/ Crash(h)
    BY <1>0, <1>5 DEF RetryClaim, RetryRefused, Crash
  <1>6. CASE RetryOwed(h)
    <2>1. task'[h].pc \notin Holding /\ \A k \in Handlers \ {h} : task'[k] = task[k]
      BY <1>0, <1>6 DEF RetryOwed
    <2>2. approved' = approved /\ (request' = request \/ CloseRequest(task[h].r))
      BY <1>0, <1>6 DEF RetryOwed
    <2> QED BY <2>1, <2>2 DEF CloseRequest, TypeOK, Decided, None
  <1> QED BY <1>1, <1>2, <1>3, <1>4, <1>5, <1>6

\* A step that makes and decides no application, and after which request h holds
\* no quote, keeps the invariant.
LEMMA OthersKeep ==
    ASSUME PolicyInv, NEW h \in Handlers,
           task'[h].pc \notin Holding,
           \A k \in Handlers \ {h} : task'[k] = task[k],
           \A r \in Requests : /\ request'[r] = None <=> request[r] = None
                               /\ request'[r] \in Decided => request[r] \in Decided,
           approved' = approved, terms' = terms, days' \in DayMarks,
           draft' \in [Handlers -> Columns \cup {NoTerms}],
           \A k \in Handlers \ {h} : draft'[k] = draft[k]
    PROVE  PolicyInv'
  <1>1. \A r \in Requests : RowQuoted(r)'
    BY DEF PolicyInv, RowQuoted, Decided
  <1>2. ASSUME NEW k \in Handlers PROVE DraftQuoted(k)'
    <2>1. CASE k = h
      BY <2>1 DEF DraftQuoted, Holding
    <2>2. CASE k # h
      <3>1. task'[k] = task[k] /\ draft'[k] = draft[k] /\ DraftQuoted(k)
        BY <2>2 DEF PolicyInv
      <3> QED BY <3>1 DEF DraftQuoted
    <2> QED BY <2>1, <2>2
  <1> QED BY <1>1, <1>2 DEF PolicyInv

\* A request that takes up, moves on or keeps a quote, while the rows stay.
LEMMA HoldsKeep ==
    ASSUME PolicyInv, NEW h \in Handlers,
           \A k \in Handlers \ {h} : task'[k] = task[k],
           UNCHANGED <<request, approved, terms, days>>,
           draft' \in [Handlers -> Columns \cup {NoTerms}],
           \A k \in Handlers \ {h} : draft'[k] = draft[k],
           DraftQuoted(h)'
    PROVE  PolicyInv'
  <1>1. \A r \in Requests : RowQuoted(r)'
    BY DEF PolicyInv, RowQuoted, Decided
  <1>2. ASSUME NEW k \in Handlers \ {h} PROVE DraftQuoted(k)'
    <2>1. task'[k] = task[k] /\ draft'[k] = draft[k] /\ DraftQuoted(k)
      BY DEF PolicyInv
    <2> QED BY <2>1 DEF DraftQuoted
  <1> QED BY <1>1, <1>2 DEF PolicyInv

\* createRefundRequest takes its snapshot.
LEMMA QuoteKeeps ==
    ASSUME TypeOK, PolicyInv, NEW h \in Handlers, QuoteApplication(h)
    PROVE  PolicyInv'
  <1>1. PICK category \in Categories :
          draft' = [draft EXCEPT ![h] =
                      Terms(category, days, suggestRefundPercentage(category, days), -1)]
    BY DEF QuoteApplication
  <1>2. UNCHANGED <<request, approved, terms, days>>
    BY DEF QuoteApplication, ApplyRead, requestVars
  <1>3. task' = [task EXCEPT ![h] = RequestTask("eligible", 0, 0)]
    BY DEF QuoteApplication, ApplyRead, Begin, Become
  <1>4. task'[h].pc = "eligible" /\ \A k \in Handlers \ {h} : task'[k] = task[k]
    BY <1>3 DEF TypeOK, RequestTask
  <1>5. days \in DayMarks /\ days \in Int
    BY DaysAreInt DEF PolicyInv
  <1> DEFINE quote == Terms(category, days, suggestRefundPercentage(category, days), -1)
  <1>6. quote \in Columns /\ Quoted(quote) /\ quote.granted = -1
    <2>1. suggestRefundPercentage(category, days) \in 0..100
      BY <1>5, SuggestionIsPercentage
    <2> QED BY <1>5, <2>1 DEF Quoted, Columns, Terms
  <1> HIDE DEF quote
  <1>7. draft' = [draft EXCEPT ![h] = quote]
    BY <1>1 DEF quote
  <1>8. draft' \in [Handlers -> Columns \cup {NoTerms}] /\ draft'[h] = quote
        /\ \A k \in Handlers \ {h} : draft'[k] = draft[k]
    BY <1>6, <1>7 DEF PolicyInv
  <1>9. DraftQuoted(h)'
    BY <1>4, <1>6, <1>8 DEF DraftQuoted
  <1> QED BY <1>2, <1>4, <1>8, <1>9, HoldsKeep

\* The row is inserted with it.
LEMMA InsertKeeps ==
    ASSUME TypeOK, PolicyInv, NEW h \in Handlers, InsertQuoted(h)
    PROVE  PolicyInv'
  <1>1. PICK r \in Requests :
          request[r] = None /\ request' = [request EXCEPT ![r] = "PENDING"]
    BY DEF InsertQuoted, InsertRequest
  <1>2. /\ At(h, "insert") /\ approved' = approved /\ days' = days
        /\ task' = [task EXCEPT ![h] = Idle] /\ draft' = [draft EXCEPT ![h] = NoTerms]
    BY DEF InsertQuoted, InsertRequest, Done, Become
  <1>3. /\ task'[h].pc = "idle" /\ \A k \in Handlers \ {h} : task'[k] = task[k]
        /\ \A k \in Handlers \ {h} : draft'[k] = draft[k]
        /\ draft' \in [Handlers -> Columns \cup {NoTerms}]
    BY <1>2 DEF TypeOK, PolicyInv, Idle, PaymentTask
  <1>4. \A q \in Requests : request'[q] = IF q = r THEN "PENDING" ELSE request[q]
    BY <1>1 DEF TypeOK
  <1>5. terms' = [q \in Requests |-> IF q = r THEN draft[h] ELSE terms[q]]
    BY <1>1, <1>4 DEF InsertQuoted, Snapshot, None
  <1>6. Quoted(draft[h]) /\ draft[h].granted = -1 /\ draft[h] \in Columns
    BY <1>2 DEF PolicyInv, DraftQuoted, At, Quoted
  <1>7. terms' \in [Requests -> Columns \cup {NoTerms}]
    BY <1>5, <1>6 DEF PolicyInv
  <1>8. ASSUME NEW q \in Requests PROVE RowQuoted(q)'
    <2>1. CASE q = r
      <3>1. request'[q] = "PENDING" /\ terms'[q] = draft[h]
        BY <1>4, <1>5, <2>1
      <3> QED BY <1>6, <3>1 DEF RowQuoted, Decided, None
    <2>2. CASE q # r
      <3>1. request'[q] = request[q] /\ terms'[q] = terms[q] /\ RowQuoted(q)
        BY <1>4, <1>5, <2>2 DEF PolicyInv
      <3> QED BY <1>2, <3>1 DEF RowQuoted
    <2> QED BY <2>1, <2>2
  <1>9. ASSUME NEW k \in Handlers PROVE DraftQuoted(k)'
    <2>1. CASE k = h
      BY <1>3, <2>1 DEF DraftQuoted
    <2>2. CASE k # h
      <3>1. task'[k] = task[k] /\ draft'[k] = draft[k] /\ DraftQuoted(k)
        BY <1>3, <2>2 DEF PolicyInv
      <3>2. \A q \in Requests :
              request[q] # None => request'[q] = request[q] /\ terms'[q] = terms[q]
        BY <1>1, <1>4, <1>5
      <3> QED BY <3>1, <3>2 DEF DraftQuoted
    <2> QED BY <2>1, <2>2
  <1> QED BY <1>2, <1>3, <1>7, <1>8, <1>9 DEF PolicyInv

\* The percentage of a decision is one it may come to.
LEMMA CappedIsGrantable ==
    ASSUME NEW r \in Requests, Quoted(terms[r]),
           NEW asked \in Overrides \cup {Suggested(r)}, Capped(r, asked) # 0
    PROVE  Grantable(terms[r], Capped(r, asked))
  <1>1. terms[r].suggested \in 0..100 /\ asked \in 0..100
    BY OverridesClamped DEF Quoted, Columns, Suggested
  <1> QED BY <1>1 DEF Grantable, Capped, Suggested, Smaller

\* decideRefundRequest reads the application and works out the percentage.
LEMMA DecideKeeps ==
    ASSUME TypeOK, PolicyInv, NEW h \in Handlers, DecideQuoted(h)
    PROVE  PolicyInv'
  <1>1. PICK r \in Requests :
          /\ request[r] = "PENDING"
          /\ \/ Become(h, RequestTask("reject", r, 0))
             \/ \E share \in Shares : Become(h, RequestTask("price", r, share))
    BY DEF DecideQuoted, DecideRead, Begin
  <1>2. UNCHANGED <<request, approved, terms, days>>
    BY DEF DecideQuoted, DecideRead, requestVars
  <1>3. task'[h].r = r /\ \A k \in Handlers \ {h} : task'[k] = task[k]
    BY <1>1 DEF TypeOK, Become, RequestTask
  <1>4. CASE task'[h].pc = "reject"
    <2>1. draft' = draft
      BY <1>4 DEF DecideQuoted
    <2>2. DraftQuoted(h)'
      BY <1>4 DEF DraftQuoted
    <2> QED BY <1>2, <1>3, <2>1, <2>2, HoldsKeep DEF PolicyInv
  <1>5. CASE task'[h].pc = "price"
    <2>1. PICK asked \in Overrides \cup {Suggested(r)} :
            /\ Capped(r, asked) # 0
            /\ task'[h].left = Share(Capped(r, asked))
            /\ draft' = [draft EXCEPT ![h] = [terms[r] EXCEPT !.granted = Capped(r, asked)]]
      BY <1>3, <1>5 DEF DecideQuoted
    <2>2. terms[r] \in Columns /\ Quoted(terms[r])
      BY <1>1 DEF PolicyInv, RowQuoted, Quoted, None
    <2> DEFINE g == Capped(r, asked)
               made == [terms[r] EXCEPT !.granted = g]
    <2>3. Grantable(terms[r], g)
      BY <2>1, <2>2, CappedIsGrantable
    <2>4. made \in Columns /\ SameQuote(terms[r], made) /\ made.granted = g
      BY <2>2, <2>3 DEF Columns, SameQuote, Grantable
    <2>5. task'[h].left = Share(g) /\ draft' = [draft EXCEPT ![h] = made]
      BY <2>1
    <2> HIDE DEF made, g
    <2>6. /\ draft' \in [Handlers -> Columns \cup {NoTerms}] /\ draft'[h] = made
          /\ \A k \in Handlers \ {h} : draft'[k] = draft[k]
      BY <2>4, <2>5 DEF PolicyInv
    <2>7. DraftQuoted(h)'
      BY <1>1, <1>2, <1>3, <1>5, <2>3, <2>4, <2>5, <2>6 DEF DraftQuoted, None
    <2> QED BY <1>2, <1>3, <2>6, <2>7, HoldsKeep
  <1> QED BY <1>4, <1>5 DEF DecideQuoted

\* The amount is the share of the price: a settled payment covers it.
LEMMA PriceKeeps ==
    ASSUME TypeOK, PolicyInv, NEW h \in Handlers, PriceApproval(h), draft' \in [Handlers -> Columns \cup {NoTerms}],
           draft' = [draft EXCEPT ![h] = IF task'[h] = Idle THEN NoTerms ELSE @],
           UNCHANGED <<days, terms>>
    PROVE  PolicyInv'
  <1> DEFINE amount == Smaller(task[h].left, UnitsIn("SUCCESS"))
  <1>1. /\ task[h].pc = "price" /\ UNCHANGED <<request, approved, terms, days>>
        /\ task' = [task EXCEPT ![h] = IF amount > 0
                                         THEN RequestTask("approve", task[h].r, amount) ELSE Idle]
    BY DEF PriceApproval, At, Become, Done, requestVars
  <1>2. \A k \in Handlers \ {h} : task'[k] = task[k] /\ draft'[k] = draft[k]
    BY <1>1 DEF TypeOK, PolicyInv
  <1>3. CASE amount > 0
    <2> DEFINE g == draft[h].granted
    <2>1. task[h].left = Share(g) /\ g \in 1..100 /\ g \in 0..100
      BY <1>1 DEF PolicyInv, DraftQuoted, Grantable
    <2>2. Share(g) \in Nat /\ Share(g) <= Price
      BY <2>1, ShareIsNearest
    <2>3. UnitsIn("SUCCESS") \in Nat /\ (UnitsIn("SUCCESS") > 0 => UnitsIn("SUCCESS") >= Price)
      <3>1. Cardinality(HasStatus("SUCCESS")) \in Nat
        <4>1. IsFiniteSet(Payments)
          BY ConstantTypes, FS_Interval DEF Payments
        <4>2. HasStatus("SUCCESS") \in SUBSET Payments
          BY DEF HasStatus
        <4>3. IsFiniteSet(HasStatus("SUCCESS"))
          BY <4>1, <4>2, FS_Subset
        <4> QED BY <4>3, FS_CardinalityType
      <3>2. \A n \in Nat : /\ Price * n \in Nat
                           /\ n = 0 \/ Price * n >= Price
        BY ConstantTypes
      <3>3. Price * 0 = 0
        BY ConstantTypes
      <3> QED BY <3>1, <3>2, <3>3 DEF UnitsIn
    <2>4. amount = Share(g)
      BY <1>3, <2>1, <2>2, <2>3, ConstantTypes DEF Smaller
    <2>5. task'[h].pc = "approve" /\ task'[h].r = task[h].r /\ task'[h].left = amount
      BY <1>1, <1>3 DEF TypeOK, RequestTask
    <2>6. task'[h] # Idle
      BY <2>5 DEF Idle, PaymentTask
    <2>7. draft'[h] = draft[h]
      BY <2>6 DEF PolicyInv
    <2>8. DraftQuoted(h)'
      BY <1>1, <1>3, <2>1, <2>4, <2>5, <2>7 DEF DraftQuoted, PolicyInv
    <2> QED BY <1>1, <1>2, <2>8, HoldsKeep
  <1>4. CASE ~(amount > 0)
    <2>1. task'[h].pc = "idle"
      BY <1>1, <1>4 DEF TypeOK, Idle, PaymentTask
    <2>2. DraftQuoted(h)'
      BY <2>1 DEF DraftQuoted
    <2> QED BY <1>1, <1>2, <2>2, HoldsKeep
  <1> QED BY <1>3, <1>4


\* The approval commits with the percentage of its draft.
LEMMA ApproveKeeps ==
    ASSUME TypeOK, PolicyInv, NEW h \in Handlers, ApproveQuoted(h)
    PROVE  PolicyInv'
  <1> DEFINE r == task[h].r
             g == draft[h].granted
  <1>1. /\ r \in Requests /\ request[r] = "PENDING" /\ draft[h] \in Columns
        /\ Grantable(terms[r], g) /\ task[h].left = Share(g) /\ task[h].left > 0
    BY DEF ApproveQuoted, Approve, MayApprove, At, PolicyInv, DraftQuoted
  <1>2. /\ request' = [request EXCEPT ![r] = "APPROVED"]
        /\ approved' = [approved EXCEPT ![r] = task[h].left]
        /\ task' = [task EXCEPT ![h] = RequestTask("allocate", r, task[h].left)]
        /\ terms' = [terms EXCEPT ![r].granted = g]
        /\ draft' = [draft EXCEPT ![h] = NoTerms] /\ days' = days
    BY DEF ApproveQuoted, Approve, Become
  <1>3. Quoted(terms[r]) /\ terms[r] \in Columns
    BY <1>1 DEF PolicyInv, RowQuoted, Quoted, None
  <1>4. g \in 1..100 /\ g # -1
    BY <1>1 DEF Grantable
  <1> HIDE DEF r, g
  <1>5. /\ terms'[r] \in Columns /\ SameQuote(terms[r], terms'[r]) /\ terms'[r].granted = g
        /\ \A q \in Requests : q # r => terms'[q] = terms[q]
        /\ terms' \in [Requests -> Columns \cup {NoTerms}]
    <2> DEFINE made == [terms[r] EXCEPT !.granted = g]
    <2>1. made \in Columns /\ SameQuote(terms[r], made) /\ made.granted = g
      BY <1>3, <1>4 DEF Columns, SameQuote
    <2>2. terms' = [terms EXCEPT ![r] = made]
      BY <1>2
    <2> HIDE DEF made
    <2> QED BY <1>1, <2>1, <2>2 DEF PolicyInv
  <1>6. /\ request'[r] = "APPROVED" /\ approved'[r] = Share(g) /\ approved'[r] > 0
        /\ \A q \in Requests : q # r => request'[q] = request[q] /\ approved'[q] = approved[q]
    BY <1>1, <1>2 DEF TypeOK, r, g
  <1>7. Quoted(terms'[r]) /\ Grantable(terms'[r], g)
    BY <1>1, <1>3, <1>5 DEF Quoted, Grantable, SameQuote, r, g
  <1>8. ASSUME NEW q \in Requests PROVE RowQuoted(q)'
    <2>1. CASE q = r
      BY <1>4, <1>5, <1>6, <1>7, <2>1 DEF RowQuoted, Quoted, None
    <2>2. CASE q # r
      <3>1. request'[q] = request[q] /\ terms'[q] = terms[q] /\ approved'[q] = approved[q]
            /\ RowQuoted(q)
        BY <1>5, <1>6, <2>2 DEF PolicyInv
      <3> QED BY <3>1 DEF RowQuoted
    <2> QED BY <2>1, <2>2
  <1>9. /\ task'[h].pc = "allocate" /\ \A k \in Handlers \ {h} : task'[k] = task[k]
        /\ \A k \in Handlers \ {h} : draft'[k] = draft[k]
        /\ draft' \in [Handlers -> Columns \cup {NoTerms}]
    BY <1>2 DEF TypeOK, PolicyInv, RequestTask
  <1>10. ASSUME NEW k \in Handlers PROVE DraftQuoted(k)'
    <2>1. CASE k = h
      BY <1>9, <2>1 DEF DraftQuoted
    <2>2. CASE k # h
      <3>1. task'[k] = task[k] /\ draft'[k] = draft[k] /\ DraftQuoted(k)
        BY <1>9, <2>2 DEF PolicyInv
      <3>2. \A q \in Requests :
              /\ request[q] # None => request'[q] # None
              /\ SameQuote(terms[q], terms'[q])
        BY <1>5, <1>6 DEF SameQuote, None
      <3>3. \A q \in Requests : \A u, percentage :
              /\ SameQuote(terms[q], u) => SameQuote(terms'[q], u)
              /\ Grantable(terms[q], percentage) => Grantable(terms'[q], percentage)
        BY <3>2 DEF SameQuote, Grantable
      <3> QED BY <3>1, <3>2, <3>3 DEF DraftQuoted
    <2> QED BY <2>1, <2>2
  <1> QED BY <1>2, <1>5, <1>8, <1>9, <1>10 DEF PolicyInv

\* The eligibility reads of createRefundRequest keep the snapshot or drop it.
LEMMA EligibleKeeps ==
    ASSUME TypeOK, PolicyInv, NEW h \in Handlers, ApplyEligible(h),
           draft' \in [Handlers -> Columns \cup {NoTerms}],
           draft' = [draft EXCEPT ![h] = IF task'[h] = Idle THEN NoTerms ELSE @],
           UNCHANGED <<days, terms>>
    PROVE  PolicyInv'
  <1>1. /\ task[h].pc = "eligible" /\ UNCHANGED <<request, approved, terms, days>>
        /\ \/ task' = [task EXCEPT ![h] = RequestTask("insert", 0, 0)]
           \/ task' = [task EXCEPT ![h] = Idle]
    BY DEF ApplyEligible, At, Become, Done, requestVars
  <1>2. \A k \in Handlers \ {h} : task'[k] = task[k] /\ draft'[k] = draft[k]
    BY <1>1 DEF TypeOK, PolicyInv
  <1>3. task'[h].pc \in {"insert", "idle"} /\ (task'[h].pc = "insert" => task'[h] # Idle)
    BY <1>1 DEF TypeOK, RequestTask, Idle, PaymentTask
  <1>4. task'[h].pc = "insert" => draft'[h] = draft[h]
    BY <1>3 DEF PolicyInv
  <1>5. DraftQuoted(h)'
    BY <1>1, <1>3, <1>4 DEF PolicyInv, DraftQuoted
  <1> QED BY <1>1, <1>2, <1>5, HoldsKeep

\* Every other step of a request.
LEMMA OtherStepKeeps ==
    ASSUME TypeOK, PolicyInv, NEW h \in Handlers, OtherStep(h)
    PROVE  PolicyInv'
  <1>1. /\ draft' = [draft EXCEPT ![h] = IF task'[h] = Idle THEN NoTerms ELSE @]
        /\ UNCHANGED <<days, terms>>
    BY DEF OtherStep
  <1>2. /\ draft' \in [Handlers -> Columns \cup {NoTerms}]
        /\ \A k \in Handlers \ {h} : draft'[k] = draft[k]
    BY <1>1 DEF PolicyInv
  <1>3. CASE ApplyEligible(h)
    BY <1>1, <1>2, <1>3, EligibleKeeps
  <1>4. CASE PriceApproval(h)
    BY <1>1, <1>2, <1>4, PriceKeeps
  <1>5. CASE BookingStart(h) \/ BookingStep(h) \/ PaymentStart(h) \/ PaymentStep(h)
    <2>1. days' \in DayMarks /\ terms' = terms
      BY <1>1 DEF PolicyInv
    <2> QED BY <1>2, <1>5, <2>1, BookingsHoldNothing, OthersKeep
  <1>6. CASE \/ RetryRead(h) \/ InsertConflict(h) \/ Reject(h) \/ ApproveConflict(h)
             \/ Allocate(h) \/ PayoutWithoutBankId(h) \/ CallPayout(h)
             \/ RecordPayout(h) \/ RecordPayoutFailure(h) \/ Conclude(h)
             \/ RetryClaim(h) \/ RetryRefused(h) \/ RetryOwed(h) \/ Crash(h)
    <2>1. days' \in DayMarks /\ terms' = terms
      BY <1>1 DEF PolicyInv
    <2> QED BY <1>2, <1>6, <2>1, PayoutsHoldNothing, OthersKeep
  <1> QED BY <1>3, <1>4, <1>5, <1>6 DEF OtherStep

-----------------------------------------------------------------------------
(* The invariant and the refinement.                                       *)

\* Nothing is quoted at the start.
LEMMA PolicyInitSafe == PolicyInit => PolicyInv
  <1> SUFFICES ASSUME PolicyInit PROVE PolicyInv
    OBVIOUS
  <1>1. \A r \in Requests : RowQuoted(r)
    BY DEF PolicyInit, Init, RowQuoted
  <1>2. \A h \in Handlers : DraftQuoted(h)
    BY DEF PolicyInit, Init, DraftQuoted, Idle, PaymentTask
  <1> QED BY <1>1, <1>2 DEF PolicyInit, PolicyInv

\* Every step keeps what is quoted,
LEMMA PolicyNextSafe == TypeOK /\ PolicyInv /\ [PolicyNext]_allVars => PolicyInv'
  <1> SUFFICES ASSUME TypeOK, PolicyInv, [PolicyNext]_allVars PROVE PolicyInv'
    OBVIOUS
  <1>1. ASSUME NEW h \in Handlers,
               QuoteApplication(h) \/ InsertQuoted(h) \/ DecideQuoted(h) \/ ApproveQuoted(h)
               \/ OtherStep(h)
        PROVE  PolicyInv'
    BY <1>1, QuoteKeeps, InsertKeeps, DecideKeeps, ApproveKeeps, OtherStepKeeps
  <1>2. ASSUME UNCHANGED <<request, approved, task, draft, terms>>, days' \in DayMarks
        PROVE  PolicyInv'
    <2>1. \A r \in Requests : RowQuoted(r)'
      BY <1>2 DEF PolicyInv, RowQuoted
    <2>2. \A h \in Handlers : DraftQuoted(h)'
      BY <1>2 DEF PolicyInv, DraftQuoted
    <2> QED BY <1>2, <2>1, <2>2 DEF PolicyInv
  <1>3. CASE \E p \in Payments : ShopperPays(p) /\ UNCHANGED policyVars
    BY <1>2, <1>3 DEF ShopperPays, requestVars, policyVars, PolicyInv
  <1>4. CASE DaysPass
    BY <1>2, <1>4 DEF DaysPass, vars
  <1>5. CASE TravelDateComes
    BY <1>2, <1>5 DEF TravelDateComes, Depart, requestVars, policyVars, PolicyInv
  <1>6. CASE UNCHANGED allVars
    BY <1>2, <1>6 DEF allVars, vars, policyVars, PolicyInv
  <1> QED BY <1>1, <1>3, <1>4, <1>5, <1>6 DEF PolicyNext

\* and is a step of TripMoney or leaves it alone.
LEMMA PolicySteps == [PolicyNext]_allVars => [Next]_vars
  <1> SUFFICES ASSUME [PolicyNext]_allVars PROVE [Next]_vars
    OBVIOUS
  <1>1. ASSUME NEW h \in Handlers,
               QuoteApplication(h) \/ InsertQuoted(h) \/ DecideQuoted(h) \/ ApproveQuoted(h)
               \/ OtherStep(h)
        PROVE  Next
    <2>1. Start(h) \/ Step(h) \/ Crash(h)
      BY <1>1
      DEF QuoteApplication, InsertQuoted, DecideQuoted, ApproveQuoted, OtherStep,
          Start, Step, RefundStart, RefundStep
    <2> QED BY <2>1 DEF Next
  <1>2. CASE \E p \in Payments : ShopperPays(p) /\ UNCHANGED policyVars
    BY <1>2 DEF Next
  <1>3. CASE DaysPass \/ UNCHANGED allVars
    BY <1>3 DEF DaysPass, allVars
  <1>4. CASE TravelDateComes
    BY <1>4 DEF TravelDateComes, Next
  <1> QED BY <1>1, <1>2, <1>3, <1>4 DEF PolicyNext

\* decideRefundRequest, createRefundRequest: whatever the percentages, the money
\* moves as TripMoney says, so all that is proved of it holds of the policy too.
THEOREM PolicyRefinesMoney == PolicySpec => Spec
  <1>1. PolicyInit => Init
    BY DEF PolicyInit
  <1> QED BY <1>1, PolicySteps, PTL DEF PolicySpec, Spec

\* The invariant of the policy holds along with the types of the money.
THEOREM PolicyInductive == PolicySpec => [](TypeOK /\ PolicyInv)
  <1>1. PolicySpec => []TypeOK
    BY PolicyRefinesMoney, TypeCorrect, PTL
  <1>2. TypeOK /\ PolicyInv /\ [PolicyNext]_allVars => PolicyInv'
    BY PolicyNextSafe
  <1> QED BY <1>1, <1>2, PolicyInitSafe, PTL DEF PolicySpec

\* createRefundRequest: every column of the policy keeps its type, and an
\* application has its columns exactly when it exists.
THEOREM PolicyTypeSafe == PolicySpec => []PolicyTypeOK
  <1>1. PolicyInv => PolicyTypeOK
    <2> SUFFICES ASSUME PolicyInv PROVE PolicyTypeOK
      OBVIOUS
    <2>1. Columns \cup {NoTerms} \subseteq
            [category : Categories \cup {None}, on : DayMarks \cup {0},
             suggested : 0..100, granted : -1..100]
      BY DEF Columns, NoTerms, Terms
    <2>2. draft \in [Handlers -> [category : Categories \cup {None}, on : DayMarks \cup {0},
                                  suggested : 0..100, granted : -1..100]]
      BY <2>1 DEF PolicyInv
    <2>3. \A r \in Requests : IF request[r] = None THEN terms[r] = NoTerms
                              ELSE terms[r] \in Columns
      BY DEF PolicyInv, RowQuoted, Quoted
    <2> QED BY <2>2, <2>3 DEF PolicyInv, PolicyTypeOK, Columns
  <1> QED BY <1>1, PolicyInductive, PTL

\* createRefundRequest, decideRefundRequest: an approval is at the percentage of
\* the day of the application or at one an admin asked for, however long the
\* review took.
THEOREM LockedInSafe == PolicySpec => []LockedInAtSubmission
  <1>1. PolicyInv => LockedInAtSubmission
    BY DEF PolicyInv, RowQuoted, Quoted, Grantable, LockedInAtSubmission, NoTerms, Terms
  <1> QED BY <1>1, PolicyInductive, PTL

\* decideRefundRequest: a change of plans is never approved for more than the
\* tier of the day it was applied for, for any price.
THEOREM TierIsTheLimitSafe == PolicySpec => []TierIsTheLimit
  <1>1. ASSUME PolicyInv, NEW r \in Requests, request[r] \in Decided,
               terms[r].category = "CHANGE_OF_PLANS"
        PROVE  approved[r] <= Share(Tier(terms[r].on))
    <2>1. /\ Quoted(terms[r]) /\ Grantable(terms[r], terms[r].granted)
          /\ approved[r] = Share(terms[r].granted)
      BY <1>1 DEF PolicyInv, RowQuoted, Decided, None
    <2>2. terms[r].suggested = Tier(terms[r].on) /\ terms[r].suggested \in 0..100
      BY <1>1, <2>1 DEF Quoted, Columns, suggestRefundPercentage, DocsBacked
    <2>3. terms[r].granted \in 1..100 /\ terms[r].granted <= terms[r].suggested
      BY <1>1, <2>1 DEF Grantable
    <2>4. Share(terms[r].granted) <= Share(terms[r].suggested)
      <3>1. terms[r].granted \in 0..100
        BY <2>3
      <3> QED BY <2>2, <2>3, <3>1, ShareIsMonotone
    <2> QED BY <2>1, <2>2, <2>4
  <1>2. PolicyInv => TierIsTheLimit
    BY <1>1 DEF TierIsTheLimit, Decided
  <1> QED BY <1>2, PolicyInductive, PTL

\* decideRefundRequest: what is approved is the percentage of the price to the
\* nearest paisa and never nothing, for any price.
THEOREM ApprovedToThePaisaSafe == PolicySpec => []ApprovedToThePaisa
  <1>1. ASSUME PolicyInv, NEW r \in Requests, request[r] \in Decided
        PROVE  /\ approved[r] > 0
               /\ 200 * approved[r] - 2 * Price * terms[r].granted \in (-100)..100
    <2>1. /\ Grantable(terms[r], terms[r].granted)
          /\ approved[r] = Share(terms[r].granted) /\ approved[r] > 0
      BY <1>1 DEF PolicyInv, RowQuoted, Decided, None
    <2>2. terms[r].granted \in 0..100
      BY <2>1 DEF Grantable
    <2>3. 200 * Share(terms[r].granted) - 2 * Price * terms[r].granted \in (-100)..100
      BY <2>2, ShareIsNearest
    <2> QED BY <2>1, <2>3
  <1>2. PolicyInv => ApprovedToThePaisa
    BY <1>1 DEF ApprovedToThePaisa, Decided
  <1> QED BY <1>2, PolicyInductive, PTL

\* decideRefundRequest, runPayout: what goes back is the percentage of the price
\* that was quoted or asked for, to the paisa, against direct cancellations and
\* stops anywhere; a policy step is a step of TripMoney, so its theorem carries
\* over.
THEOREM PolicyReturnsExactly ==
  ASSUME "callback" \notin Ops, "retry" \notin Ops
  PROVE  PolicySpec => []ReturnsWhatWasApproved
BY PolicyRefinesMoney, ApprovalsReturnExactly, PTL

=============================================================================
