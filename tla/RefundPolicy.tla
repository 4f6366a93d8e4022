---------------------------- MODULE RefundPolicy ----------------------------
(***************************************************************************)
(* The refund policy on top of TripMoney: the days until travel, what an   *)
(* application is quoted on the day it is made, and the percentage it is   *)
(* approved at.  Every step is a step of TripMoney; where a service reads  *)
(* or writes one of the policy's columns, the step says so as well, and    *)
(* the amount of an approval is no longer any share but the percentage of  *)
(* the price that the policy gives.  Price is in paisa here.               *)
(***************************************************************************)
EXTENDS TripMoneyInvariant

CONSTANTS
    Categories,   \* what applications are made for
    Overrides,    \* percentages an admin may ask for (0..100)
    DayMarks      \* days until travel at which somebody may act

DocsBacked == {"MEDICAL_EMERGENCY", "BEREAVEMENT", "VISA_REJECTION", "FORCE_MAJEURE"}

ASSUME CategoriesKnown == Categories \subseteq DocsBacked \cup {"CHANGE_OF_PLANS"}
ASSUME OverridesClamped == Overrides \subseteq 0..100   \* decisionSchema
ASSUME DaysAreInt == DayMarks \subseteq Int

VARIABLES
    days,    \* whole days until travel, today
    draft,   \* per handler: the columns it is about to write
    terms    \* per application: its columns of the policy

policyVars == <<days, draft, terms>>
allVars == <<vars, policyVars>>

\* category, daysBeforeTravel, suggestedPercentage, approvedPercentage (-1: null)
Terms(category, on, suggested, granted) ==
    [category |-> category, on |-> on, suggested |-> suggested, granted |-> granted]
NoTerms == Terms(None, 0, 0, -1)

PolicyInit ==
    /\ Init
    /\ days \in DayMarks
    /\ draft = [h \in Handlers |-> NoTerms]
    /\ terms = [r \in Requests |-> NoTerms]

-----------------------------------------------------------------------------
(* The arithmetic.                                                         *)

Tier(d) ==
    CASE d >= 30            -> 90
      [] d >= 15 /\ d < 30  -> 50
      [] d >= 7 /\ d < 15   -> 25
      [] d < 7              -> 0

suggestRefundPercentage(category, d) == IF category \in DocsBacked THEN 100 ELSE Tier(d)

\* Mutant: the suggestion is worked out again when the decision is made.
SuggestedNow(r) == suggestRefundPercentage(terms[r].category, days)

\* "Policy snapshot - immutable after create; decisions read this".
Suggested(r) == terms[r].suggested

\* Mutant: the override of an admin goes before the tier.
Uncapped(r, asked) == asked

\* CHANGE_OF_PLANS can never exceed the submitted tier.
Capped(r, asked) ==
    IF terms[r].category = "CHANGE_OF_PLANS" THEN Smaller(asked, Suggested(r)) ELSE asked

\* Mutant: any started paisa is rounded up.
ShareUp(percentage) == (Price * percentage + 99) \div 100

\* Math.round: to the nearest paisa, halves up.
Share(percentage) == (2 * Price * percentage + 100) \div 200

\* What an approval may come to is what the money side allows for.
ASSUME SharesArePercentages == \A percentage \in 0..100 : Share(percentage) \in Shares

-----------------------------------------------------------------------------
(* The steps that read or write the policy's columns.                      *)

\* Mutant: the row is inserted without it.
SnapshotForgotten(h) == NoTerms

\* daysBeforeTravel and suggestedPercentage of the new row.
Snapshot(h) == draft[h]

\* createRefundRequest: the snapshot is taken before the insert ...
QuoteApplication(h) ==
    /\ ApplyRead(h)
    /\ \E category \in Categories :
         draft' = [draft EXCEPT ![h] =
                     Terms(category, days, suggestRefundPercentage(category, days), -1)]
    /\ UNCHANGED <<days, terms>>

\* ... and written with it.
InsertQuoted(h) ==
    /\ InsertRequest(h)
    /\ terms' = [r \in Requests |->
                   IF request[r] = None /\ request'[r] # None THEN Snapshot(h) ELSE terms[r]]
    /\ draft' = [draft EXCEPT ![h] = NoTerms]
    /\ UNCHANGED days

\* decideRefundRequest: a rejection, or an approval at the suggested percentage
\* or at one the admin asks for; 0 % is refused.
DecideQuoted(h) ==
    /\ DecideRead(h)
    /\ LET r == task'[h].r
       IN  \/ /\ task'[h].pc = "reject"
              /\ UNCHANGED draft
           \/ /\ task'[h].pc = "price"
              /\ \E asked \in Overrides \cup {Suggested(r)} :
                   LET granted == Capped(r, asked)
                   IN  /\ granted # 0
                       /\ task'[h].left = Share(granted)
                       /\ draft' = [draft EXCEPT ![h] = [terms[r] EXCEPT !.granted = granted]]
    /\ UNCHANGED <<days, terms>>

ApproveQuoted(h) ==
    /\ Approve(h)
    /\ terms' = [terms EXCEPT ![task[h].r].granted = draft[h].granted]
    /\ draft' = [draft EXCEPT ![h] = NoTerms]
    /\ UNCHANGED days

\* The other steps leave the policy alone; a request that ends drops its draft.
OtherStep(h) ==
    /\ \/ BookingStart(h) \/ PaymentStart(h) \/ RetryRead(h)
       \/ BookingStep(h) \/ PaymentStep(h)
       \/ ApplyEligible(h) \/ InsertConflict(h)
       \/ Reject(h) \/ PriceApproval(h) \/ ApproveConflict(h)
       \/ Allocate(h) \/ PayoutWithoutBankId(h) \/ CallPayout(h)
       \/ RecordPayout(h) \/ RecordPayoutFailure(h) \/ Conclude(h)
       \/ RetryClaim(h) \/ RetryRefused(h) \/ RetryOwed(h)
       \/ Crash(h)
    /\ draft' = [draft EXCEPT ![h] = IF task'[h] = Idle THEN NoTerms ELSE @]
    /\ UNCHANGED <<days, terms>>

-----------------------------------------------------------------------------
(* Time: days pass until the travel date and beyond it.                    *)

DaysPass ==
    /\ \E d \in DayMarks : d < days /\ days' = d
    /\ UNCHANGED <<vars, draft, terms>>

TravelDateComes ==
    /\ Depart
    /\ days <= 0
    /\ UNCHANGED policyVars

PolicyNext ==
    \/ \E h \in Handlers :
        \/ QuoteApplication(h) \/ InsertQuoted(h)
        \/ DecideQuoted(h) \/ ApproveQuoted(h)
        \/ OtherStep(h)
    \/ \E p \in Payments : ShopperPays(p) /\ UNCHANGED policyVars
    \/ DaysPass \/ TravelDateComes

PolicySpec == PolicyInit /\ [][PolicyNext]_allVars

-----------------------------------------------------------------------------

\* Every column of the policy has a value of its type, and an application has
\* one exactly when it exists.
PolicyTypeOK ==
    /\ days \in DayMarks
    /\ draft \in [Handlers -> [category : Categories \cup {None}, on : DayMarks \cup {0},
                               suggested : 0..100, granted : -1..100]]
    /\ \A r \in Requests :
         IF request[r] = None THEN terms[r] = NoTerms
         ELSE terms[r] \in [category : Categories, on : DayMarks,
                            suggested : 0..100, granted : -1..100]

\* The row columns of an application that has been quoted.
Columns == [category : Categories, on : DayMarks, suggested : 0..100, granted : -1..100]
Quoted(t) == t \in Columns /\ t.suggested = suggestRefundPercentage(t.category, t.on)

\* A percentage that the decision on quote t may come to.
Grantable(t, percentage) ==
    /\ percentage \in 1..100
    /\ percentage \in Overrides \cup {t.suggested}
    /\ t.category = "CHANGE_OF_PLANS" => percentage <= t.suggested

\* The quote that u holds is the one of t.
SameQuote(t, u) == u.category = t.category /\ u.on = t.on /\ u.suggested = t.suggested

\* What the columns of an application are worth.
RowQuoted(r) ==
    IF request[r] = None THEN terms[r] = NoTerms
    ELSE /\ Quoted(terms[r])
         /\ terms[r].granted # -1 => Grantable(terms[r], terms[r].granted)
         /\ request[r] \in Decided =>
              /\ terms[r].granted # -1
              /\ approved[r] = Share(terms[r].granted) /\ approved[r] > 0

\* What a request that applies or decides is about to write.
DraftQuoted(h) ==
    /\ task[h].pc \in {"eligible", "insert"} =>
         Quoted(draft[h]) /\ draft[h].granted = -1
    /\ task[h].pc \in {"price", "approve"} =>
         /\ task[h].r \in Requests /\ request[task[h].r] # None
         /\ draft[h] \in Columns
         /\ SameQuote(terms[task[h].r], draft[h])
         /\ Grantable(terms[task[h].r], draft[h].granted)
         /\ task[h].left = Share(draft[h].granted)
    /\ task[h].pc = "approve" => task[h].left > 0

\* What the policy's promises rest on: an application keeps the quote of its day,
\* and what is granted, or about to be, is the override or that quote, capped.
PolicyInv ==
    /\ days \in DayMarks
    /\ terms \in [Requests -> Columns \cup {NoTerms}]
    /\ draft \in [Handlers -> Columns \cup {NoTerms}]
    /\ \A r \in Requests : RowQuoted(r)
    /\ \A h \in Handlers : DraftQuoted(h)

\* docs/REFUND_POLICY.md:63 "locked in when you submit ... a slower review never
\* moves you into a lower bracket": an approval is at the percentage of the day
\* of the application, unless an admin asked for another one.
LockedInAtSubmission ==
    \A r \in Requests :
        terms[r].granted # -1 =>
            terms[r].granted \in
                Overrides \cup {suggestRefundPercentage(terms[r].category, terms[r].on)}

\* decideRefundRequest: a change of plans never gets more than the tier of the
\* day it was applied for, whatever was asked, settled or applied for since.
TierIsTheLimit ==
    \A r \in Requests :
        request[r] \in {"APPROVED", "REFUNDED"} /\ terms[r].category = "CHANGE_OF_PLANS" =>
            approved[r] <= Share(Tier(terms[r].on))

\* decideRefundRequest: what is approved is the percentage of the price to the
\* nearest paisa, however much was settled, and never nothing ("0.00 approved").
ApprovedToThePaisa ==
    \A r \in Requests :
        request[r] \in {"APPROVED", "REFUNDED"} =>
            /\ approved[r] > 0
            /\ 200 * approved[r] - 2 * Price * terms[r].granted \in (-100)..100

=============================================================================
