------------------------------ MODULE TripMoney -----------------------------
(***************************************************************************)
(* The money side of TripVerse: booking, payment and refund services       *)
(* composed over the rows of one booking, with any number of requests in   *)
(* flight.  Which operations may start is the constant Ops, so one         *)
(* specification serves the runs and the proofs.                           *)
(***************************************************************************)
EXTENDS PaymentService, RefundService

CONSTANTS InitialBookings   \* statuses the booking may be created or met in

\* A booking is met in PENDING with no money, or in PAID or CONFIRMED with its
\* first session settled.
ASSUME InitialBookingsOK ==
    /\ InitialBookings \subseteq {"PENDING", "PAID", "CONFIRMED"}
    /\ InitialBookings \subseteq {"PENDING"} \/ MaxPayments > 0

Init ==
    /\ booking \in InitialBookings
    /\ departed = FALSE
    /\ payment = [p \in Payments |-> IF p = 1 /\ booking # "PENDING" THEN "SUCCESS" ELSE None]
    /\ marked = [p \in Payments |-> FALSE]
    /\ bank \in [Payments -> BOOLEAN]
    /\ \A p \in Payments : IF payment[p] = "SUCCESS" THEN bank[p] \in BankIds ELSE ~bank[p]
    /\ request = [r \in Requests |-> None]
    /\ approved = [r \in Requests |-> 0]
    /\ fresh = [r \in Requests |-> {}]
    /\ session = [p \in Payments |-> IF payment[p] = "SUCCESS" THEN "paid" ELSE "none"]
    /\ sent = [p \in Payments |-> 0]
    /\ task = [h \in Handlers |-> Idle]

-----------------------------------------------------------------------------

\* The travel date comes.
Depart ==
    /\ ~departed
    /\ departed' = TRUE
    /\ UNCHANGED <<booking, paymentVars, requestVars, gatewayVars, task>>

\* The request ends between two steps: the function instance is stopped, the
\* database connection fails, PostgreSQL aborts the transaction of this step
\* (deadlock victim), or an error is thrown.  Its locals are lost.
Crash(h) ==
    /\ "crash" \in Ops
    /\ ~At(h, "idle")
    /\ Done(h)
    /\ fresh' = [r \in Requests |-> fresh[r] \ {h}]
    /\ UNCHANGED <<booking, departed, paymentVars, request, approved, gatewayVars>>

Start(h) == BookingStart(h) \/ PaymentStart(h) \/ RefundStart(h)
Step(h)  == BookingStep(h) \/ PaymentStep(h) \/ RefundStep(h)

Next ==
    \/ \E h \in Handlers : Start(h) \/ Step(h) \/ Crash(h)
    \/ \E p \in Payments : ShopperPays(p)
    \/ Depart

Spec == Init /\ [][Next]_vars

\* A request that has begun goes on: database and gateway calls are bounded
\* (8 s for the gateway) and return or throw.  Nobody has to start one.
FairSpec == Spec /\ \A h \in Handlers : WF_vars(Step(h))

-----------------------------------------------------------------------------
(* Types.                                                                  *)

\* Every row and every local has a value of its column or declaration.
TypeOK ==
    /\ booking \in BookingStatus
    /\ departed \in BOOLEAN
    /\ payment \in [Payments -> PaymentStatus \cup {None}]
    /\ marked \in [Payments -> BOOLEAN]
    /\ bank \in [Payments -> BOOLEAN]
    /\ request \in [Requests -> RequestStatus \cup {None}]
    /\ approved \in [Requests -> Nat]
    /\ fresh \in [Requests -> SUBSET Handlers]
    /\ session \in [Payments -> {"none", "open", "paid"}]
    /\ sent \in [Payments -> 0..MaxSent]
    /\ task \in [Handlers -> Tasks]

-----------------------------------------------------------------------------
(* What the three services promise together.                               *)

\* updateBookingStatus, issueRefunds, runPayout: the gateway is asked to return
\* money only for a booking that is CANCELLED, and only money a shopper paid.
RefundsOnlyAfterCancel ==
    \A p \in Payments : sent[p] > 0 => booking = "CANCELLED" /\ session[p] = "paid"

\* issueRefunds, runPayout: a row is REFUNDED only when a gateway refund of it
\* was accepted, whichever request flipped it.
RefundedMeansReturned ==
    \A p \in Payments : payment[p] = "REFUNDED" => sent[p] > 0

\* processGatewayResult, updateBookingStatus (a revert lands on PAID): a PAID
\* booking has settled money behind it.
PaidHasMoney ==
    booking = "PAID" => \E p \in Payments : payment[p] = "SUCCESS"

\* decideRefundRequest: an approval and the cancellation of its booking commit
\* together, and nothing brings the booking back.
ApprovalCancels ==
    \A r \in Requests : request[r] \in {"APPROVED", "REFUNDED"} => booking = "CANCELLED"

\* runPayout, retryRefundPayout: a request is REFUNDED only when the gateway
\* has returned at least the approved amount for the booking.
RefundedRequestWasPaid ==
    \A r \in Requests :
        request[r] = "REFUNDED" => \E p \in Payments : sent[p] >= approved[r]

\* A request is in charge of a payment of the cancelled booking: it is about to
\* list the settled payments, or has this one still to do.
InCharge(h, p) ==
    \/ At(h, "scan")
    \/ At(h, "settled") /\ task[h].p = p
    \/ At(h, "refund") /\ p \in task[h].todo
    \/ task[h].pc \in {"flip", "mark"} /\ (p = task[h].p \/ p \in task[h].todo)

ApprovedOnce == \E r \in Requests : request[r] \in {"APPROVED", "REFUNDED"}

\* updateBookingStatus against processGatewayResult: of a cancellation and a
\* settlement that race, the later one sees the other.  Settled money of a
\* directly cancelled booking is being returned by some request, or marked for
\* a retry; it is never just kept.
NoForgottenMoney ==
    booking = "CANCELLED" /\ ~ApprovedOnce =>
        \A p \in Payments :
            payment[p] = "SUCCESS" /\ ~marked[p] => \E h \in Handlers : InCharge(h, p)

\* runPayout: when no payout of an approved request is under way, the shortfall
\* is on record: a payment is marked for the retry, or one is already REFUNDED
\* and the retry will close the request.
InPayout(h, r) ==
    /\ task[h].pc \in {"allocate", "payout", "payFlip", "payMark", "conclude"}
    /\ task[h].r = r

ShortfallIsVisible ==
    \A r \in Requests :
        request[r] = "APPROVED" /\ (\A h \in Handlers : ~InPayout(h, r)) =>
            \E p \in Payments : marked[p] \/ payment[p] = "REFUNDED"

\* No payment is returned to the shopper beyond its amount.
NeverOverReturned == \A p \in Payments : sent[p] <= Price

\* runPayout against a direct cancellation: of a booking with an approval no
\* payment is returned beyond what was approved, and a request that reads
\* REFUNDED had exactly that returned.
ReturnsWhatWasApproved ==
    \A r \in Requests :
        request[r] \in {"APPROVED", "REFUNDED"} =>
            /\ \A p \in Payments : sent[p] <= approved[r]
            /\ request[r] = "REFUNDED" => \E p \in Payments : sent[p] = approved[r]

-----------------------------------------------------------------------------
(* What a step may never do.                                               *)

\* closeSession, Settle, the refund flips: a settled row moves only to
\* REFUNDED, and a refunded row never; a late callback cannot undo either.
SettledRowsAreFinal ==
    [][\A p \in Payments :
         /\ payment[p] = "SUCCESS" => payment'[p] \in {"SUCCESS", "REFUNDED"}
         /\ payment[p] = "REFUNDED" => payment'[p] = "REFUNDED"]_vars

\* decideRefundRequest: a decision stands; two admins, or an admin and an
\* agency cancellation, never both decide one application.
DecisionsAreFinal ==
    [][\A r \in Requests :
         /\ request[r] = "REJECTED" => request'[r] = "REJECTED"
         /\ request[r] \in {"APPROVED", "REFUNDED"} =>
              /\ request'[r] \in {"APPROVED", "REFUNDED"}
              /\ approved'[r] = approved[r]]_vars

\* updateBookingStatus: COMPLETED and CANCELLED are terminal.
TerminalBookings ==
    [][(booking \in {"COMPLETED", "CANCELLED"}) => booking' = booking]_vars

\* A customer may cancel a PENDING booking, and settled money goes back in full.
Exposed == booking = "PENDING" /\ Settled # {}

\* A revert whose count found nothing settled, and something has settled since.
Overtaken(h) == At(h, "write") /\ task[h].to = "PENDING" /\ Settled # {}

\* booking.service.ts:540, updateBookingStatus: a customer who cancels a booking
\* with settled money does it while the booking is exposed; only the write of an
\* overtaken revert exposes one; and only a payment of another request that
\* settles between its count and its write overtakes a revert.
OnlyOvertakenRevertsExpose ==
    [][/\ \A h \in Handlers :
            task[h].by = "customer" /\ task'[h] # task[h] /\ Settled # {} /\ ~Exposed
               => booking' = booking
       /\ Exposed' => Exposed \/ \E h \in Handlers : Overtaken(h) /\ WriteStatus(h)
       /\ \A h \in Handlers :
            Overtaken(h)' => Overtaken(h) \/ \E g \in Handlers \ {h} : Settle(g)]_vars

\* TRANSITIONS: where nobody reverts, no customer's request moves a booking with
\* settled money, whatever it had read.
CustomerNeverCancelsSettled ==
    [][\A h \in Handlers :
         task[h].by = "customer" /\ task'[h] # task[h] /\ Settled # {} => booking' = booking]_vars

\* The money and the approvals that NoForgottenMoney and ShortfallIsVisible
\* rule out: kept on a cancelled booking, or owed with nothing on record.
Forgotten ==
    {p \in Payments :
        /\ booking = "CANCELLED" /\ ~ApprovedOnce
        /\ payment[p] = "SUCCESS" /\ ~marked[p]
        /\ \A h \in Handlers : ~InCharge(h, p)}

Hidden ==
    {r \in Requests :
        /\ request[r] = "APPROVED" /\ \A h \in Handlers : ~InPayout(h, r)
        /\ \A p \in Payments : ~marked[p] /\ payment[p] # "REFUNDED"}

\* updateBookingStatus, issueRefunds, createBooking: with every operation and
\* fault, no step of a service loses sight of settled money except the rebooking
\* that overwrites what was paid meanwhile; what else does is a request that ends
\* half way.
OnlyFaultsForget ==
    [][Forgotten' \subseteq Forgotten
         \/ \A h \in Handlers : Start(h) \/ Step(h) => RebookCancel(h)]_vars

\* runPayout, retryRefundPayout: no step of a service hides what an approval
\* still owes, however many payouts and retries overlap or were cut off before.
OnlyCrashesHide ==
    [][Hidden' \subseteq Hidden
         \/ \A h \in Handlers : ~(Start(h) \/ Step(h))]_vars

\* decideRefundRequest: an application left pending on a booking that was
\* cancelled or completed in the meantime can be rejected, never approved.
WedgedNeverApproved ==
    [][\A r \in Requests :
         request[r] = "PENDING" /\ booking \in {"CANCELLED", "COMPLETED"} =>
            request'[r] \in {"PENDING", "REJECTED"}]_vars

\* The three services together keep what TripPromise says, step by step: every
\* step is one of its steps or changes nothing it speaks of.
Promise == INSTANCE TripPromise
             WITH Amounts  <- 0..MaxSent,
                  trip     <- IF booking = "CANCELLED" THEN "off" ELSE "on",
                  paid     <- {p \in Payments : session[p] = "paid"},
                  returned <- sent,
                  claim    <- request,
                  due      <- approved

KeepsPromise == Promise!Spec

-----------------------------------------------------------------------------
(* Liveness.                                                               *)

\* Every request that has begun is answered: no loop runs for ever and no
\* request waits for another.
EveryRequestEnds == \A h \in Handlers : ~At(h, "idle") ~> At(h, "idle")

\* Money settled on a directly cancelled booking is refunded or marked.
LateMoneyIsHandled ==
    \A p \in Payments :
        booking = "CANCELLED" /\ payment[p] = "SUCCESS"
            ~> payment[p] = "REFUNDED" \/ marked[p] \/ ApprovedOnce

-----------------------------------------------------------------------------
(* Statements of the repository that the code does not keep (README).      *)

\* booking.service.ts:540 "A booking with settled money must never fall back
\* to PENDING".
SettledNeverPending ==
    booking = "PENDING" => \A p \in Payments : payment[p] # "SUCCESS"

\* payment.service.ts:62 "One live session per booking".
OneLiveSession ==
    \A p, q \in Payments : payment[p] = "INITIATED" /\ payment[q] = "INITIATED" => p = q

\* refund.service.ts:37 "A customer can apply at most twice per booking".
AtMostTwoApplications ==
    Cardinality({r \in Requests : request[r] # None}) <= MAX_APPLICATIONS

\* spec 26: a concurrent agency cancel "can't wedge a PENDING row onto a
\* CANCELLED booking".
NoWedgedApplication ==
    \A r \in Requests : request[r] = "PENDING" => booking # "CANCELLED"

\* refund.service.ts:652 "every REFUNDED row on this booking belongs to this
\* request's payout": after an approval, rows are flipped by runPayout.
RefundedRowsBelongToPayout ==
    [][ApprovedOnce =>
         \A p \in Payments :
            payment[p] # "REFUNDED" /\ payment'[p] = "REFUNDED" =>
                \E h \in Handlers : At(h, "payFlip") /\ task[h].p = p]_vars

=============================================================================
