--------------------------- MODULE BookingService ---------------------------
(***************************************************************************)
(* booking.service.ts on one existing booking: the status machine          *)
(* (updateBookingStatus), the direct refund of settled payments            *)
(* (issueRefunds) and the branch of createBooking that cancels an          *)
(* abandoned checkout and rebooks.                                         *)
(***************************************************************************)
EXTENDS Ledger

\* TRANSITIONS: the moves of each role; canManage lets the customer in only
\* where a rule's `allowed` is canManage.
AgencyMoves == {<<"PENDING", "CONFIRMED">>, <<"PENDING", "CANCELLED">>,
                <<"PAID", "CONFIRMED">>, <<"PAID", "CANCELLED">>,
                <<"CONFIRMED", "COMPLETED">>, <<"CONFIRMED", "CANCELLED">>,
                <<"CONFIRMED", "PENDING">>}
CustomerMoves == {<<"PENDING", "CANCELLED">>}

Allowed(by, from, to) ==
    /\ <<from, to>> \in IF by = "agency" THEN AgencyMoves ELSE CustomerMoves
    /\ to = "COMPLETED" => departed      \* requiresTravelDatePassed
    /\ to = "PENDING" => ~departed       \* beforeTravelDate

-----------------------------------------------------------------------------
(* updateBookingStatus: read and check; then one transaction, which for a  *)
(* revert first counts the settled payments; then, for a cancellation, the *)
(* refunds.  A refused call changes nothing.                               *)

UpdateRead(h) ==
    \E by \in {"customer", "agency"}, to \in Targets :
        /\ Allowed(by, booking, to)
        /\ Begin(h, "update",
                 UpdateTask(IF to = "PENDING" THEN "count" ELSE "write", by, booking, to))
        /\ UNCHANGED <<booking, departed, paymentVars, requestVars, gatewayVars>>

\* Mutant: every revert is taken for one of a paid booking.
RevertToPaid == "PAID"

\* "A booking with settled money must never fall back to PENDING".
RevertTarget == IF Settled = {} THEN "PENDING" ELSE "PAID"

CountSettled(h) ==
    /\ At(h, "count")
    /\ Become(h, UpdateTask("write", task[h].by, task[h].was,
                            RevertTarget))
    /\ UNCHANGED <<booking, departed, paymentVars, requestVars, gatewayVars>>

\* Mutant: the update names the row only.
StatusAssumed(h) == TRUE

\* updateMany({id, status: booking.status}); no row matched: 409.
StatusUnchanged(h) == booking = task[h].was

WriteConflict(h) ==
    /\ At(h, "write")
    /\ ~StatusUnchanged(h)
    /\ Done(h)
    /\ UNCHANGED <<booking, departed, paymentVars, requestVars, gatewayVars>>

\* A cancellation also abandons open sessions and closes a live application.
CloseApplications ==
    request' = [r \in Requests |->
                  IF request[r] = "PENDING" THEN "REJECTED" ELSE request[r]]

WriteStatus(h) ==
    /\ At(h, "write")
    /\ StatusUnchanged(h)
    /\ booking' = task[h].to
    /\ IF task[h].to = "CANCELLED"
         THEN /\ AbandonSessions
              /\ CloseApplications
              /\ Become(h, PaymentTask("scan", 0, {}))
         ELSE /\ Done(h)
              /\ UNCHANGED <<payment, request>>
    /\ UNCHANGED <<departed, marked, bank, approved, fresh, gatewayVars>>

-----------------------------------------------------------------------------
(* issueRefunds: list the settled payments, then for each one call the     *)
(* gateway and record the outcome.                                         *)

ScanSettled(h) ==
    /\ At(h, "scan")
    /\ IF Settled = {}
         THEN Done(h)
         ELSE Become(h, PaymentTask("refund", 0, Settled))
    /\ UNCHANGED <<booking, departed, paymentVars, requestVars, gatewayVars>>

\* Mutant: the settled payments are listed again after each one.
NextRefundRescans(h, todo) ==
    Become(h, IF Settled = {} THEN Idle ELSE PaymentTask("refund", 0, Settled))

\* On to the next listed payment, or return.
NextRefund(h, todo) ==
    Become(h, IF todo = {} THEN Idle ELSE PaymentTask("refund", 0, todo))

RefundWithoutBankId(h) ==
    /\ At(h, "refund")
    /\ \E p \in task[h].todo :
        /\ ~bank[p]
        /\ MarkRetry(p)
        /\ NextRefund(h, task[h].todo \ {p})
    /\ UNCHANGED <<booking, departed, payment, bank, requestVars, gatewayVars>>

\* Only a reported success is recorded as a refund.
Records(outcome) == IF outcome = "done" THEN "flip" ELSE "mark"

\* The gateway call comes before the compare-and-set on the row.
CallRefund(h) ==
    /\ At(h, "refund")
    /\ \E p \in task[h].todo, outcome \in Outcomes :
        /\ bank[p]
        /\ GatewayRefund(p, Price, outcome)
        /\ Become(h, PaymentTask(Records(outcome), p, task[h].todo \ {p}))
    /\ UNCHANGED <<booking, departed, paymentVars, requestVars, session>>

RecordRefund(h) ==
    /\ At(h, "flip")
    /\ FlipRefunded(task[h].p)
    /\ NextRefund(h, task[h].todo)
    /\ UNCHANGED <<booking, departed, marked, bank, requestVars, gatewayVars>>

RecordFailure(h) ==
    /\ At(h, "mark")
    /\ MarkRetry(task[h].p)
    /\ NextRefund(h, task[h].todo)
    /\ UNCHANGED <<booking, departed, payment, bank, requestVars, gatewayVars>>

-----------------------------------------------------------------------------
(* createBooking for the same package and date, when this booking is a     *)
(* stale PENDING one: findFirst sees it PENDING, and a later statement     *)
(* writes CANCELLED whatever the status is by then.  The new booking row   *)
(* is another booking; its sessions and refunds are not this one's.        *)

RebookRead(h) ==
    /\ booking = "PENDING"
    /\ Begin(h, "rebook", UpdateTask("overwrite", "customer", "PENDING", "CANCELLED"))
    /\ UNCHANGED <<booking, departed, paymentVars, requestVars, gatewayVars>>

RebookCancel(h) ==
    /\ At(h, "overwrite")
    /\ booking' = task[h].to
    /\ Done(h)
    /\ UNCHANGED <<departed, paymentVars, requestVars, gatewayVars>>

BookingStart(h) == UpdateRead(h) \/ RebookRead(h)
BookingStep(h) ==
    \/ CountSettled(h) \/ WriteConflict(h) \/ WriteStatus(h)
    \/ ScanSettled(h) \/ RefundWithoutBankId(h) \/ CallRefund(h)
    \/ RecordRefund(h) \/ RecordFailure(h)
    \/ RebookCancel(h)

=============================================================================
