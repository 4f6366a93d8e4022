------------------------------- MODULE Ledger -------------------------------
(***************************************************************************)
(* The database rows and the gateway state that the booking, payment and   *)
(* refund services share, for ONE booking, together with the requests that *)
(* are being served at the same time.                                      *)
(*                                                                         *)
(* PostgreSQL runs at read committed and no service takes a lock, so a     *)
(* request is a sequence of steps: every read, every write transaction and *)
(* every gateway call is a step, and other requests run between any two.   *)
(* What a request remembers from an earlier step is in task[h].            *)
(***************************************************************************)
EXTENDS Integers, FiniteSets

CONSTANTS
    Handlers,     \* requests the server may be serving at the same time
    MaxPayments,  \* bound on payment rows of the booking
    MaxRequests,  \* bound on refund-request rows of the booking
    Price,        \* totalPrice, in units: every payment row has this amount
    Shares,       \* values of round(totalPrice * percentage / 100)
    MaxSent,      \* bound on the units the gateway is counted to return
    Ops,          \* operations that may be started
    Targets,      \* statuses PATCH /bookings/:id/status is called with
    Outcomes,     \* what a gateway refund call may do
    BankIds       \* whether the gateway names the bank transaction

OpNames == {"update", "rebook", "checkout", "callback", "apply", "decide",
            "retry", "crash"}

ASSUME PricePositive == Price \in Nat \ {0}
ASSUME BoundsAreNat  == MaxPayments \in Nat /\ MaxRequests \in Nat /\ MaxSent \in Nat
ASSUME MaxSentRoom   == Price < MaxSent
ASSUME SharesOfPrice == Shares \subseteq 0..Price
ASSUME SmallSets     == /\ Ops \subseteq OpNames
                        /\ Targets \subseteq {"PENDING", "CONFIRMED", "COMPLETED", "CANCELLED"}
                        /\ Outcomes \subseteq {"done", "refused", "lost"}
                        /\ BankIds \subseteq BOOLEAN

Payments == 1..MaxPayments   \* rows, in order of creation
Requests == 1..MaxRequests   \* rows, in order of creation

None == "NONE"               \* a row that does not exist yet, an unset local

BookingStatus == {"PENDING", "PAID", "CONFIRMED", "COMPLETED", "CANCELLED"}
PaymentStatus == {"INITIATED", "SUCCESS", "FAILED", "CANCELLED", "REFUNDED"}
RequestStatus == {"PENDING", "APPROVED", "REJECTED", "REFUNDED"}

VARIABLES
    booking,   \* Booking.status
    departed,  \* travelDate <= now
    payment,   \* Payment.status of each row
    marked,    \* Payment.refundInitiatedAt is set: the retry surface
    bank,      \* Payment.bankTranId is set
    request,   \* RefundRequest.status of each row
    approved,  \* RefundRequest.refundAmount, in units
    fresh,     \* handlers whose remembered updatedAt is the row's current one
    session,   \* gateway: "none", "open" (a page to pay on) or "paid"
    sent,      \* gateway: units returned to the shopper against each payment
    task       \* per handler: program counter and locals

paymentVars == <<payment, marked, bank>>
requestVars == <<request, approved, fresh>>
gatewayVars == <<session, sent>>
vars == <<booking, departed, payment, marked, bank, request, approved, fresh,
          session, sent, task>>

-----------------------------------------------------------------------------
(* Requests being served.                                                  *)

Labels == {"idle",
           "count", "write", "overwrite",                    \* booking
           "scan", "refund", "flip", "mark",                 \* issueRefunds
           "supersede", "create", "init",                    \* checkout
           "verify", "close", "settle", "settled",           \* callbacks
           "eligible", "insert",                             \* apply
           "reject", "price", "approve",                     \* decide
           "claim", "owed",                                  \* retry
           "allocate", "payout", "payFlip", "payMark", "conclude"}  \* runPayout

\* "agency" is the package-owning AGENT or an ADMIN.
Roles == {"customer", "agency", None}

Tasks == [pc     : Labels,
          by     : Roles,
          was    : BookingStatus \cup {None},                  \* status read
          to     : BookingStatus \cup PaymentStatus \cup {None}, \* to write
          p      : 0..MaxPayments,
          r      : 0..MaxRequests,
          todo   : SUBSET Payments,
          left   : Nat,                                        \* units owed
          failed : BOOLEAN]                                    \* firstFailure

\* What a request remembers, by what it is doing.
UpdateTask(label, by, was, to) ==
    [pc |-> label, by |-> by, was |-> was, to |-> to, p |-> 0,
     r |-> 0, todo |-> {}, left |-> 0, failed |-> FALSE]
PaymentTask(label, p, todo) ==
    [pc |-> label, by |-> None, was |-> None, to |-> None, p |-> p,
     r |-> 0, todo |-> todo, left |-> 0, failed |-> FALSE]
CallbackTask(label, p, to) ==
    [pc |-> label, by |-> None, was |-> None, to |-> to, p |-> p,
     r |-> 0, todo |-> {}, left |-> 0, failed |-> FALSE]
RequestTask(label, r, left) ==
    [pc |-> label, by |-> None, was |-> None, to |-> None, p |-> 0,
     r |-> r, todo |-> {}, left |-> left, failed |-> FALSE]
PayoutTask(label, r, p, todo, left, failed) ==
    [pc |-> label, by |-> None, was |-> None, to |-> None, p |-> p,
     r |-> r, todo |-> todo, left |-> left, failed |-> failed]

Idle == PaymentTask("idle", 0, {})

At(h, label) == task[h].pc = label

Become(h, t) == task' = [task EXCEPT ![h] = t]
Done(h) == Become(h, Idle)

\* A request starts in a free slot; what it reads first is in the caller.
Begin(h, op, t) == At(h, "idle") /\ op \in Ops /\ Become(h, t)

-----------------------------------------------------------------------------
(* Queries and updates on the rows.                                        *)

HasStatus(status) == {p \in Payments : payment[p] = status}

\* The sum of the amounts of the rows in a status.
UnitsIn(status) == Price * Cardinality(HasStatus(status))

Smaller(m, n) == IF m <= n THEN m ELSE n

\* WHERE status = SUCCESS AND refundCompletedAt IS NULL; refundCompletedAt is
\* written only together with REFUNDED, so the status decides.
Settled == HasStatus("SUCCESS")

\* Bounds: a request is only started while the rows it may insert are left.
RoomForPayment ==
    Cardinality({h \in Handlers : task[h].pc \in {"supersede", "create"}})
        < Cardinality(HasStatus(None))
RoomForRequest ==
    Cardinality({h \in Handlers : task[h].pc \in {"eligible", "insert"}})
        < Cardinality({r \in Requests : request[r] = None})

Live(r) == request[r] \in {"PENDING", "APPROVED", "REFUNDED"}

\* updateMany({bookingId, status: INITIATED}, {status: CANCELLED})
AbandonSessions ==
    payment' = [p \in Payments |->
                  IF payment[p] = "INITIATED" THEN "CANCELLED" ELSE payment[p]]

\* updateMany({id: p, status: SUCCESS}, {status: REFUNDED, ...})
FlipRefunded(p) ==
    payment' = [payment EXCEPT ![p] = IF @ = "SUCCESS" THEN "REFUNDED" ELSE @]

\* Mutant: a failure leaves no trace.
MarkNothing(p) == UNCHANGED marked

\* updateMany({id: p, status: SUCCESS}, {refundInitiatedAt: now})
MarkRetry(p) ==
    marked' = [marked EXCEPT ![p] = @ \/ payment[p] = "SUCCESS"]

\* sslcommerzRefund: the call reports success only when the money is on its
\* way ("done"); a refusal moves nothing; a timeout or a "processing" answer is
\* reported as a failure although the gateway has taken the refund ("lost").
GatewayRefund(p, units, outcome) ==
    sent' = IF outcome = "refused" THEN sent
            ELSE [sent EXCEPT ![p] = Smaller(@ + units, MaxSent)]

=============================================================================
