------------------------- MODULE TripMoneyInvariant -------------------------
(***************************************************************************)
(* The inductive invariant behind the safety theorems of TripMoneyProofs:  *)
(* what the rows satisfy (Rows), and what a request in flight may rely on  *)
(* about the rows, given where it is (Knows).                              *)
(***************************************************************************)
EXTENDS TripMoney

Money == {"SUCCESS", "REFUNDED"}      \* payment rows that took money
Decided == {"APPROVED", "REFUNDED"}   \* request rows that owe or paid money

\* Labels that are only reached on a CANCELLED booking.
Cancelled == {"scan", "refund", "flip", "mark", "claim", "owed",
              "allocate", "payout", "payFlip", "payMark", "conclude"}

\* At least the amount approved for r was returned to the shopper.
Returned(r) == \E p \in Payments : sent[p] >= approved[r]

\* The partial unique index on refund requests: one row that is not REJECTED.
OneLiveApplication ==
    \A r, s \in Requests : Live(r) /\ Live(s) => r = s

\* What the rows satisfy: the invariants of TripMoney, and where the money of a
\* row and the amount of a request came from.
Rows ==
    /\ RefundsOnlyAfterCancel
    /\ RefundedMeansReturned
    /\ PaidHasMoney
    /\ ApprovalCancels
    /\ OneLiveApplication
    /\ RefundedRequestWasPaid
    /\ \A p \in Payments : payment[p] \in Money => session[p] = "paid"
    /\ \A p \in Payments : session[p] # "none" => payment[p] # None
    /\ \A r \in Requests : request[r] \in Decided => approved[r] \in 1..Price
    /\ \A p \in Payments, r \in Requests :
         payment[p] = "REFUNDED" /\ request[r] \in Decided => sent[p] >= approved[r]

\* What a request at t.pc knows.  Its locals are stale, its knowledge is not.
Knows(t) ==
    /\ t.pc \in Cancelled => booking = "CANCELLED"
    /\ t.pc \in {"count", "write"} => t.was \in {"PENDING", "PAID", "CONFIRMED"}
    /\ t.pc \in {"count", "write"} => t.to \in BookingStatus
    /\ t.pc = "overwrite" => t.to = "CANCELLED"
    /\ t.pc = "write" /\ t.to = "PAID" /\ booking # "CANCELLED" =>
         \E p \in Payments : payment[p] = "SUCCESS"
    /\ t.pc \in {"refund", "flip", "mark", "payout", "payFlip", "payMark"} =>
         \A p \in t.todo : payment[p] \in Money
    /\ t.pc \in {"flip", "mark", "payFlip", "payMark"} =>
         t.p \in Payments /\ payment[t.p] \in Money
    /\ t.pc = "flip" => sent[t.p] >= Price
    /\ t.pc = "init" => t.p \in Payments /\ session[t.p] = "none" /\ payment[t.p] # None
    /\ t.pc \in {"verify", "close", "settle", "settled"} =>
         t.p \in Payments /\ payment[t.p] # None
    /\ t.pc = "close" => t.to \in {"CANCELLED", "FAILED"}
    /\ t.pc = "settle" => session[t.p] = "paid"
    /\ t.pc \in {"reject", "price", "approve", "claim", "owed", "allocate", "payout",
                 "payFlip", "payMark", "conclude"} => t.r \in Requests
    /\ t.pc = "price" => t.left <= Price
    /\ t.pc = "approve" => t.left \in 1..Price
    /\ t.pc \in {"claim", "owed", "allocate", "payout", "payFlip", "payMark", "conclude"} =>
         request[t.r] \in Decided
    /\ t.pc \in {"allocate", "payout", "payFlip", "payMark"} => t.left = approved[t.r]
    /\ t.pc = "payFlip" => sent[t.p] >= t.left
    /\ t.pc = "conclude" => Returned(t.r)

\* Two checkouts never open the same row.
OwnRow == \A g, h \in Handlers :
            At(g, "init") /\ At(h, "init") /\ task[g].p = task[h].p => g = h

\* The rows and every request in flight, together: the strengthening of the
\* safety invariants that each step preserves.
IInv == TypeOK /\ Rows /\ (\A h \in Handlers : Knows(task[h])) /\ OwnRow

\* Without createBooking's blind write no request is ever about to do one.
NobodyRebooks == \A h \in Handlers : ~At(h, "overwrite")

\* The same for the races of cancellations and settlements, where nothing
\* crashes and nobody rebooks: NoForgottenMoney needs nothing more.
RaceInv == IInv /\ NobodyRebooks /\ NoForgottenMoney

=============================================================================
