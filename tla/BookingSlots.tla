---------------------------- MODULE BookingSlots ----------------------------
(***************************************************************************)
(* createBooking over all the bookings one customer has for ONE package    *)
(* and travel date (the slot).  What the other services do to a booking is *)
(* taken as a single step here; TripMoney has it in full.                  *)
(***************************************************************************)
EXTENDS Integers, FiniteSets

CONSTANTS
    Handlers,     \* createBooking requests served at the same time
    MaxBookings,  \* bound on the bookings of the slot
    Ops           \* what happens to a booking besides: see OpNames

OpNames == {"age", "list", "pay", "cancel", "confirm", "revert", "complete"}

ASSUME SlotBounds == MaxBookings \in Nat /\ Ops \subseteq OpNames

Bookings == 1..MaxBookings      \* in order of createdAt
None == "NONE"
BookingStatus == {"PENDING", "PAID", "CONFIRMED", "COMPLETED", "CANCELLED"}

VARIABLES
    listed,     \* the package is APPROVED and not deleted
    booking,    \* Booking.status of each row
    stale,      \* bookings created 24 hours ago or more
    paid,       \* bookings with a settled payment, while a revert may ask for it
    task        \* per handler: program counter and the pending booking found

vars == <<listed, booking, stale, paid, task>>

Task(label, b) == [pc |-> label, found |-> b]
Idle == Task("idle", 0)
At(h, label) == task[h].pc = label
Become(h, t) == task' = [task EXCEPT ![h] = t]

Existing == {b \in Bookings : booking[b] # None}

Init ==
    /\ listed = TRUE
    /\ booking = [b \in Bookings |-> None]
    /\ stale = {}
    /\ paid = {}
    /\ task = [h \in Handlers |-> Idle]

-----------------------------------------------------------------------------
(* createBooking: read the package; then, in one transaction, find the     *)
(* latest pending booking of the slot, cancel it when it is stale, insert. *)

\* Bound: a request only starts while there is room for its row.
CreateRead(h) ==
    /\ At(h, "idle")
    /\ listed
    /\ Cardinality({k \in Handlers : ~At(k, "idle")}) < Cardinality(Bookings \ Existing)
    /\ Become(h, Task("find", 0))
    /\ UNCHANGED <<listed, booking, stale, paid>>

\* findFirst({userId, packageId, travelDate, status: PENDING}), newest first.
Latest(b) ==
    /\ booking[b] = "PENDING"
    /\ \A c \in Bookings : booking[c] = "PENDING" => c <= b

FindNone(h) ==
    /\ At(h, "find")
    /\ \A b \in Bookings : booking[b] # "PENDING"
    /\ Become(h, Task("insert", 0))
    /\ UNCHANGED <<listed, booking, stale, paid>>

\* Mutant: the age of the pending booking is not looked at.
AnyIsAbandoned(b) == TRUE

\* Not created within the last STALE_BOOKING_HOURS.
Abandoned(b) == b \in stale

\* A recent pending booking: 409.
FindRecent(h) ==
    /\ At(h, "find")
    /\ \E b \in Bookings : Latest(b) /\ ~Abandoned(b)
    /\ Become(h, Idle)
    /\ UNCHANGED <<listed, booking, stale, paid>>

FindAbandoned(h) ==
    /\ At(h, "find")
    /\ \E b \in Bookings :
        /\ Latest(b)
        /\ Abandoned(b)
        /\ Become(h, Task("insert", b))
    /\ UNCHANGED <<listed, booking, stale, paid>>

\* The abandoned booking is written by its id, whatever its status is by now.
CancelFound(h, b) == IF b = task[h].found THEN "CANCELLED" ELSE booking[b]

InsertBooking(h) ==
    /\ At(h, "insert")
    /\ \E new \in Bookings \ Existing :
        /\ \A b \in Bookings \ Existing : new <= b
        /\ booking' = [b \in Bookings |->
                         IF b = new THEN "PENDING" ELSE CancelFound(h, b)]
    /\ Become(h, Idle)
    /\ UNCHANGED <<listed, stale, paid>>

\* The instance stops or the transaction fails; nothing was committed.
Crash(h) ==
    /\ ~At(h, "idle")
    /\ Become(h, Idle)
    /\ UNCHANGED <<listed, booking, stale, paid>>

-----------------------------------------------------------------------------
(* The rest of the system, one step each.  Whether a booking that ends,    *)
(* COMPLETED or CANCELLED, was paid is of no consequence here.             *)

\* A day passes for a booking.
Age(b) ==
    /\ "age" \in Ops
    /\ booking[b] # None
    /\ \A c \in Existing : c < b => c \in stale
    /\ stale' = stale \cup {b}
    /\ UNCHANGED <<listed, booking, paid, task>>

\* The package is taken off the list or put back.
Relist ==
    /\ "list" \in Ops
    /\ listed' = ~listed
    /\ UNCHANGED <<booking, stale, paid, task>>

\* processGatewayResult settles a payment of a pending booking.
Pay(b) ==
    /\ "pay" \in Ops
    /\ booking[b] = "PENDING"
    /\ booking' = [booking EXCEPT ![b] = "PAID"]
    /\ paid' = paid \cup {b}
    /\ UNCHANGED <<listed, stale, task>>

\* updateBookingStatus.
Moves(b, op, from, to) ==
    /\ op \in Ops
    /\ booking[b] \in from
    /\ booking' = [booking EXCEPT ![b] = to]
    /\ paid' = IF to \in {"COMPLETED", "CANCELLED"} THEN paid \ {b} ELSE paid
    /\ UNCHANGED <<listed, stale, task>>

Cancel(b)  == Moves(b, "cancel", {"PENDING", "PAID", "CONFIRMED"}, "CANCELLED")
Confirm(b) == Moves(b, "confirm", {"PENDING", "PAID"}, "CONFIRMED")
Revert(b)  == Moves(b, "revert", {"CONFIRMED"}, IF b \in paid THEN "PAID" ELSE "PENDING")

Complete(b) == Moves(b, "complete", {"CONFIRMED"}, "COMPLETED")

Request(h) ==
    \/ CreateRead(h)
    \/ FindNone(h) \/ FindRecent(h) \/ FindAbandoned(h)
    \/ InsertBooking(h) \/ Crash(h)

Next ==
    \/ \E h \in Handlers : Request(h)
    \/ \E b \in Bookings :
        Age(b) \/ Pay(b) \/ Cancel(b) \/ Confirm(b) \/ Revert(b) \/ Complete(b)
    \/ Relist

Spec == Init /\ [][Next]_vars

-----------------------------------------------------------------------------

\* Every column and every local has a value of its declaration; the booking a
\* request is about to cancel is an abandoned one.
TypeOK ==
    /\ listed \in BOOLEAN
    /\ booking \in [Bookings -> BookingStatus \cup {None}]
    /\ stale \subseteq Existing
    /\ paid \subseteq Existing
    /\ task \in [Handlers -> [pc : {"idle", "find", "insert"}, found : stale \cup {0}]]

\* createBooking: a booking made less than a day ago - an active checkout - is
\* never the one a rebooking cancels, whatever requests run at the same time.
RecentCheckoutSurvives ==
    [][\A h \in Handlers :
         task'[h] # task[h] =>
            \A b \in Existing \ stale : booking'[b] = booking[b]]_vars

\* spec 09: the duplicate-booking guard leaves at most one pending booking for
\* a customer, package and date.
OnePendingPerSlot ==
    \A b, c \in Bookings : booking[b] = "PENDING" /\ booking[c] = "PENDING" => b = c

=============================================================================
