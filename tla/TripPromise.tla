----------------------------- MODULE TripPromise -----------------------------
(***************************************************************************)
(* What TripVerse promises a customer about the money of one booking, and  *)
(* nothing about how: the trip is on until it is called off, for good;     *)
(* money is given back only after that, only if it was paid, and never     *)
(* taken again; an application is answered once, granted only by calling   *)
(* the trip off, and closed as paid only when what it was granted has been *)
(* given back.  TripMoney implements it (PromiseProofs).                   *)
(***************************************************************************)
EXTENDS Integers

CONSTANTS Payments, Requests,
          Amounts    \* units that can be granted or given back

VARIABLES
    trip,      \* "on" or "off"
    paid,      \* payments the shopper made
    returned,  \* units given back against each payment
    claim,     \* each application: "NONE", "PENDING", "REJECTED", ...
    due        \* units granted to each application

vars == <<trip, paid, returned, claim, due>>

Init ==
    /\ trip = "on"
    /\ paid \subseteq Payments
    /\ returned = [p \in Payments |-> 0]
    /\ claim = [r \in Requests |-> "NONE"]
    /\ due = [r \in Requests |-> 0]

Live(r) == claim[r] \in {"PENDING", "APPROVED", "REFUNDED"}

Answer(r, answer) == claim' = [claim EXCEPT ![r] = answer]

\* The shopper pays, whenever a page is open to pay on.
Pay ==
    /\ \E p \in Payments \ paid : paid' = paid \cup {p}
    /\ UNCHANGED <<trip, returned, claim, due>>

\* Units of one paid payment go back.
GiveBack ==
    /\ trip = "off"
    /\ \E p \in paid : \E units \in Amounts :
        /\ units > returned[p]
        /\ returned' = [returned EXCEPT ![p] = units]
    /\ UNCHANGED <<trip, paid, claim, due>>

\* The customer applies; one application at a time.
Apply ==
    /\ \A s \in Requests : ~Live(s)
    /\ \E r \in Requests : claim[r] = "NONE" /\ Answer(r, "PENDING")
    /\ UNCHANGED <<trip, paid, returned, due>>

Reject ==
    /\ \E r \in Requests : claim[r] = "PENDING" /\ Answer(r, "REJECTED")
    /\ UNCHANGED <<trip, paid, returned, due>>

\* The trip is called off, with or without closing what is being applied for.
CallOff ==
    /\ trip = "on"
    /\ trip' = "off"
    /\ claim' \in {claim, [r \in Requests |->
                             IF claim[r] = "PENDING" THEN "REJECTED" ELSE claim[r]]}
    /\ UNCHANGED <<paid, returned, due>>

\* Granting an application calls the trip off.
Grant ==
    /\ trip = "on"
    /\ trip' = "off"
    /\ \E r \in Requests : \E units \in Amounts :
        /\ claim[r] = "PENDING"
        /\ Answer(r, "APPROVED")
        /\ units > 0
        /\ due' = [due EXCEPT ![r] = units]
    /\ UNCHANGED <<paid, returned>>

\* What was granted has been given back.
Close ==
    /\ \E r \in Requests :
        /\ claim[r] = "APPROVED"
        /\ \E p \in paid : returned[p] >= due[r]
        /\ Answer(r, "REFUNDED")
    /\ UNCHANGED <<trip, paid, returned, due>>

Next == Pay \/ GiveBack \/ Apply \/ Reject \/ CallOff \/ Grant \/ Close

Spec == Init /\ [][Next]_vars

=============================================================================
