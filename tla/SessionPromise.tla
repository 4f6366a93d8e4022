--------------------------- MODULE SessionPromise ---------------------------
(***************************************************************************)
(* What TripVerse promises the owner of an account about its sessions, and *)
(* nothing about versions, ledger rows or requests: a session is opened    *)
(* while the account is active, or is born dead; it is exchanged once, and *)
(* its heir is open only if it is; when sessions are ended all of them     *)
(* are, for good; a token answered twice opens nothing any more.           *)
(* Sessions implements it (SessionsProofs).                                *)
(***************************************************************************)
EXTENDS Integers

CONSTANT Tokens

VARIABLES
    account,   \* "ACTIVE", "SUSPENDED" or "DELETED"
    issued,    \* tokens that were handed out
    open,      \* those that still open the account while it is active
    spent,     \* those that were exchanged for another
    answers    \* times each token was exchanged or found replayed (up to 2)

vars == <<account, issued, open, spent, answers>>

Init ==
    /\ account = "ACTIVE"
    /\ issued = {} /\ open = {} /\ spent = {}
    /\ answers = [t \in Tokens |-> 0]

Answer(u) == answers' = [answers EXCEPT ![u] = IF @ < 2 THEN @ + 1 ELSE 2]

\* A login, overtaken or not by the end of all sessions.
Login ==
    /\ \E t \in Tokens \ issued :
        /\ issued' = issued \cup {t}
        /\ open' \in IF account = "ACTIVE" THEN {open, open \cup {t}} ELSE {open}
    /\ UNCHANGED <<account, spent, answers>>

\* A session goes on as another one; what was answered before goes on as nothing.
Exchange ==
    /\ \E u \in issued \ spent, t \in Tokens \ issued :
        /\ answers[u] > 0 => u \notin open
        /\ issued' = issued \cup {t}
        /\ open' = IF u \in open THEN open \cup {t} ELSE open
        /\ spent' = spent \cup {u}
        /\ Answer(u)
    /\ UNCHANGED account

\* Logout, new credentials, a replayed token.
EndSessions ==
    /\ open' = {}
    /\ UNCHANGED answers \/ \E u \in issued : Answer(u)
    /\ UNCHANGED <<account, issued, spent>>

\* Blocking the account ends its sessions; what is deleted is not suspended.
Block ==
    /\ account # "DELETED"
    /\ account' \in {"SUSPENDED", "DELETED"}
    /\ open' = {}
    /\ UNCHANGED <<issued, spent, answers>>

\* Whoever may unblock it does not bring a session back.
Unblock ==
    /\ account # "ACTIVE" /\ open = {}
    /\ account' = "ACTIVE"
    /\ UNCHANGED <<issued, open, spent, answers>>

Next == Login \/ Exchange \/ EndSessions \/ Block \/ Unblock

Spec == Init /\ [][Next]_vars

=============================================================================
