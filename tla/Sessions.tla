------------------------------ MODULE Sessions ------------------------------
(***************************************************************************)
(* The sessions of ONE account: login, refresh-token rotation, logout and  *)
(* the operations that end every session by bumping User.tokenVersion      *)
(* (auth.service.ts, user.service.ts, middleware/auth.ts).                 *)
(*                                                                         *)
(* As in Ledger, every read and every write transaction is a step of a     *)
(* request and other requests run between any two steps.  A token stands   *)
(* for the pair issueTokens signs: the refresh JWT with its ledger row and *)
(* the access JWT, which carries the same tokenVersion.                    *)
(***************************************************************************)
EXTENDS Integers, FiniteSets

CONSTANTS
    Handlers,     \* requests the server may be serving at the same time
    MaxTokens,    \* bound on the token pairs issued
    MaxVersion,   \* bound on User.tokenVersion
    Ops           \* operations that may be started

OpNames == {"login", "demo", "refresh", "logout", "credentials", "suspend",
            "reactivate", "delete", "expire", "age", "crash"}

ASSUME TokenBounds  == MaxTokens \in Nat /\ MaxVersion \in Nat
ASSUME KnownOps     == Ops \subseteq OpNames

Tokens == 1..MaxTokens       \* in order of issue; a jti makes each one unique
Versions == Nat              \* MaxVersion only bounds what is started
None == "NONE"

VARIABLES
    version,    \* User.tokenVersion
    account,    \* User.status, or "DELETED" when User.isDeleted
    row,        \* RefreshToken row of each token
    carries,    \* tokenVersion signed into each token
    expired,    \* tokens whose exp has passed
    parent,     \* history: the token each one was exchanged for, or 0
    loginAt,    \* history: tokenVersion when the credentials behind it were checked
    answered,   \* history: refreshes of each token that rotated or revoked (up to 2)
    task        \* per handler: program counter and locals

userVars  == <<version, account>>
tokenVars == <<row, carries, expired, parent, loginAt>>
vars == <<version, account, row, carries, expired, parent, loginAt, answered, task>>

Labels == {"idle", "issue",                          \* login
           "prune", "lookup", "rotate",              \* refreshToken
           "theft", "raced", "leave", "revoke"}      \* revokeFamily and its callers

Tasks == [pc    : Labels,
          t     : Tokens \cup {0},     \* the token presented, 0 for none
          ver   : Versions,            \* tokenVersion of the user as read
          seen  : SUBSET Tokens]       \* rows the UPDATE of revokeFamily sees

Task(label, t, ver) == [pc |-> label, t |-> t, ver |-> ver, seen |-> {}]
Idle == Task("idle", 0, 0)

At(h, label) == task[h].pc = label
Become(h, t) == task' = [task EXCEPT ![h] = t]
Begin(h, op, t) == At(h, "idle") /\ op \in Ops /\ Become(h, t)

Init ==
    /\ version = 0
    /\ account = "ACTIVE"
    /\ row = [t \in Tokens |-> None]
    /\ carries = [t \in Tokens |-> 0]
    /\ expired = {}
    /\ parent = [t \in Tokens |-> 0]
    /\ loginAt = [t \in Tokens |-> 0]
    /\ answered = [t \in Tokens |-> 0]
    /\ task = [h \in Handlers |-> Idle]

Issued == {t \in Tokens : row[t] # None}

\* Bounds: a request is only started while the rows and the version it may
\* need are left.
RoomForToken ==
    Cardinality({h \in Handlers : task[h].pc \in {"issue", "prune", "lookup", "rotate"}})
        < Cardinality(Tokens \ Issued)
RoomForBump ==
    version + Cardinality({h \in Handlers : task[h].pc \notin {"idle", "issue"}})
        < MaxVersion

\* issueTokens: sign the pair for the user as it was read and insert the row;
\* `from` is the token exchanged for it, 0 at a login.
IssueTokens(ver, from, checked) ==
    \E t \in Tokens \ Issued :
        /\ \A u \in Tokens \ Issued : t <= u
        /\ row' = [u \in Tokens |-> IF u = t THEN "live"
                                    ELSE IF u = from THEN "revoked" ELSE row[u]]
        /\ carries' = [carries EXCEPT ![t] = ver]
        /\ parent' = [parent EXCEPT ![t] = from]
        /\ loginAt' = [loginAt EXCEPT ![t] = checked]
        /\ UNCHANGED expired

\* middleware/auth: the checks behind every authenticated route, on the access
\* token of the pair.
Authenticates(t) ==
    /\ t \in Issued
    /\ account = "ACTIVE"
    /\ carries[t] = version

-----------------------------------------------------------------------------
(* loginUser, googleLogin, demoLogin, and verifyEmail's automatic login:   *)
(* the user is read and its state checked, then the pair is issued for the *)
(* version that was read.                                                  *)

LoginRead(h) ==
    /\ account = "ACTIVE"
    /\ RoomForToken
    /\ Begin(h, "login", Task("issue", 0, version))
    /\ UNCHANGED <<userVars, tokenVars, answered>>

\* The upsert of demoLogin resurrects the account whatever its state is.
DemoLogin(h) ==
    /\ RoomForToken
    /\ Begin(h, "demo", Task("issue", 0, version))
    /\ account' = "ACTIVE"
    /\ UNCHANGED <<version, tokenVars, answered>>

Issue(h) ==
    /\ At(h, "issue")
    /\ IssueTokens(task[h].ver, 0, task[h].ver)
    /\ Become(h, Idle)
    /\ UNCHANGED <<userVars, answered>>

-----------------------------------------------------------------------------
(* refreshToken.                                                           *)

\* The JWT verifies and the user as read is active at the version it carries.
RefreshRead(h) ==
    /\ RoomForToken
    /\ RoomForBump
    /\ \E t \in Issued \ expired :
        /\ Authenticates(t)
        /\ Begin(h, "refresh", Task("prune", t, version))
    /\ UNCHANGED <<userVars, tokenVars, answered>>

\* deleteMany: expired rows and rows revoked more than 7 days ago, of anyone.
PruneLedger(h) ==
    /\ At(h, "prune")
    /\ row' = [t \in Tokens |->
                 IF t \in Issued /\ (t \in expired \/ row[t] = "old")
                   THEN "pruned" ELSE row[t]]
    /\ Become(h, Task("lookup", task[h].t, task[h].ver))
    /\ UNCHANGED <<userVars, carries, expired, parent, loginAt, answered>>

\* No row, or a live row that has expired: 401.
LookupRefused(h) ==
    /\ At(h, "lookup")
    /\ \/ row[task[h].t] = "pruned"
       \/ row[task[h].t] = "live" /\ task[h].t \in expired
    /\ Become(h, Idle)
    /\ UNCHANGED <<userVars, tokenVars, answered>>

\* "A revoked row is the theft signature."
LookupRevoked(h) ==
    /\ At(h, "lookup")
    /\ row[task[h].t] \in {"revoked", "old"}
    /\ Become(h, Task("theft", task[h].t, task[h].ver))
    /\ UNCHANGED <<userVars, tokenVars, answered>>

LookupLive(h) ==
    /\ At(h, "lookup")
    /\ row[task[h].t] = "live"
    /\ task[h].t \notin expired
    /\ Become(h, Task("rotate", task[h].t, task[h].ver))
    /\ UNCHANGED <<userVars, tokenVars, answered>>

\* Mutant: the row is revoked by its id alone.
AssumedLive(h) == TRUE

\* updateMany({id, revokedAt: null}): one row was matched.
StillLive(h) == row[task[h].t] = "live"

\* Mutant: the new pair is signed for the user as it is now.
CurrentVersion(h) == version

\* The new pair is signed for the user as read at the start of the request.
RotatedVersion(h) == task[h].ver

Answer(t) ==
    answered' = [answered EXCEPT ![t] = IF @ < 2 THEN @ + 1 ELSE 2]

\* One transaction: revoke the old row and insert the new one.
Rotate(h) ==
    /\ At(h, "rotate")
    /\ StillLive(h)
    /\ IssueTokens(RotatedVersion(h), task[h].t, loginAt[task[h].t])
    /\ Answer(task[h].t)
    /\ Become(h, Idle)
    /\ UNCHANGED userVars

\* "LOST": the family is revoked after the transaction has committed.
RotateLost(h) ==
    /\ At(h, "rotate")
    /\ ~StillLive(h)
    /\ Become(h, Task("raced", task[h].t, task[h].ver))
    /\ UNCHANGED <<userVars, tokenVars, answered>>

-----------------------------------------------------------------------------
(* revokeFamily, from refreshToken and from logout.  Its first UPDATE sees *)
(* the rows committed before it, so a row inserted by a rotation or login  *)
(* in between stays unrevoked; the version is bumped at the commit.        *)

LogoutCheck(h) ==
    /\ RoomForBump
    /\ \E t \in Tokens : Authenticates(t)
    /\ Begin(h, "logout", Task("leave", 0, version))
    /\ UNCHANGED <<userVars, tokenVars, answered>>

RevokeRows(h) ==
    /\ task[h].pc \in {"theft", "raced", "leave"}
    /\ Become(h, [Task("revoke", task[h].t, task[h].ver)
                    EXCEPT !.seen = {t \in Tokens : row[t] = "live"}])
    /\ UNCHANGED <<userVars, tokenVars, answered>>

RevokeCommit(h) ==
    /\ At(h, "revoke")
    /\ row' = [t \in Tokens |-> IF t \in task[h].seen /\ row[t] = "live"
                                  THEN "revoked" ELSE row[t]]
    /\ version' = version + 1
    /\ IF task[h].t = 0 THEN UNCHANGED answered ELSE Answer(task[h].t)
    /\ Become(h, Idle)
    /\ UNCHANGED <<account, carries, expired, parent, loginAt>>

-----------------------------------------------------------------------------
(* Other operations on the user row.  Each one reads the user first, but   *)
(* only to refuse; what it writes does not depend on what it read, so the  *)
(* write alone is the step.                                                *)

\* resetPassword, updateProfile with a new password, changeRole.
ChangeCredentials ==
    /\ "credentials" \in Ops
    /\ RoomForBump
    /\ version' = version + 1
    /\ UNCHANGED <<account, tokenVars, answered, task>>

\* Mutant: a suspension leaves the version alone.
SuspendedVersion == version

\* "suspending revokes all sessions"
BumpedVersion == version + 1

\* changeStatus to SUSPENDED.
Suspend ==
    /\ "suspend" \in Ops
    /\ RoomForBump
    /\ account # "DELETED"
    /\ account' = "SUSPENDED"
    /\ version' = BumpedVersion
    /\ UNCHANGED <<tokenVars, answered, task>>

\* changeStatus to ACTIVE.
Reactivate ==
    /\ "reactivate" \in Ops
    /\ account = "SUSPENDED"
    /\ account' = "ACTIVE"
    /\ UNCHANGED <<version, tokenVars, answered, task>>

DeleteUser ==
    /\ "delete" \in Ops
    /\ RoomForBump
    /\ account # "DELETED"
    /\ account' = "DELETED"
    /\ version' = version + 1
    /\ UNCHANGED <<tokenVars, answered, task>>

-----------------------------------------------------------------------------
(* Time and failures.                                                      *)

\* The exp of a token passes.
Expire(t) ==
    /\ "expire" \in Ops
    /\ t \in Issued \ expired
    /\ expired' = expired \cup {t}
    /\ UNCHANGED <<userVars, row, carries, parent, loginAt, answered, task>>

\* A row was revoked more than 7 days ago; no request lasts that long.
Age(t) ==
    /\ "age" \in Ops
    /\ row[t] = "revoked"
    /\ \A h \in Handlers : At(h, "idle")
    /\ row' = [row EXCEPT ![t] = "old"]
    /\ UNCHANGED <<userVars, carries, expired, parent, loginAt, answered, task>>

\* The request ends between two steps; its locals are lost.
Crash(h) ==
    /\ "crash" \in Ops
    /\ ~At(h, "idle")
    /\ Become(h, Idle)
    /\ UNCHANGED <<userVars, tokenVars, answered>>

Start(h) == LoginRead(h) \/ DemoLogin(h) \/ RefreshRead(h) \/ LogoutCheck(h)
Step(h) ==
    \/ Issue(h)
    \/ PruneLedger(h) \/ LookupRefused(h) \/ LookupRevoked(h) \/ LookupLive(h)
    \/ Rotate(h) \/ RotateLost(h)
    \/ RevokeRows(h) \/ RevokeCommit(h)

Next ==
    \/ \E h \in Handlers : Start(h) \/ Step(h) \/ Crash(h)
    \/ ChangeCredentials \/ Suspend \/ Reactivate \/ DeleteUser
    \/ \E t \in Tokens : Expire(t) \/ Age(t)

Spec == Init /\ [][Next]_vars

-----------------------------------------------------------------------------

\* Every column and every local has a value of its declaration, and no token
\* is signed for a version the user has not reached.
TypeOK ==
    /\ version \in Versions
    /\ account \in {"ACTIVE", "SUSPENDED", "DELETED"}
    /\ row \in [Tokens -> {None, "live", "revoked", "old", "pruned"}]
    /\ carries \in [Tokens -> Versions]
    /\ expired \subseteq Tokens
    /\ parent \in [Tokens -> Tokens \cup {0}]
    /\ loginAt \in [Tokens -> Versions]
    /\ answered \in [Tokens -> 0..2]
    /\ task \in [Handlers -> Tasks]
    /\ \A t \in Issued : carries[t] <= version

\* refreshToken, middleware/auth: a pair that still opens the account descends
\* from a login whose credentials were checked after the last logout, password
\* change or suspension, however many rotations lie between and whatever
\* request was half done when the sessions were ended.
SessionsAreFresh ==
    \A t \in Issued : carries[t] = version => loginAt[t] = version

\* refreshToken: of two requests that present one refresh token, past the
\* version check, at most one leaves a usable session; a second one that is
\* answered has ended every session that descends from the token.
ReplayKillsFamily ==
    \A t \in Tokens : answered[t] = 2 => carries[t] < version

\* refreshToken: a refresh token is exchanged at most once, however many
\* requests present it at the same time and whatever is pruned meanwhile.
OneHeir ==
    \A t, u \in Issued : parent[t] # 0 /\ parent[t] = parent[u] => t = u

\* changeStatus, deleteUser: a blocked account has no session a later
\* reactivation would bring back, issued or about to be issued.
NoSessionWhileBlocked ==
    account # "ACTIVE" =>
        /\ \A t \in Issued : carries[t] # version
        /\ \A h \in Handlers :
             task[h].pc \in {"issue", "rotate"} => task[h].ver # version

\* The labels of a request that holds a version read from an active account.
Holding == {"issue", "prune", "lookup", "rotate"}
Refreshing == {"prune", "lookup", "rotate", "theft", "raced"}

Lineage ==
    /\ \A t \in Issued : carries[t] = loginAt[t]
    /\ \A h \in Handlers :
         /\ task[h].ver <= version
         /\ task[h].pc \in Refreshing =>
              task[h].t \in Issued /\ carries[task[h].t] = task[h].ver
         /\ task[h].t # 0 => task[h].t \in Issued
Blocked ==
    account # "ACTIVE" =>
        /\ \A t \in Issued : carries[t] # version
        /\ \A h \in Handlers : task[h].pc \in Holding => task[h].ver # version
Exchanged ==
    \A t \in Tokens :
        /\ answered[t] > 0 => t \in Issued /\ (row[t] # "live" \/ carries[t] < version)
        /\ answered[t] = 2 => carries[t] < version
Heirs ==
    /\ OneHeir
    /\ \A t \in Issued : parent[t] # 0 =>
         parent[t] \in Issued /\ row[parent[t]] # "live"

\* What the invariants rest on: a token carries the version of the login behind
\* it, a request holds a version the user has reached, nothing holds the version
\* of a blocked account, a token that was answered once is revoked or dead, and
\* one that was exchanged is revoked.
SessionInv == TypeOK /\ Lineage /\ Blocked /\ Exchanged /\ Heirs

\* issueTokens, refreshToken, revokeFamily, changeStatus: whatever requests do
\* between their steps, the account's owner sees a behaviour of SessionPromise;
\* a session that was ended never opens the account again, nor does its heir.
Promise == INSTANCE SessionPromise
             WITH issued  <- Issued,
                  open    <- {t \in Issued : carries[t] = version},
                  spent   <- {parent[t] : t \in Issued} \ {0},
                  answers <- answered

KeepsSessionPromise == Promise!Spec

\* auth.service.ts:573 "A revoked row is the theft signature - someone
\* replayed a rotated token": the token had been exchanged for another.
RevokedMeansRotated ==
    \A h \in Handlers : At(h, "theft") => \E u \in Tokens : parent[u] = task[h].t

=============================================================================
