--------------------------- MODULE SessionsProofs ---------------------------
(***************************************************************************)
(* Sessions proved for any number of requests, tokens and versions:        *)
(* SessionInv is inductive, the safety promises follow from it, and        *)
(* Sessions implements SessionPromise.                                     *)
(***************************************************************************)
EXTENDS Sessions, TLAPS

\* No request runs and no token is issued at the start.
LEMMA InitKeeps == Init => SessionInv
  <1> SUFFICES ASSUME Init PROVE SessionInv
    OBVIOUS
  <1>1. Issued = {}
    BY DEF Init, Issued
  <1>2. Idle \in Tasks /\ Idle.pc = "idle" /\ Idle.t = 0 /\ Idle.ver = 0
    BY DEF Idle, Task, Tasks, Labels, Versions
  <1>3. TypeOK
    BY <1>1, <1>2 DEF Init, TypeOK, Versions
  <1>4. Lineage
    BY <1>1, <1>2 DEF Init, Lineage, Refreshing
  <1>5. Blocked /\ Exchanged /\ Heirs
    BY <1>1 DEF Init, Blocked, Exchanged, Heirs, OneHeir
  <1> QED BY <1>3, <1>4, <1>5 DEF SessionInv

\* A step that only moves one request on: what it remembers now must be
\* something it may remember.
LEMMA RequestMoves ==
    ASSUME SessionInv, NEW h \in Handlers, NEW s \in Tasks, Become(h, s),
           UNCHANGED <<version, row, carries, expired, parent, loginAt, answered>>,
           account' \in {"ACTIVE", account},
           s.ver <= version,
           s.pc \in Refreshing => s.t \in Issued /\ carries[s.t] = s.ver,
           s.t # 0 => s.t \in Issued,
           account' # "ACTIVE" /\ s.pc \in Holding => s.ver # version
    PROVE  SessionInv'
  <1>1. task'[h] = s /\ \A k \in Handlers \ {h} : task'[k] = task[k]
    BY DEF SessionInv, TypeOK, Become
  <1>2. Issued' = Issued
    BY DEF Issued
  <1>3. TypeOK'
    BY <1>2 DEF SessionInv, TypeOK, Become
  <1>4. Lineage'
    <2>1. \A u \in Issued' : carries'[u] = loginAt'[u]
      BY <1>2 DEF SessionInv, Lineage
    <2>2. ASSUME NEW k \in Handlers
          PROVE  /\ task'[k].ver <= version'
                 /\ task'[k].pc \in Refreshing =>
                      task'[k].t \in Issued' /\ carries'[task'[k].t] = task'[k].ver
                 /\ task'[k].t # 0 => task'[k].t \in Issued'
      BY <1>1, <1>2 DEF SessionInv, Lineage
    <2> QED BY <2>1, <2>2 DEF Lineage
  <1>5. Blocked'
    BY <1>1, <1>2 DEF SessionInv, Blocked
  <1>6. Exchanged' /\ Heirs'
    BY <1>2 DEF SessionInv, Exchanged, Heirs, OneHeir
  <1> QED BY <1>3, <1>4, <1>5, <1>6 DEF SessionInv

\* An operation that bumps the version leaves nothing that carries it.
LEMMA BumpKeeps ==
    ASSUME SessionInv, version' = version + 1,
           account' \in {"ACTIVE", "SUSPENDED", "DELETED"},
           UNCHANGED <<tokenVars, answered, task>>
    PROVE  SessionInv'
  <1>1. Issued' = Issued
    BY DEF Issued, tokenVars
  <1>0. version \in Nat /\ version' \in Nat
        /\ (\A t \in Issued : carries[t] \in Nat /\ carries[t] <= version)
        /\ (\A h \in Handlers : task[h].ver \in Nat)
    BY DEF SessionInv, TypeOK, Versions, Issued, Tasks
  <1>2. TypeOK'
    <2>1. \A t \in Issued' : carries'[t] <= version'
      BY <1>0, <1>1 DEF tokenVars
    <2> QED BY <1>0, <2>1 DEF SessionInv, TypeOK, Versions, tokenVars
  <1>3. Lineage'
    BY <1>0, <1>1 DEF SessionInv, Lineage, tokenVars
  <1>4. Blocked'
    BY <1>1 DEF SessionInv, Blocked, Lineage, TypeOK, Tasks, Versions, tokenVars
  <1>5. Exchanged'
    BY <1>1 DEF SessionInv, Exchanged, TypeOK, Versions, tokenVars, Issued
  <1>6. Heirs'
    BY <1>1 DEF SessionInv, Heirs, OneHeir, tokenVars
  <1> QED BY <1>2, <1>3, <1>4, <1>5, <1>6 DEF SessionInv

\* A login issues a token for the version it read, which no exchange preceded.
LEMMA IssueKeeps ==
    ASSUME SessionInv, NEW h \in Handlers, Issue(h)
    PROVE  SessionInv'
  <1> USE DEF SessionInv, Issue, At, Become
  <1>1. PICK t \in Tokens \ Issued :
           /\ row' = [u \in Tokens |-> IF u = t THEN "live"
                                       ELSE IF u = 0 THEN "revoked" ELSE row[u]]
           /\ carries' = [carries EXCEPT ![t] = task[h].ver]
           /\ parent' = [parent EXCEPT ![t] = 0]
           /\ loginAt' = [loginAt EXCEPT ![t] = task[h].ver]
           /\ UNCHANGED expired
    BY DEF IssueTokens
  <1>2. Issued' = Issued \cup {t}
    BY <1>1 DEF Issued, TypeOK, None, Tokens
  <1>3. task'[h] = Idle /\ \A k \in Handlers \ {h} : task'[k] = task[k]
    BY DEF TypeOK
  <1>4. Idle.pc = "idle" /\ Idle.t = 0 /\ Idle.ver = 0 /\ Idle \in Tasks
    BY DEF Idle, Task, Tasks, Labels, Versions
  <1>5. task[h].ver \in Nat /\ task[h].ver <= version
    BY DEF TypeOK, Tasks, Versions, Lineage
  <1>6. TypeOK'
    BY <1>1, <1>2, <1>4, <1>5 DEF TypeOK, Tokens, Versions, userVars
  <1>7. Lineage'
    <2>1. \A u \in Issued' : carries'[u] = loginAt'[u]
      BY <1>1, <1>2 DEF Lineage, TypeOK, Issued
    <2>2. ASSUME NEW k \in Handlers
          PROVE  /\ task'[k].ver <= version'
                 /\ task'[k].pc \in Refreshing =>
                      task'[k].t \in Issued' /\ carries'[task'[k].t] = task'[k].ver
                 /\ task'[k].t # 0 => task'[k].t \in Issued'
      <3>1. CASE k = h
        BY <3>1, <1>3, <1>4 DEF TypeOK, Versions, Refreshing, userVars
      <3>2. CASE k # h
        BY <3>2, <1>1, <1>2, <1>3 DEF Lineage, TypeOK, userVars, Issued
      <3> QED BY <3>1, <3>2
    <2> QED BY <2>1, <2>2 DEF Lineage
  <1>8. Blocked'
    BY <1>1, <1>2, <1>3, <1>4 DEF Blocked, TypeOK, Holding, userVars
  <1>9. Exchanged'
    BY <1>1, <1>2 DEF Exchanged, TypeOK, userVars
  <1>10. Heirs'
    <2>1. \A u \in Issued : parent'[u] = parent[u] /\ row'[u] = row[u]
      BY <1>1, <1>2 DEF TypeOK, Issued, Tokens
    <2>2. parent'[t] = 0
      BY <1>1 DEF TypeOK
    <2> QED BY <1>2, <2>1, <2>2 DEF Heirs, OneHeir
  <1> QED BY <1>6, <1>7, <1>8, <1>9, <1>10

\* A rotation revokes the row and issues the heir at the version of its parent.
LEMMA RotateKeeps ==
    ASSUME SessionInv, NEW h \in Handlers, Rotate(h)
    PROVE  SessionInv'
  <1> DEFINE p == task[h].t
  <1>1. p \in Issued /\ carries[p] = task[h].ver /\ row[p] = "live"
        /\ task[h].ver \in Nat /\ task[h].ver <= version
    BY DEF SessionInv, Lineage, TypeOK, Tasks, Versions, Refreshing, Rotate, At, StillLive
  <1>2. PICK t \in Tokens \ Issued :
           /\ row' = [u \in Tokens |-> IF u = t THEN "live"
                                       ELSE IF u = p THEN "revoked" ELSE row[u]]
           /\ carries' = [carries EXCEPT ![t] = task[h].ver]
           /\ parent' = [parent EXCEPT ![t] = p]
           /\ loginAt' = [loginAt EXCEPT ![t] = loginAt[p]]
           /\ UNCHANGED expired
    BY DEF Rotate, IssueTokens, RotatedVersion
  <1>3. Issued' = Issued \cup {t} /\ p # t /\ p \in Tokens
    BY <1>1, <1>2 DEF SessionInv, Issued, TypeOK, None, Tokens
  <1>4. task'[h] = Idle /\ \A k \in Handlers \ {h} : task'[k] = task[k]
    BY DEF SessionInv, TypeOK, Rotate, Become
  <1>5. Idle.pc = "idle" /\ Idle.t = 0 /\ Idle.ver = 0 /\ Idle \in Tasks
    BY DEF Idle, Task, Tasks, Labels, Versions
  <1>6. answered' = [answered EXCEPT ![p] = IF answered[p] < 2 THEN answered[p] + 1 ELSE 2]
        /\ version' = version /\ account' = account
    BY DEF Rotate, Answer, userVars
  <1>7. TypeOK'
    <2>1. row' \in [Tokens -> {None, "live", "revoked", "old", "pruned"}]
      BY <1>2 DEF SessionInv, TypeOK
    <2>2. carries' \in [Tokens -> Versions] /\ parent' \in [Tokens -> Tokens \cup {0}]
          /\ loginAt' \in [Tokens -> Versions] /\ expired' \subseteq Tokens
      BY <1>1, <1>2, <1>3 DEF SessionInv, TypeOK, Versions
    <2>3. answered' \in [Tokens -> 0..2]
      BY <1>3, <1>6 DEF SessionInv, TypeOK
    <2>4. task' \in [Handlers -> Tasks]
      BY <1>5 DEF SessionInv, TypeOK, Rotate, Become
    <2>5. \A u \in Issued' : carries'[u] <= version'
      BY <1>1, <1>2, <1>3, <1>6 DEF SessionInv, TypeOK
    <2> QED BY <2>1, <2>2, <2>3, <2>4, <2>5, <1>6 DEF SessionInv, TypeOK
  <1>8. Lineage'
    <2>1. \A u \in Issued' : carries'[u] = loginAt'[u]
      BY <1>1, <1>2, <1>3 DEF SessionInv, Lineage, TypeOK, Issued
    <2>2. ASSUME NEW k \in Handlers
          PROVE  /\ task'[k].ver <= version'
                 /\ task'[k].pc \in Refreshing =>
                      task'[k].t \in Issued' /\ carries'[task'[k].t] = task'[k].ver
                 /\ task'[k].t # 0 => task'[k].t \in Issued'
      <3>1. CASE k = h
        BY <3>1, <1>4, <1>5, <1>6 DEF SessionInv, TypeOK, Versions, Refreshing
      <3>2. CASE k # h
        <4>1. task'[k] = task[k]
          BY <3>2, <1>4
        <4>2. \A u \in Issued : u \in Issued' /\ carries'[u] = carries[u]
          BY <1>2, <1>3 DEF SessionInv, TypeOK, Issued
        <4> QED BY <4>1, <4>2, <1>6 DEF SessionInv, Lineage
      <3> QED BY <3>1, <3>2
    <2> QED BY <2>1, <2>2 DEF Lineage
  <1>9. Blocked'
    <2> SUFFICES ASSUME account # "ACTIVE"
                 PROVE  /\ \A u \in Issued' : carries'[u] # version
                        /\ \A k \in Handlers :
                             task'[k].pc \in Holding => task'[k].ver # version
      BY <1>6 DEF Blocked
    <2>1. task[h].ver # version
      BY DEF SessionInv, Blocked, Holding, Rotate, At
    <2>2. \A u \in Issued' : carries'[u] # version
      BY <2>1, <1>2, <1>3 DEF SessionInv, Blocked, TypeOK, Issued
    <2>3. \A k \in Handlers : task'[k].pc \in Holding => task'[k].ver # version
      BY <1>4, <1>5 DEF SessionInv, Blocked, Holding
    <2> QED BY <2>2, <2>3
  <1>10. Exchanged'
    <2> SUFFICES ASSUME NEW u \in Tokens
                 PROVE  /\ answered'[u] > 0 =>
                             u \in Issued' /\ (row'[u] # "live" \/ carries'[u] < version')
                        /\ answered'[u] = 2 => carries'[u] < version'
      BY DEF Exchanged
    <2>1. CASE u = p
      <3>1. answered[p] > 0 => carries[p] < version
        BY <1>1, <1>3 DEF SessionInv, Exchanged
      <3>2. answered[p] \in 0..2
        BY <1>3 DEF SessionInv, TypeOK
      <3>3. carries'[p] = carries[p] /\ row'[p] = "revoked"
        BY <1>2, <1>3 DEF SessionInv, TypeOK
      <3>4. answered'[p] = IF answered[p] < 2 THEN answered[p] + 1 ELSE 2
        BY <1>3, <1>6 DEF SessionInv, TypeOK
      <3>5. answered'[p] = 2 => carries'[p] < version'
        BY <3>1, <3>2, <3>3, <3>4, <1>6
      <3> QED BY <2>1, <3>3, <3>5, <1>1, <1>3
    <2>2. CASE u = t
      <3>1. answered'[u] = answered[u] /\ ~(answered[u] > 0) /\ answered[u] \in 0..2
        BY <2>2, <1>2, <1>3, <1>6 DEF SessionInv, TypeOK, Exchanged
      <3> QED BY <3>1
    <2>3. CASE u # p /\ u # t
      <3>1. answered'[u] = answered[u] /\ row'[u] = row[u] /\ carries'[u] = carries[u]
        BY <2>3, <1>2, <1>6 DEF SessionInv, TypeOK
      <3> QED BY <3>1, <1>3, <1>6 DEF SessionInv, Exchanged
    <2> QED BY <2>1, <2>2, <2>3
  <1>11. Heirs'
    <2>1. \A u \in Issued : /\ parent'[u] = parent[u]
                            /\ row[u] # "live" => row'[u] # "live"
      BY <1>2, <1>3 DEF SessionInv, TypeOK, Issued
    <2>2. parent'[t] = p /\ row'[p] = "revoked"
      BY <1>2, <1>3 DEF SessionInv, TypeOK
    <2>3. \A u \in Issued : parent[u] # p
      BY <1>1, <1>3 DEF SessionInv, Heirs, Tokens
    <2>4. OneHeir'
      BY <1>3, <2>1, <2>2, <2>3 DEF SessionInv, Heirs, OneHeir
    <2> QED BY <1>1, <1>3, <2>1, <2>2, <2>4 DEF SessionInv, Heirs
  <1> QED BY <1>7, <1>8, <1>9, <1>10, <1>11 DEF SessionInv

\* revokeFamily leaves no token at the new version.
LEMMA RevokeKeeps ==
    ASSUME SessionInv, NEW h \in Handlers, RevokeCommit(h)
    PROVE  SessionInv'
  <1> DEFINE p == task[h].t
  <1>1. version' = version + 1 /\ version \in Nat
        /\ row' = [u \in Tokens |-> IF u \in task[h].seen /\ row[u] = "live"
                                    THEN "revoked" ELSE row[u]]
        /\ UNCHANGED <<account, carries, expired, parent, loginAt>>
    BY DEF SessionInv, TypeOK, Versions, RevokeCommit
  <1>2. Issued' = Issued
    BY <1>1 DEF Issued, None
  <1>3. task'[h] = Idle /\ \A k \in Handlers \ {h} : task'[k] = task[k]
    BY DEF SessionInv, TypeOK, RevokeCommit, Become
  <1>4. Idle.pc = "idle" /\ Idle.t = 0 /\ Idle.ver = 0 /\ Idle \in Tasks
    BY DEF Idle, Task, Tasks, Labels, Versions
  <1>5. answered' \in [Tokens -> 0..2]
        /\ \A u \in Tokens : answered'[u] # answered[u] => u = p /\ u \in Issued
    <2>1. CASE p = 0
      BY <2>1 DEF SessionInv, TypeOK, RevokeCommit
    <2>2. CASE p # 0
      <3>1. p \in Issued /\ p \in Tokens
        BY <2>2 DEF SessionInv, Lineage, Issued
      <3>2. answered' = [answered EXCEPT ![p] = IF answered[p] < 2 THEN answered[p] + 1 ELSE 2]
        BY <2>2 DEF RevokeCommit, Answer
      <3> QED BY <3>1, <3>2 DEF SessionInv, TypeOK
    <2> QED BY <2>1, <2>2
  <1>6. TypeOK'
    <2>1. row' \in [Tokens -> {None, "live", "revoked", "old", "pruned"}]
      BY <1>1 DEF SessionInv, TypeOK
    <2>2. task' \in [Handlers -> Tasks]
      BY <1>4 DEF SessionInv, TypeOK, RevokeCommit, Become
    <2>3. \A u \in Issued' : carries'[u] <= version'
      BY <1>1, <1>2 DEF SessionInv, TypeOK, Versions, Issued
    <2> QED BY <2>1, <2>2, <2>3, <1>1, <1>5 DEF SessionInv, TypeOK, Versions
  <1>7. Lineage'
    <2>1. \A u \in Issued' : carries'[u] = loginAt'[u]
      BY <1>1, <1>2 DEF SessionInv, Lineage
    <2>2. ASSUME NEW k \in Handlers
          PROVE  /\ task'[k].ver <= version'
                 /\ task'[k].pc \in Refreshing =>
                      task'[k].t \in Issued' /\ carries'[task'[k].t] = task'[k].ver
                 /\ task'[k].t # 0 => task'[k].t \in Issued'
      <3>1. CASE k = h
        BY <3>1, <1>1, <1>3, <1>4 DEF Refreshing
      <3>2. CASE k # h
        <4>1. task[k].ver \in Nat
          BY DEF SessionInv, TypeOK, Tasks, Versions
        <4> QED BY <4>1, <3>2, <1>1, <1>2, <1>3 DEF SessionInv, Lineage
      <3> QED BY <3>1, <3>2
    <2> QED BY <2>1, <2>2 DEF Lineage
  <1>8. Blocked'
    <2>1. \A u \in Issued' : carries'[u] # version'
      BY <1>1, <1>2 DEF SessionInv, TypeOK, Versions, Issued
    <2>2. ASSUME NEW k \in Handlers, task'[k].pc \in Holding
          PROVE  task'[k].ver # version'
      <3>1. k # h
        BY <2>2, <1>3, <1>4 DEF Holding
      <3>2. task[k].ver \in Nat /\ task[k].ver <= version
        BY DEF SessionInv, TypeOK, Tasks, Versions, Lineage
      <3> QED BY <3>1, <3>2, <1>1, <1>3
    <2> QED BY <2>1, <2>2 DEF Blocked
  <1>9. Exchanged'
    <2> SUFFICES ASSUME NEW u \in Tokens, answered'[u] > 0
                 PROVE  u \in Issued /\ carries[u] < version + 1
      BY <1>1, <1>2, <1>5 DEF Exchanged
    <2>1. u \in Issued
      BY <1>5 DEF SessionInv, Exchanged
    <2> QED BY <2>1, <1>1 DEF SessionInv, TypeOK, Versions, Issued
  <1>10. Heirs'
    <2>1. \A u \in Issued : row[u] # "live" => row'[u] # "live"
      BY <1>1 DEF Issued
    <2> QED BY <1>1, <1>2, <2>1 DEF SessionInv, Heirs, OneHeir
  <1> QED BY <1>6, <1>7, <1>8, <1>9, <1>10 DEF SessionInv

\* Pruning and ageing only move rows that are already issued, never to live.
LEMMA RowsSettle ==
    ASSUME SessionInv,
           row' \in [Tokens -> {None, "live", "revoked", "old", "pruned"}],
           \A t \in Tokens : /\ row'[t] = None <=> row[t] = None
                             /\ row'[t] = "live" => row[t] = "live",
           UNCHANGED <<version, account, carries, parent, loginAt, answered>>,
           expired' \subseteq Tokens,
           task' = task
    PROVE  SessionInv'
  <1>1. Issued' = Issued
    BY DEF Issued
  <1>2. TypeOK'
    BY <1>1 DEF SessionInv, TypeOK
  <1>3. Lineage' /\ Blocked'
    BY <1>1 DEF SessionInv, Lineage, Blocked
  <1>4. Exchanged'
    BY <1>1 DEF SessionInv, Exchanged
  <1>5. Heirs'
    BY <1>1 DEF SessionInv, Heirs, OneHeir, Issued
  <1> QED BY <1>2, <1>3, <1>4, <1>5 DEF SessionInv

\* The steps of a request before its write.
LEMMA RequestSteps ==
    ASSUME SessionInv, NEW h \in Handlers,
           \/ LoginRead(h) \/ DemoLogin(h) \/ RefreshRead(h) \/ LogoutCheck(h)
           \/ LookupRefused(h) \/ LookupRevoked(h) \/ LookupLive(h)
           \/ RotateLost(h) \/ RevokeRows(h) \/ Crash(h)
    PROVE  SessionInv'
  <1>1. version \in Nat /\ 0 <= version /\ task[h] \in Tasks
    BY DEF SessionInv, TypeOK, Versions
  <1>2. /\ task[h].t \in Tokens \cup {0} /\ task[h].ver \in Nat
        /\ task[h].ver <= version
        /\ task[h].t # 0 => task[h].t \in Issued
    BY <1>1 DEF SessionInv, Lineage, Tasks, Versions
  <1>3. \A l \in Labels, t \in Tokens \cup {0}, v \in Nat :
          /\ Task(l, t, v) \in Tasks
          /\ Task(l, t, v).pc = l /\ Task(l, t, v).t = t /\ Task(l, t, v).ver = v
    BY DEF Task, Tasks, Versions
  <1>4. account # "ACTIVE" /\ task[h].pc \in Holding => task[h].ver # version
    BY DEF SessionInv, Blocked
  <1>5. Idle \in Tasks /\ Idle.pc = "idle" /\ Idle.t = 0 /\ Idle.ver = 0
    BY DEF Idle, Task, Tasks, Labels, Versions
  <1>6. ASSUME UNCHANGED <<version, row, carries, expired, parent, loginAt, answered>>,
               account' \in {"ACTIVE", account}, Become(h, Idle)
        PROVE  SessionInv'
    BY <1>1, <1>5, <1>6, RequestMoves DEF Refreshing, Holding
  <1>7. CASE LoginRead(h)
    <2> DEFINE s == Task("issue", 0, version)
    <2>1. s \in Tasks /\ s.pc = "issue" /\ s.t = 0 /\ s.ver = version
      BY <1>1, <1>3 DEF Labels
    <2>2. Become(h, s) /\ account = "ACTIVE" /\ account' = account
          /\ UNCHANGED <<version, row, carries, expired, parent, loginAt, answered>>
      BY <1>7 DEF LoginRead, Begin, userVars, tokenVars
    <2> HIDE DEF s
    <2> QED BY <2>1, <2>2, <1>1, RequestMoves DEF Refreshing
  <1>8. CASE DemoLogin(h)
    <2> DEFINE s == Task("issue", 0, version)
    <2>1. s \in Tasks /\ s.pc = "issue" /\ s.t = 0 /\ s.ver = version
      BY <1>1, <1>3 DEF Labels
    <2>2. Become(h, s) /\ account' = "ACTIVE"
          /\ UNCHANGED <<version, row, carries, expired, parent, loginAt, answered>>
      BY <1>8 DEF DemoLogin, Begin, tokenVars
    <2> HIDE DEF s
    <2> QED BY <2>1, <2>2, <1>1, RequestMoves DEF Refreshing
  <1>9. CASE RefreshRead(h)
    <2>1. PICK t \in Issued \ expired :
            Authenticates(t) /\ Begin(h, "refresh", Task("prune", t, version))
      BY <1>9 DEF RefreshRead
    <2> DEFINE s == Task("prune", t, version)
    <2>2. t \in Tokens /\ carries[t] = version /\ account = "ACTIVE"
      BY <2>1 DEF Authenticates, Issued
    <2>3. s \in Tasks /\ s.pc = "prune" /\ s.t = t /\ s.ver = version
      BY <1>1, <1>3, <2>2 DEF Labels
    <2>4. Become(h, s) /\ account' = account
          /\ UNCHANGED <<version, row, carries, expired, parent, loginAt, answered>>
      BY <1>9, <2>1 DEF RefreshRead, Begin, userVars, tokenVars
    <2> HIDE DEF s
    <2> QED BY <2>1, <2>2, <2>3, <2>4, <1>1, RequestMoves
  <1>10. CASE LogoutCheck(h)
    <2> DEFINE s == Task("leave", 0, version)
    <2>1. s \in Tasks /\ s.pc = "leave" /\ s.t = 0 /\ s.ver = version
      BY <1>1, <1>3 DEF Labels
    <2>2. Become(h, s) /\ account' = account
          /\ UNCHANGED <<version, row, carries, expired, parent, loginAt, answered>>
      BY <1>10 DEF LogoutCheck, Begin, userVars, tokenVars
    <2> HIDE DEF s
    <2> QED BY <2>1, <2>2, <1>1, RequestMoves DEF Refreshing, Holding
  <1>11. CASE LookupRefused(h) \/ Crash(h)
    BY <1>6, <1>11 DEF LookupRefused, Crash, userVars, tokenVars
  <1>12. ASSUME NEW l \in Refreshing, task[h].pc \in {"prune", "lookup", "rotate"},
                Become(h, Task(l, task[h].t, task[h].ver)),
                UNCHANGED <<userVars, tokenVars, answered>>
         PROVE  SessionInv'
    <2> DEFINE s == Task(l, task[h].t, task[h].ver)
    <2>1. s \in Tasks /\ s.pc = l /\ s.t = task[h].t /\ s.ver = task[h].ver
      BY <1>2, <1>3 DEF Labels, Refreshing
    <2>2. task[h].t \in Issued /\ carries[task[h].t] = task[h].ver
      BY <1>12 DEF SessionInv, Lineage, Refreshing
    <2>3. account # "ACTIVE" => task[h].ver # version
      BY <1>4, <1>12 DEF Holding
    <2>4. UNCHANGED <<version, row, carries, expired, parent, loginAt, answered>>
          /\ account' = account /\ Become(h, s)
      BY <1>12 DEF userVars, tokenVars
    <2> HIDE DEF s
    <2> QED BY <1>2, <2>1, <2>2, <2>3, <2>4, RequestMoves
  <1>13. CASE LookupRevoked(h) \/ LookupLive(h) \/ RotateLost(h)
    BY <1>12, <1>13 DEF LookupRevoked, LookupLive, RotateLost, At, Refreshing
  <1>14. CASE RevokeRows(h)
    <2> DEFINE live == {t \in Tokens : row[t] = "live"}
               s == [Task("revoke", task[h].t, task[h].ver) EXCEPT !.seen = live]
    <2>1. s \in Tasks /\ s.pc = "revoke" /\ s.t = task[h].t /\ s.ver = task[h].ver
      BY <1>2 DEF Task, Tasks, Labels, Versions
    <2>2. UNCHANGED <<version, row, carries, expired, parent, loginAt, answered>>
          /\ account' = account /\ Become(h, s)
      BY <1>14 DEF RevokeRows, userVars, tokenVars
    <2> HIDE DEF s
    <2> QED BY <1>2, <2>1, <2>2, RequestMoves DEF Refreshing, Holding
  <1> QED BY <1>7, <1>8, <1>9, <1>10, <1>11, <1>13, <1>14

\* The deletion of expired and old rows at the start of a refresh.
LEMMA PruneKeeps ==
    ASSUME SessionInv, NEW h \in Handlers, PruneLedger(h)
    PROVE  SessionInv'
  <1> DEFINE s == Task("lookup", task[h].t, task[h].ver)
  <1>1. /\ version' = version /\ account' = account
        /\ UNCHANGED <<carries, expired, parent, loginAt, answered>>
        /\ Become(h, s) /\ task[h].pc = "prune"
    BY DEF PruneLedger, At, userVars
  <1>2. /\ row' \in [Tokens -> {None, "live", "revoked", "old", "pruned"}]
        /\ \A t \in Tokens : /\ row'[t] = None <=> row[t] = None
                             /\ row'[t] = "live" => row[t] = "live"
    BY DEF PruneLedger, SessionInv, TypeOK, Issued, None
  <1>3. Issued' = Issued
    BY <1>2 DEF Issued
  <1>4. task[h].t \in Issued /\ task[h].t \in Tokens /\ carries[task[h].t] = task[h].ver
        /\ task[h].ver \in Nat /\ task[h].ver <= version
    BY <1>1 DEF SessionInv, TypeOK, Lineage, Refreshing, Issued, Tasks, Versions
  <1>5. s \in Tasks /\ s.pc = "lookup" /\ s.t = task[h].t /\ s.ver = task[h].ver
    BY <1>4 DEF Task, Tasks, Labels, Versions
  <1> HIDE DEF s
  <1>6. task'[h] = s /\ \A k \in Handlers \ {h} : task'[k] = task[k]
    BY <1>1 DEF SessionInv, TypeOK, Become
  <1>7. TypeOK'
    BY <1>1, <1>2, <1>3, <1>5 DEF SessionInv, TypeOK, Become
  <1>8. Lineage'
    <2>1. \A u \in Issued' : carries'[u] = loginAt'[u]
      BY <1>1, <1>3 DEF SessionInv, Lineage
    <2>2. ASSUME NEW k \in Handlers
          PROVE  /\ task'[k].ver <= version'
                 /\ task'[k].pc \in Refreshing =>
                      task'[k].t \in Issued' /\ carries'[task'[k].t] = task'[k].ver
                 /\ task'[k].t # 0 => task'[k].t \in Issued'
      <3>1. CASE k = h
        BY <3>1, <1>1, <1>3, <1>4, <1>5, <1>6
      <3>2. CASE k # h
        BY <3>2, <1>1, <1>3, <1>6 DEF SessionInv, Lineage
      <3> QED BY <3>1, <3>2
    <2> QED BY <2>1, <2>2 DEF Lineage
  <1>9. Blocked'
    BY <1>1, <1>3, <1>5, <1>6 DEF SessionInv, Blocked, Holding
  <1>10. Exchanged'
    BY <1>1, <1>2, <1>3 DEF SessionInv, Exchanged
  <1>11. Heirs'
    BY <1>1, <1>2, <1>3 DEF SessionInv, Heirs, OneHeir, Issued
  <1> QED BY <1>7, <1>8, <1>9, <1>10, <1>11 DEF SessionInv

\* Every step keeps SessionInv.
LEMMA StepKeeps == SessionInv /\ [Next]_vars => SessionInv'
  <1> SUFFICES ASSUME SessionInv, [Next]_vars PROVE SessionInv'
    OBVIOUS
  <1>1. ASSUME NEW h \in Handlers, Start(h) \/ Step(h) \/ Crash(h)
        PROVE  SessionInv'
    <2>1. CASE Issue(h)
      BY <2>1, IssueKeeps
    <2>2. CASE PruneLedger(h)
      BY <2>2, PruneKeeps
    <2>3. CASE Rotate(h)
      BY <2>3, RotateKeeps
    <2>4. CASE RevokeCommit(h)
      BY <2>4, RevokeKeeps
    <2> QED BY <1>1, <2>1, <2>2, <2>3, <2>4, RequestSteps DEF Start, Step
  <1>2. CASE ChangeCredentials
    <2>1. account' \in {"ACTIVE", "SUSPENDED", "DELETED"}
      BY <1>2 DEF ChangeCredentials, SessionInv, TypeOK
    <2> QED BY <1>2, <2>1, BumpKeeps DEF ChangeCredentials
  <1>3. CASE Suspend
    BY <1>3, BumpKeeps DEF Suspend, BumpedVersion
  <1>4. CASE DeleteUser
    BY <1>4, BumpKeeps DEF DeleteUser
  <1>5. CASE Reactivate
    <2>1. Issued' = Issued
      BY <1>5 DEF Reactivate, Issued, tokenVars
    <2> QED BY <1>5, <2>1
          DEF Reactivate, SessionInv, TypeOK, Lineage, Blocked, Exchanged,
              Heirs, OneHeir, tokenVars
  <1>6. ASSUME NEW t \in Tokens, Expire(t) PROVE SessionInv'
    <2>1. expired' \subseteq Tokens
      BY <1>6 DEF Expire, SessionInv, TypeOK
    <2> QED BY <1>6, <2>1, RowsSettle DEF Expire, userVars, SessionInv, TypeOK
  <1>7. ASSUME NEW t \in Tokens, Age(t) PROVE SessionInv'
    <2>1. /\ row' \in [Tokens -> {None, "live", "revoked", "old", "pruned"}]
          /\ \A u \in Tokens : /\ row'[u] = None <=> row[u] = None
                               /\ row'[u] = "live" => row[u] = "live"
          /\ expired' \subseteq Tokens
      BY <1>7 DEF Age, SessionInv, TypeOK, None
    <2> QED BY <1>7, <2>1, RowsSettle DEF Age, userVars
  <1>8. CASE UNCHANGED vars
    <2>1. Issued' = Issued
      BY <1>8 DEF vars, Issued
    <2> QED BY <1>8, <2>1 DEF vars, SessionInv, TypeOK, Lineage, Blocked, Exchanged,
                               Heirs, OneHeir
  <1> QED BY <1>1, <1>2, <1>3, <1>4, <1>5, <1>6, <1>7, <1>8 DEF Next

\* The requests of auth.service.ts and user.service.ts, in any number and any
\* interleaving, keep the inductive invariant.
THEOREM SessionInvariant == Spec => []SessionInv
  <1> QED BY InitKeeps, StepKeeps, PTL DEF Spec

\* Every column and every local keeps its type.
THEOREM SessionsTypeCorrect == Spec => []TypeOK
  <1>1. SessionInv => TypeOK
    BY DEF SessionInv
  <1> QED BY <1>1, SessionInvariant, PTL

\* refreshToken, middleware/auth: however many times a session has been
\* rotated, it still counts only while the version its login was checked at is
\* the user's version.
THEOREM SessionsStayFresh == Spec => []SessionsAreFresh
  <1>1. SessionInv => SessionsAreFresh
    BY DEF SessionInv, Lineage, SessionsAreFresh
  <1> QED BY <1>1, SessionInvariant, PTL

\* refreshToken: a refresh token that was answered twice has no living
\* descendant.
THEOREM ReplaysArePunished == Spec => []ReplayKillsFamily
  <1>1. SessionInv => ReplayKillsFamily
    BY DEF SessionInv, Exchanged, ReplayKillsFamily
  <1> QED BY <1>1, SessionInvariant, PTL

\* refreshToken: no refresh token is exchanged twice.
THEOREM TokensHaveOneHeir == Spec => []OneHeir
  <1>1. SessionInv => OneHeir
    BY DEF SessionInv, Heirs
  <1> QED BY <1>1, SessionInvariant, PTL

\* changeStatus, deleteUser: suspending or deleting an account leaves no
\* session, issued or about to be issued, that a reactivation would revive.
THEOREM BlockedAccountsHaveNone == Spec => []NoSessionWhileBlocked
  <1>1. SessionInv => NoSessionWhileBlocked
    BY DEF SessionInv, Blocked, Holding, NoSessionWhileBlocked
  <1> QED BY <1>1, SessionInvariant, PTL

-----------------------------------------------------------------------------
(* The refinement of SessionPromise.                                       *)

Open == {t \in Issued : carries[t] = version}
Spent == {parent[t] : t \in Issued} \ {0}

\* A step that issues nothing and bumps nothing changes nothing the promise
\* sees, unless it writes the account or answers somebody.
LEMMA Unseen ==
    ASSUME Issued' = Issued, UNCHANGED <<version, carries, parent>>
    PROVE  Open' = Open /\ Spent' = Spent
  BY DEF Open, Spent

\* Bumping the version ends every session.
LEMMA BumpEnds ==
    ASSUME SessionInv, version' = version + 1, Issued' = Issued, UNCHANGED <<carries, parent>>
    PROVE  Open' = {} /\ Spent' = Spent
  <1>1. version \in Nat /\ \A t \in Issued : carries[t] \in Nat /\ carries[t] <= version
    BY DEF SessionInv, TypeOK, Versions, Issued
  <1> QED BY <1>1 DEF Open, Spent

\* A login that nothing overtook opens its token; an overtaken one does not.
LEMMA IssueIsLogin ==
    ASSUME SessionInv, NEW h \in Handlers, Issue(h)
    PROVE  Promise!Login
  <1>1. PICK t \in Tokens \ Issued :
           /\ row' = [u \in Tokens |-> IF u = t THEN "live"
                                       ELSE IF u = 0 THEN "revoked" ELSE row[u]]
           /\ carries' = [carries EXCEPT ![t] = task[h].ver]
           /\ parent' = [parent EXCEPT ![t] = 0]
    BY DEF Issue, IssueTokens
  <1>2. Issued' = Issued \cup {t} /\ UNCHANGED <<version, account, answered>>
    BY <1>1 DEF SessionInv, TypeOK, Issue, Issued, None, Tokens, userVars
  <1>3. /\ \A u \in Issued : carries'[u] = carries[u] /\ parent'[u] = parent[u]
        /\ carries'[t] = task[h].ver /\ parent'[t] = 0
    BY <1>1 DEF SessionInv, TypeOK, Issued
  <1>4. Open' = IF task[h].ver = version THEN Open \cup {t} ELSE Open
    BY <1>2, <1>3 DEF Open
  <1>5. task[h].ver = version => account = "ACTIVE"
    BY DEF SessionInv, Blocked, Holding, Issue, At
  <1>6. Spent' = Spent
    BY <1>2, <1>3 DEF Spent
  <1> QED BY <1>2, <1>4, <1>5, <1>6 DEF Promise!Login, Open, Spent

\* A rotation: the row was live, so nothing was exchanged for the token yet,
\* and its heir opens the account exactly when it does.
LEMMA RotateIsExchange ==
    ASSUME SessionInv, NEW h \in Handlers, Rotate(h)
    PROVE  Promise!Exchange
  <1> DEFINE u == task[h].t
  <1>1. u \in Issued /\ carries[u] = task[h].ver /\ row[u] = "live" /\ u # 0
    BY DEF SessionInv, Lineage, Refreshing, Rotate, At, StillLive, Issued, Tokens
  <1>2. PICK t \in Tokens \ Issued :
           /\ row' = [v \in Tokens |-> IF v = t THEN "live"
                                       ELSE IF v = u THEN "revoked" ELSE row[v]]
           /\ carries' = [carries EXCEPT ![t] = task[h].ver]
           /\ parent' = [parent EXCEPT ![t] = u]
    BY DEF Rotate, IssueTokens, RotatedVersion
  <1>3. Issued' = Issued \cup {t} /\ UNCHANGED <<version, account>> /\ u # t
    BY <1>1, <1>2 DEF SessionInv, TypeOK, Rotate, Issued, None, Tokens, userVars
  <1>4. /\ \A v \in Issued : carries'[v] = carries[v] /\ parent'[v] = parent[v]
        /\ carries'[t] = task[h].ver /\ parent'[t] = u
    BY <1>2 DEF SessionInv, TypeOK, Issued
  <1>5. u \notin Spent
    BY <1>1 DEF SessionInv, Heirs, Spent
  <1>6. answered[u] > 0 => u \notin Open
    <2>1. answered[u] > 0 => carries[u] < version
      BY <1>1 DEF SessionInv, Exchanged, Issued
    <2>2. version \in Nat
      BY DEF SessionInv, TypeOK, Versions
    <2> QED BY <2>1, <2>2 DEF Open
  <1>7. Open' = IF u \in Open THEN Open \cup {t} ELSE Open
    BY <1>1, <1>3, <1>4 DEF Open
  <1>8. Spent' = Spent \cup {u}
    BY <1>1, <1>3, <1>4 DEF Spent
  <1>9. Promise!Answer(u)
    BY DEF Rotate, Answer, Promise!Answer
  <1> QED BY <1>1, <1>3, <1>5, <1>6, <1>7, <1>8, <1>9 DEF Promise!Exchange, Open, Spent

\* Revoking the family of a token ends every session, and answers the replay.
LEMMA RevokeEnds ==
    ASSUME SessionInv, NEW h \in Handlers, RevokeCommit(h)
    PROVE  Promise!EndSessions
  <1>1. Issued' = Issued /\ UNCHANGED <<carries, parent, account>>
    BY DEF RevokeCommit, SessionInv, TypeOK, Issued, None
  <1>2. Open' = {} /\ Spent' = Spent
    BY <1>1, BumpEnds DEF RevokeCommit
  <1>3. UNCHANGED answered \/ \E u \in Issued : Promise!Answer(u)
    <2>1. task[h].t # 0 => task[h].t \in Issued
      BY DEF SessionInv, Lineage
    <2> QED BY <2>1 DEF RevokeCommit, Answer, Promise!Answer
  <1> QED BY <1>1, <1>2, <1>3 DEF Promise!EndSessions, Open, Spent

\* The other steps of a request show only that demoLogin unblocks the account.
LEMMA RequestsShowNothing ==
    ASSUME SessionInv, NEW h \in Handlers, Start(h) \/ Step(h) \/ Crash(h),
           ~Issue(h), ~Rotate(h), ~RevokeCommit(h)
    PROVE  /\ Issued' = Issued /\ UNCHANGED <<version, carries, parent, answered>>
           /\ account' \in {account, "ACTIVE"}
  <1>1. CASE PruneLedger(h)
    BY <1>1 DEF PruneLedger, userVars, SessionInv, TypeOK, Issued, None
  <1> QED
    BY <1>1
    DEF Start, Step, Crash, LoginRead, DemoLogin, RefreshRead, LogoutCheck, LookupRefused,
        LookupRevoked, LookupLive, RotateLost, RevokeRows, userVars, tokenVars, Issued

LEMMA PromiseInit == Init => Promise!Init
  <1> SUFFICES ASSUME Init PROVE Promise!Init
    OBVIOUS
  <1>1. Issued = {}
    BY DEF Init, Issued
  <1> QED BY <1>1 DEF Init, Promise!Init

\* Unblocking an account finds no session open.
LEMMA UnblockKeeps ==
    ASSUME SessionInv, account' = "ACTIVE", Issued' = Issued,
           UNCHANGED <<version, carries, parent, answered>>
    PROVE  [Promise!Next]_Promise!vars
  <1>1. Open' = Open /\ Spent' = Spent
    BY Unseen
  <1>2. account # "ACTIVE" => Open = {}
    BY DEF SessionInv, Blocked, Open
  <1>3. CASE account = "ACTIVE"
    BY <1>1, <1>3 DEF Promise!vars, Open, Spent
  <1>4. CASE account # "ACTIVE"
    <2>1. Promise!Unblock
      BY <1>1, <1>2, <1>4 DEF Promise!Unblock, Open, Spent
    <2> QED BY <2>1 DEF Promise!Next
  <1> QED BY <1>3, <1>4

LEMMA PromiseStep == SessionInv /\ [Next]_vars => [Promise!Next]_Promise!vars
  <1> SUFFICES ASSUME SessionInv, [Next]_vars PROVE [Promise!Next]_Promise!vars
    OBVIOUS
  <1>1. ASSUME Issued' = Issued, UNCHANGED <<version, account, carries, parent, answered>>
        PROVE  [Promise!Next]_Promise!vars
    BY <1>1, Unseen DEF Promise!vars, Open, Spent
  <1>2. ASSUME NEW h \in Handlers, Start(h) \/ Step(h) \/ Crash(h)
        PROVE  [Promise!Next]_Promise!vars
    <2>1. CASE Issue(h) BY <2>1, IssueIsLogin DEF Promise!Next
    <2>2. CASE Rotate(h) BY <2>2, RotateIsExchange DEF Promise!Next
    <2>3. CASE RevokeCommit(h) BY <2>3, RevokeEnds DEF Promise!Next
    <2>4. CASE ~Issue(h) /\ ~Rotate(h) /\ ~RevokeCommit(h)
      BY <1>1, <1>2, <2>4, RequestsShowNothing, UnblockKeeps
    <2> QED BY <2>1, <2>2, <2>3, <2>4
  <1>3. CASE ChangeCredentials
    <2>1. Issued' = Issued /\ UNCHANGED <<carries, parent, account, answered>>
      BY <1>3 DEF ChangeCredentials, tokenVars, Issued
    <2>2. Promise!EndSessions
      BY <1>3, <2>1, BumpEnds DEF ChangeCredentials, Promise!EndSessions, Open, Spent
    <2> QED BY <2>2 DEF Promise!Next
  <1>4. CASE Suspend \/ DeleteUser
    <2>1. /\ account # "DELETED" /\ account' \in {"SUSPENDED", "DELETED"}
          /\ version' = version + 1
          /\ Issued' = Issued /\ UNCHANGED <<carries, parent, answered>>
      BY <1>4 DEF Suspend, DeleteUser, BumpedVersion, tokenVars, Issued
    <2>2. Promise!Block
      BY <2>1, BumpEnds DEF Promise!Block, Open, Spent
    <2> QED BY <2>2 DEF Promise!Next
  <1>5. CASE Reactivate
    BY <1>5, UnblockKeeps DEF Reactivate, tokenVars, Issued
  <1>6. ASSUME NEW t \in Tokens, Expire(t) \/ Age(t)
        PROVE  [Promise!Next]_Promise!vars
    <2>1. Issued' = Issued
      BY <1>6 DEF Expire, Age, SessionInv, TypeOK, Issued, None
    <2> QED BY <1>1, <1>6, <2>1 DEF Expire, Age, userVars
  <1>7. CASE UNCHANGED vars
    BY <1>1, <1>7 DEF vars, Issued
  <1> QED BY <1>2, <1>3, <1>4, <1>5, <1>6, <1>7 DEF Next

\* loginUser, refreshToken, revokeFamily, changeStatus, deleteUser, in any
\* number, interleaved and cut off anywhere: a session is exchanged once, its
\* heir is open only if it is, and what was ended never opens again.
THEOREM SessionPromiseIsKept == Spec => KeepsSessionPromise
  <1> QED BY PromiseInit, PromiseStep, SessionInvariant, PTL DEF Spec, KeepsSessionPromise, Promise!Spec

=============================================================================
