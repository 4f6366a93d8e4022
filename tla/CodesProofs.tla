---------------------------- MODULE CodesProofs -----------------------------
(***************************************************************************)
(* OneTimeCodes proved for any number of requests, codes and Google        *)
(* identities: CodesInv is inductive, and the promises about the account   *)
(* and about answered codes follow from it.                                *)
(***************************************************************************)
EXTENDS OneTimeCodes, FiniteSetTheorems, TLAPS

\* The minters are finitely many.
LEMMA MintersFinite == IsFiniteSet(Minters) /\ Cardinality(Minters) \in Nat
  <1>1. Minters \in SUBSET Handlers
    BY DEF Minters
  <1>2. IsFiniteSet(Minters)
    BY <1>1, RequestsAreFinite, FS_Subset
  <1> QED BY <1>2, FS_CardinalityType

\* One request moves on, and the others stay where they are.
LEMMA Moved ==
    ASSUME TypeOK, NEW h \in Handlers, NEW s \in Tasks, Become(h, s)
    PROVE  /\ task' \in [Handlers -> Tasks]
           /\ task'[h] = s
           /\ \A k \in Handlers : k # h => task'[k] = task[k]
  BY DEF TypeOK, Become

\* A request that starts minting found room; one that mints uses up its own.
LEMMA RoomStays ==
    ASSUME TypeOK, RoomKept, NEW h \in Handlers, NEW s \in Tasks, Become(h, s),
           \/ minted' = minted /\ (s.pc \in Minting => task[h].pc \in Minting \/ RoomForCode)
           \/ minted' = minted + 1 /\ task[h].pc \in Minting /\ s.pc \notin Minting
    PROVE  RoomKept' /\ minted' \in 0..MaxCodes
  <1>1. Minters' = IF s.pc \in Minting THEN Minters \cup {h} ELSE Minters \ {h}
    BY Moved DEF Minters
  <1>2. IsFiniteSet(Minters) /\ Cardinality(Minters) \in Nat
    BY MintersFinite
  <1>3. minted \in Nat /\ MaxCodes \in Nat
    BY CodeBounds DEF TypeOK
  <1>4. h \in Minters <=> task[h].pc \in Minting
    BY DEF Minters
  <1>5. Cardinality(Minters \cup {h}) =
          IF h \in Minters THEN Cardinality(Minters) ELSE Cardinality(Minters) + 1
    BY <1>2, FS_AddElement
  <1>6. Cardinality(Minters \ {h}) =
          IF h \in Minters THEN Cardinality(Minters) - 1 ELSE Cardinality(Minters)
    BY <1>2, FS_RemoveElement
  <1>7. h \in Minters => Cardinality(Minters) >= 1
    <2>1. h \in Minters => Cardinality(Minters) # 0
      BY <1>2, FS_EmptySet
    <2> QED BY <1>2, <2>1
  <1>8. RoomForCode <=> minted + Cardinality(Minters) < MaxCodes
    BY DEF RoomForCode, Minters, Minting
  <1>9. CASE s.pc \in Minting
    BY <1>1, <1>2, <1>3, <1>4, <1>5, <1>8, <1>9 DEF RoomKept, TypeOK
  <1>10. CASE s.pc \notin Minting
    BY <1>1, <1>2, <1>3, <1>4, <1>6, <1>7, <1>10 DEF RoomKept, TypeOK
  <1> QED BY <1>9, <1>10

\* What a step of request h, to locals s, must see to for the invariant to stay:
\* what it does about minting, ...
SoundMove(h, s) ==
    /\ Become(h, s) /\ s \in Tasks
    /\ \/ minted' = minted /\ (s.pc \in Minting => task[h].pc \in Minting \/ RoomForCode)
       \/ minted' = minted + 1 /\ task[h].pc \in Minting /\ s.pc \notin Minting

\* ... what it remembers, ...
SoundLocals(s) ==
    /\ s.code \in 0..minted' /\ s.data \in 0..minted'
    /\ s.pc \in {"mail", "stage", "matchReset", "password", "used"} => s.code # None
    /\ s.pc \in {"byEmail", "link", "make"} => s.sub \in Subs
    /\ s.pc = "create" => s.data # None

\* ... what it leaves in Redis and in the mailbox, ...
SoundKeys ==
    /\ {registerOtp', staged', resetOtp'} \subseteq 0..minted'
    /\ mailed' \subseteq 1..minted'
    /\ answered' \subseteq 1..minted'
    /\ resetOtp' \notin answered'

\* ... and what it does to the account.
SoundAccount(h, s) ==
    /\ user' \in {Google} \cup 0..minted' /\ (user # None => user' = user)
    /\ linked' \in Subs \cup {None} /\ (user' = Google => linked' # None)
    /\ s.pc \in Verified => task[h].pc \in Verified \/ (user = None /\ user' \in Codes)
    /\ logins' = logins \/ (task[h].pc = "login" /\ s.pc = "idle" /\ logins' = 1)
    /\ s.pc \in Resetting => task[h].pc \in Resetting \/ user \in Codes
    /\ resets' \in [Codes -> 0..2]
    /\ \A c \in Codes : resets'[c] > 0 => resets[c] > 0 \/ task[h].pc = "password"

Sound(h, s) == SoundMove(h, s) /\ SoundLocals(s) /\ SoundKeys /\ SoundAccount(h, s)

\* Such a step keeps the invariant.
LEMMA SoundKeeps ==
    ASSUME CodesInv, NEW h \in Handlers, NEW s, Sound(h, s)
    PROVE  CodesInv'
  <1> USE DEF Sound
  <1>1. /\ task' \in [Handlers -> Tasks] /\ task'[h] = s /\ s \in Tasks
        /\ \A k \in Handlers : k # h => task'[k] = task[k]
    BY Moved DEF CodesInv, SoundMove
  <1>2. RoomKept' /\ minted' \in 0..MaxCodes
    <2>1. TypeOK /\ RoomKept /\ s \in Tasks /\ Become(h, s)
      BY DEF CodesInv, SoundMove
    <2>2. \/ minted' = minted /\ (s.pc \in Minting => task[h].pc \in Minting \/ RoomForCode)
          \/ minted' = minted + 1 /\ task[h].pc \in Minting /\ s.pc \notin Minting
      BY Zenon DEF SoundMove
    <2> QED BY <2>1, <2>2, RoomStays
  <1>3. minted \in Nat /\ minted' \in Nat /\ minted' >= minted
    BY <1>2, CodeBounds DEF CodesInv, TypeOK, SoundMove
  <1>4. TypeOK'
    <2>1. \A k \in Handlers : At(k, "create")' => task'[k].data # None
      BY <1>1 DEF CodesInv, TypeOK, SoundLocals, At
    <2>2. logins' \in 0..2
      BY DEF CodesInv, TypeOK, SoundAccount
    <2> QED
      BY <1>1, <1>2, <2>1, <2>2 DEF TypeOK, SoundKeys, SoundAccount
  <1>5. Remembers'
    <2>1. ASSUME NEW k \in Handlers
          PROVE  /\ task'[k].code \in 0..minted' /\ task'[k].data \in 0..minted'
                 /\ task'[k].pc \in {"mail", "stage", "matchReset", "password", "used"} =>
                      task'[k].code # None
                 /\ task'[k].pc \in {"byEmail", "link", "make"} => task'[k].sub \in Subs
      <3>1. CASE k = h
        BY <1>1, <3>1 DEF SoundLocals
      <3>2. CASE k # h
        BY <1>1, <1>3, <3>2 DEF CodesInv, Remembers
      <3> QED BY <3>1, <3>2
    <2> QED BY <2>1 DEF Remembers
  <1>6. user \in Codes => user' \in Codes
    BY CodeBounds DEF SoundAccount, Codes, None
  <1>7. OneVerification'
    <2>1. user = None => logins = 0 /\ \A k \in Handlers : task[k].pc \notin Verified
      BY CodeBounds DEF CodesInv, OneVerification, Codes, None
    <2>2. logins' # logins => /\ task[h].pc \in Verified /\ s.pc \notin Verified
                              /\ user \in Codes
      BY DEF SoundAccount, Verified, CodesInv, OneVerification
    <2>3. s.pc \in Verified => /\ user' \in Codes /\ logins' = 0
                               /\ \A k \in Handlers : task[k].pc \in Verified => k = h
      <3>1. CASE task[h].pc \in Verified
        BY <1>6, <2>2, <3>1 DEF CodesInv, OneVerification
      <3>2. CASE task[h].pc \notin Verified
        BY <2>1, <2>2, <3>2 DEF SoundAccount
      <3> QED BY <3>1, <3>2
    <2>4. ASSUME NEW k \in Handlers, task'[k].pc \in Verified
          PROVE  user' \in Codes /\ logins' = 0
      BY <1>1, <1>6, <2>2, <2>3, <2>4 DEF CodesInv, OneVerification
    <2>5. ASSUME NEW k \in Handlers, NEW l \in Handlers,
                 task'[k].pc \in Verified, task'[l].pc \in Verified
          PROVE  k = l
      BY <1>1, <2>3, <2>5 DEF CodesInv, OneVerification
    <2>6. logins' # 0 => user' \in Codes
      BY <1>6, <2>2 DEF CodesInv, OneVerification
    <2> QED BY <2>4, <2>5, <2>6 DEF OneVerification
  <1>8. OnlyWithPassword'
    <2>1. ASSUME NEW k \in Handlers, task'[k].pc \in Resetting PROVE user' \in Codes
      BY <1>1, <1>6, <2>1 DEF CodesInv, OnlyWithPassword, SoundAccount
    <2>2. GoogleStaysPasswordless'
      BY <1>6 DEF CodesInv, OnlyWithPassword, GoogleStaysPasswordless, SoundAccount, Resetting
    <2> QED BY <2>1, <2>2 DEF OnlyWithPassword
  <1>9. AnsweredIsGone'
    BY DEF SoundKeys, AnsweredIsGone
  <1> QED BY <1>2, <1>4, <1>5, <1>7, <1>8, <1>9 DEF CodesInv

\* What the invariant says of the state and of request h.
Here(h) ==
    /\ minted \in Nat /\ MaxCodes \in Nat /\ minted <= MaxCodes
    /\ {registerOtp, staged, resetOtp} \subseteq 0..minted
    /\ mailed \subseteq 1..minted /\ answered \subseteq 1..minted
    /\ resetOtp \notin answered
    /\ user \in {Google} \cup 0..minted /\ (user = Google => linked # None)
    /\ linked \in Subs \cup {None}
    /\ user \in Codes <=> user \notin {Google, None}
    /\ logins \in 0..2 /\ resets \in [Codes -> 0..2]
    /\ task[h] \in Tasks
    /\ task[h].code \in 0..minted /\ task[h].data \in 0..minted
    /\ task[h].pc \in {"mail", "stage", "matchReset", "password", "used"} =>
         task[h].code \in 1..minted
    /\ task[h].pc \in {"byEmail", "link", "make"} => task[h].sub \in Subs
    /\ task[h].pc = "create" => task[h].data \in Codes
    /\ task[h].pc \in Verified => logins = 0
    /\ task[h].pc \in Resetting => user \in Codes

LEMMA HereHolds == ASSUME CodesInv, NEW h \in Handlers PROVE Here(h)
  <1>1. /\ minted \in Nat /\ MaxCodes \in Nat /\ minted <= MaxCodes
        /\ user \in {Google} \cup 0..minted
    BY CodeBounds DEF CodesInv, TypeOK
  <1>2. user \in Codes <=> user \notin {Google, None}
    BY <1>1 DEF Codes, Google, None
  <1>3. /\ {registerOtp, staged, resetOtp} \subseteq 0..minted
        /\ mailed \subseteq 1..minted /\ answered \subseteq 1..minted
        /\ (user = Google => linked # None) /\ linked \in Subs \cup {None}
        /\ logins \in 0..2 /\ resets \in [Codes -> 0..2]
        /\ task[h] \in Tasks /\ resetOtp \notin answered
    BY DEF CodesInv, TypeOK, AnsweredIsGone
  <1>4. /\ task[h].code \in 0..minted /\ task[h].data \in 0..minted
        /\ task[h].pc \in {"mail", "stage", "matchReset", "password", "used"} =>
             task[h].code # None
        /\ task[h].pc \in {"byEmail", "link", "make"} => task[h].sub \in Subs
        /\ task[h].pc = "create" => task[h].data # None
    BY DEF CodesInv, TypeOK, Remembers, At
  <1>5. task[h].pc = "create" => task[h].data \in Codes
    BY <1>1, <1>4 DEF Codes, None
  <1>6. /\ task[h].pc \in Verified => logins = 0
        /\ task[h].pc \in Resetting => user \in Codes
    BY DEF CodesInv, OneVerification, OnlyWithPassword
  <1>7. task[h].pc \in {"mail", "stage", "matchReset", "password", "used"} =>
          task[h].code \in 1..minted
    BY <1>1, <1>4 DEF None
  <1> QED BY <1>1, <1>2, <1>3, <1>4, <1>5, <1>6, <1>7 DEF Here

\* A request that is about to mint has its code left.
LEMMA RoomToMint ==
    ASSUME CodesInv, NEW h \in Handlers, task[h].pc \in Minting
    PROVE  minted + 1 \in 0..MaxCodes
  <1>1. h \in Minters
    BY DEF Minters
  <1>2. Cardinality(Minters) # 0 /\ Cardinality(Minters) \in Nat
    BY <1>1, MintersFinite, FS_EmptySet
  <1> QED BY <1>2, CodeBounds DEF CodesInv, TypeOK, RoomKept

\* registerUser and resendVerification.
LEMMA RegisterSound ==
    ASSUME CodesInv, NEW h \in Handlers,
           RegisterRead(h) \/ RegisterPending(h) \/ RegisterMint(h)
           \/ RegisterStage(h) \/ ResendRead(h) \/ ResendMint(h)
           \/ Mail(h)
    PROVE  \E s : Sound(h, s)
  <1> USE SubsAreIds DEF Begin, At, redisVars, userVars, Minting, Verified, Resetting, None, Google
  <1>0. Here(h)
    BY HereHolds
  <1>1. CASE RegisterRead(h)
    <2> DEFINE s == Task("pending", None, None)
    <2>1. Become(h, s)
      BY <1>1 DEF RegisterRead
    <2>2. s \in Tasks
      BY <1>0, <1>1, <2>1 DEF RegisterRead, Here, Task, GoogleTask, Idle, Tasks, Labels, Codes
    <2>3. /\ s.pc = "pending"
          /\ s.code = None /\ s.data = None /\ s.sub = None
      BY <1>0, <1>1 DEF RegisterRead, Task, GoogleTask, Idle
    <2> HIDE DEF s
    <2>4. SoundMove(h, s)
      BY <1>0, <1>1, <2>1, <2>2, <2>3 DEF RegisterRead, Here, SoundMove
    <2>5. SoundLocals(s) /\ SoundKeys
      BY <1>0, <1>1, <2>1, <2>3 DEF RegisterRead, Here, SoundLocals, SoundKeys
    <2>6. SoundAccount(h, s)
      BY <1>0, <1>1, <2>1, <2>3 DEF RegisterRead, Here, SoundAccount
    <2> QED BY <2>4, <2>5, <2>6 DEF Sound
  <1>2. CASE RegisterPending(h)
    <2> DEFINE s == IF AlreadyStaged THEN Idle ELSE Task("mint", None, None)
    <2>1. Become(h, s)
      BY <1>2 DEF RegisterPending
    <2>2. s \in Tasks
      BY <1>0, <1>2, <2>1 DEF RegisterPending, AlreadyStaged, Here, Task, GoogleTask, Idle, Tasks, Labels, Codes
    <2>3. /\ s.pc \in {"idle", "mint"}
          /\ s.code = None /\ s.data = None /\ s.sub = None
      BY <1>0, <1>2 DEF RegisterPending, AlreadyStaged, Task, GoogleTask, Idle
    <2> HIDE DEF s
    <2>4. SoundMove(h, s)
      BY <1>0, <1>2, <2>1, <2>2, <2>3 DEF RegisterPending, Here, SoundMove
    <2>5. SoundLocals(s) /\ SoundKeys
      BY <1>0, <1>2, <2>1, <2>3 DEF RegisterPending, AlreadyStaged, Here, SoundLocals, SoundKeys
    <2>6. SoundAccount(h, s)
      BY <1>0, <1>2, <2>1, <2>3 DEF RegisterPending, AlreadyStaged, Here, SoundAccount
    <2> QED BY <2>4, <2>5, <2>6 DEF Sound
  <1>3. CASE RegisterMint(h)
    <2> DEFINE s == Task("stage", minted + 1, minted + 1)
    <2>1. Become(h, s)
      BY <1>3 DEF RegisterMint
    <2>2. minted + 1 \in 0..MaxCodes
      BY <1>3, RoomToMint DEF RegisterMint
    <2>3. s \in Tasks
      BY <1>0, <1>3, <2>1, <2>2 DEF RegisterMint, Here, Task, GoogleTask, Idle, Tasks, Labels, Codes
    <2>4. /\ s.pc = "stage"
          /\ s.code = minted + 1 /\ s.data = minted + 1 /\ s.sub = None
      BY <1>0, <1>3 DEF RegisterMint, Task, GoogleTask, Idle
    <2> HIDE DEF s
    <2>5. SoundMove(h, s)
      BY <1>0, <1>3, <2>1, <2>3, <2>4 DEF RegisterMint, Here, SoundMove
    <2>6. SoundLocals(s) /\ SoundKeys
      BY <1>0, <1>3, <2>1, <2>4, <2>2 DEF RegisterMint, Here, SoundLocals, SoundKeys
    <2>7. SoundAccount(h, s)
      BY <1>0, <1>3, <2>1, <2>4, <2>2 DEF RegisterMint, Here, SoundAccount
    <2> QED BY <2>5, <2>6, <2>7 DEF Sound
  <1>4. CASE RegisterStage(h)
    <2> DEFINE s == Task("mail", task[h].code, None)
    <2>1. Become(h, s)
      BY <1>4 DEF RegisterStage
    <2>2. s \in Tasks
      BY <1>0, <1>4, <2>1 DEF RegisterStage, Here, Task, GoogleTask, Idle, Tasks, Labels, Codes
    <2>3. /\ s.pc = "mail"
          /\ s.code = task[h].code /\ s.data = None /\ s.sub = None
      BY <1>0, <1>4 DEF RegisterStage, Task, GoogleTask, Idle
    <2> HIDE DEF s
    <2>4. SoundMove(h, s)
      BY <1>0, <1>4, <2>1, <2>2, <2>3 DEF RegisterStage, Here, SoundMove
    <2>5. SoundLocals(s) /\ SoundKeys
      BY <1>0, <1>4, <2>1, <2>3 DEF RegisterStage, Here, SoundLocals, SoundKeys
    <2>6. SoundAccount(h, s)
      BY <1>0, <1>4, <2>1, <2>3 DEF RegisterStage, Here, SoundAccount
    <2> QED BY <2>4, <2>5, <2>6 DEF Sound
  <1>5. CASE ResendRead(h)
    <2> DEFINE s == Task("remint", None, None)
    <2>1. Become(h, s)
      BY <1>5 DEF ResendRead
    <2>2. s \in Tasks
      BY <1>0, <1>5, <2>1 DEF ResendRead, Here, Task, GoogleTask, Idle, Tasks, Labels, Codes
    <2>3. /\ s.pc = "remint"
          /\ s.code = None /\ s.data = None /\ s.sub = None
      BY <1>0, <1>5 DEF ResendRead, Task, GoogleTask, Idle
    <2> HIDE DEF s
    <2>4. SoundMove(h, s)
      BY <1>0, <1>5, <2>1, <2>2, <2>3 DEF ResendRead, Here, SoundMove
    <2>5. SoundLocals(s) /\ SoundKeys
      BY <1>0, <1>5, <2>1, <2>3 DEF ResendRead, Here, SoundLocals, SoundKeys
    <2>6. SoundAccount(h, s)
      BY <1>0, <1>5, <2>1, <2>3 DEF ResendRead, Here, SoundAccount
    <2> QED BY <2>4, <2>5, <2>6 DEF Sound
  <1>6. CASE ResendMint(h)
    <2> DEFINE s == Task("mail", minted + 1, None)
    <2>1. Become(h, s)
      BY <1>6 DEF ResendMint
    <2>2. minted + 1 \in 0..MaxCodes
      BY <1>6, RoomToMint DEF ResendMint
    <2>3. s \in Tasks
      BY <1>0, <1>6, <2>1, <2>2 DEF ResendMint, Here, Task, GoogleTask, Idle, Tasks, Labels, Codes
    <2>4. /\ s.pc = "mail"
          /\ s.code = minted + 1 /\ s.data = None /\ s.sub = None
      BY <1>0, <1>6 DEF ResendMint, Task, GoogleTask, Idle
    <2> HIDE DEF s
    <2>5. SoundMove(h, s)
      BY <1>0, <1>6, <2>1, <2>3, <2>4 DEF ResendMint, Here, SoundMove
    <2>6. SoundLocals(s) /\ SoundKeys
      BY <1>0, <1>6, <2>1, <2>4, <2>2 DEF ResendMint, Here, SoundLocals, SoundKeys
    <2>7. SoundAccount(h, s)
      BY <1>0, <1>6, <2>1, <2>4, <2>2 DEF ResendMint, Here, SoundAccount
    <2> QED BY <2>5, <2>6, <2>7 DEF Sound
  <1>7. CASE Mail(h)
    <2> DEFINE s == Idle
    <2>1. Become(h, s)
      BY <1>7 DEF Mail
    <2>2. s \in Tasks
      BY <1>0, <1>7, <2>1 DEF Mail, Here, Task, GoogleTask, Idle, Tasks, Labels, Codes
    <2>3. /\ s.pc = "idle"
          /\ s.code = None /\ s.data = None /\ s.sub = None
      BY <1>0, <1>7 DEF Mail, Task, GoogleTask, Idle
    <2> HIDE DEF s
    <2>4. SoundMove(h, s)
      BY <1>0, <1>7, <2>1, <2>2, <2>3 DEF Mail, Here, SoundMove
    <2>5. SoundLocals(s) /\ SoundKeys
      <3>1. task[h].code \in 1..minted
        BY <1>0, <1>7 DEF Mail, Here
      <3>2. mailed' = mailed \cup {task[h].code} /\ mailed' \subseteq 1..minted
        BY <1>0, <1>7, <3>1 DEF Mail, Here
      <3>3. SoundLocals(s)
        BY <1>0, <1>7, <2>3 DEF Mail, Here, SoundLocals
      <3>4. SoundKeys
        BY <1>0, <1>7, <3>2 DEF Mail, Here, SoundKeys
      <3> QED BY <3>3, <3>4
    <2>6. SoundAccount(h, s)
      BY <1>0, <1>7, <2>1, <2>3 DEF Mail, Here, SoundAccount
    <2> QED BY <2>4, <2>5, <2>6 DEF Sound
  <1> QED BY <1>1, <1>2, <1>3, <1>4, <1>5, <1>6, <1>7

\* verifyEmail.
LEMMA VerifySound ==
    ASSUME CodesInv, NEW h \in Handlers,
           VerifyRead(h) \/ VerifyMatch(h) \/ VerifyConsume(h)
           \/ VerifyPayload(h) \/ VerifyCreate(h) \/ VerifyDuplicate(h)
           \/ VerifyClear(h) \/ VerifyLogin(h)
    PROVE  \E s : Sound(h, s)
  <1> USE SubsAreIds DEF Begin, At, redisVars, userVars, Minting, Verified, Resetting, None, Google
  <1>0. Here(h)
    BY HereHolds
  <1>1. CASE VerifyRead(h)
    <2>0. PICK c \in mailed : Become(h, Task("match", c, None))
      BY <1>1 DEF VerifyRead
    <2> DEFINE s == Task("match", c, None)
    <2>1. Become(h, s)
      BY <2>0
    <2>2. s \in Tasks
      BY <1>0, <1>1, <2>1 DEF VerifyRead, Here, Task, GoogleTask, Idle, Tasks, Labels, Codes
    <2>3. /\ s.pc = "match"
          /\ s.code = c /\ s.data = None /\ s.sub = None
      BY <1>0, <1>1 DEF VerifyRead, Task, GoogleTask, Idle
    <2> HIDE DEF s
    <2>4. SoundMove(h, s)
      BY <1>0, <1>1, <2>1, <2>2, <2>3 DEF VerifyRead, Here, SoundMove
    <2>5. SoundLocals(s) /\ SoundKeys
      BY <1>0, <1>1, <2>1, <2>3 DEF VerifyRead, Here, SoundLocals, SoundKeys
    <2>6. SoundAccount(h, s)
      BY <1>0, <1>1, <2>1, <2>3 DEF VerifyRead, Here, SoundAccount
    <2> QED BY <2>4, <2>5, <2>6 DEF Sound
  <1>2. CASE VerifyMatch(h)
    <2> DEFINE s == IF registerOtp = task[h].code THEN Task("consume", task[h].code, None) ELSE Idle
    <2>1. Become(h, s)
      BY <1>2 DEF VerifyMatch
    <2>2. s \in Tasks
      BY <1>0, <1>2, <2>1 DEF VerifyMatch, Here, Task, GoogleTask, Idle, Tasks, Labels, Codes
    <2>3. /\ s.pc \in {"consume", "idle"}
          /\ s.code \in {task[h].code, None} /\ s.data = None /\ s.sub = None
      BY <1>0, <1>2 DEF VerifyMatch, Task, GoogleTask, Idle
    <2> HIDE DEF s
    <2>4. SoundMove(h, s)
      BY <1>0, <1>2, <2>1, <2>2, <2>3 DEF VerifyMatch, Here, SoundMove
    <2>5. SoundLocals(s) /\ SoundKeys
      BY <1>0, <1>2, <2>1, <2>3 DEF VerifyMatch, Here, SoundLocals, SoundKeys
    <2>6. SoundAccount(h, s)
      BY <1>0, <1>2, <2>1, <2>3 DEF VerifyMatch, Here, SoundAccount
    <2> QED BY <2>4, <2>5, <2>6 DEF Sound
  <1>3. CASE VerifyConsume(h)
    <2> DEFINE s == Task("payload", task[h].code, None)
    <2>1. Become(h, s)
      BY <1>3 DEF VerifyConsume
    <2>2. s \in Tasks
      BY <1>0, <1>3, <2>1 DEF VerifyConsume, Here, Task, GoogleTask, Idle, Tasks, Labels, Codes
    <2>3. /\ s.pc = "payload"
          /\ s.code = task[h].code /\ s.data = None /\ s.sub = None
      BY <1>0, <1>3 DEF VerifyConsume, Task, GoogleTask, Idle
    <2> HIDE DEF s
    <2>4. SoundMove(h, s)
      BY <1>0, <1>3, <2>1, <2>2, <2>3 DEF VerifyConsume, Here, SoundMove
    <2>5. SoundLocals(s) /\ SoundKeys
      BY <1>0, <1>3, <2>1, <2>3 DEF VerifyConsume, Here, SoundLocals, SoundKeys
    <2>6. SoundAccount(h, s)
      BY <1>0, <1>3, <2>1, <2>3 DEF VerifyConsume, Here, SoundAccount
    <2> QED BY <2>4, <2>5, <2>6 DEF Sound
  <1>4. CASE VerifyPayload(h)
    <2> DEFINE s == IF PayloadMissing THEN Idle ELSE Task("create", task[h].code, staged)
    <2>1. Become(h, s)
      BY <1>4 DEF VerifyPayload
    <2>2. s \in Tasks
      BY <1>0, <1>4, <2>1 DEF VerifyPayload, PayloadMissing, Here, Task, GoogleTask, Idle, Tasks, Labels, Codes
    <2>3. /\ s.pc \in {"create", "idle"} /\ (s.pc = "create" => s.data # None)
          /\ s.code \in {task[h].code, None} /\ s.data \in {staged, None} /\ s.sub = None
      BY <1>0, <1>4 DEF VerifyPayload, PayloadMissing, Task, GoogleTask, Idle
    <2> HIDE DEF s
    <2>4. SoundMove(h, s)
      BY <1>0, <1>4, <2>1, <2>2, <2>3 DEF VerifyPayload, Here, SoundMove
    <2>5. SoundLocals(s) /\ SoundKeys
      BY <1>0, <1>4, <2>1, <2>3 DEF VerifyPayload, PayloadMissing, Here, SoundLocals, SoundKeys
    <2>6. SoundAccount(h, s)
      BY <1>0, <1>4, <2>1, <2>3 DEF VerifyPayload, PayloadMissing, Here, SoundAccount
    <2> QED BY <2>4, <2>5, <2>6 DEF Sound
  <1>5. CASE VerifyCreate(h)
    <2> DEFINE s == Task("clear", task[h].code, None)
    <2>1. Become(h, s)
      BY <1>5 DEF VerifyCreate
    <2>2. s \in Tasks
      BY <1>0, <1>5, <2>1 DEF VerifyCreate, MayCreate, Here, Task, GoogleTask, Idle, Tasks, Labels, Codes
    <2>3. /\ s.pc = "clear"
          /\ s.code = task[h].code /\ s.data = None /\ s.sub = None
      BY <1>0, <1>5 DEF VerifyCreate, MayCreate, Task, GoogleTask, Idle
    <2> HIDE DEF s
    <2>4. SoundMove(h, s)
      BY <1>0, <1>5, <2>1, <2>2, <2>3 DEF VerifyCreate, Here, SoundMove
    <2>5. SoundLocals(s) /\ SoundKeys
      BY <1>0, <1>5, <2>1, <2>3 DEF VerifyCreate, MayCreate, Here, SoundLocals, SoundKeys
    <2>6. SoundAccount(h, s)
      BY <1>0, <1>5, <2>1, <2>3 DEF VerifyCreate, MayCreate, Here, SoundAccount
    <2> QED BY <2>4, <2>5, <2>6 DEF Sound
  <1>6. CASE VerifyDuplicate(h)
    <2> DEFINE s == Idle
    <2>1. Become(h, s)
      BY <1>6 DEF VerifyDuplicate
    <2>2. s \in Tasks
      BY <1>0, <1>6, <2>1 DEF VerifyDuplicate, Here, Task, GoogleTask, Idle, Tasks, Labels, Codes
    <2>3. /\ s.pc = "idle"
          /\ s.code = None /\ s.data = None /\ s.sub = None
      BY <1>0, <1>6 DEF VerifyDuplicate, Task, GoogleTask, Idle
    <2> HIDE DEF s
    <2>4. SoundMove(h, s)
      BY <1>0, <1>6, <2>1, <2>2, <2>3 DEF VerifyDuplicate, Here, SoundMove
    <2>5. SoundLocals(s) /\ SoundKeys
      BY <1>0, <1>6, <2>1, <2>3 DEF VerifyDuplicate, Here, SoundLocals, SoundKeys
    <2>6. SoundAccount(h, s)
      BY <1>0, <1>6, <2>1, <2>3 DEF VerifyDuplicate, Here, SoundAccount
    <2> QED BY <2>4, <2>5, <2>6 DEF Sound
  <1>7. CASE VerifyClear(h)
    <2> DEFINE s == Task("login", task[h].code, None)
    <2>1. Become(h, s)
      BY <1>7 DEF VerifyClear
    <2>2. s \in Tasks
      BY <1>0, <1>7, <2>1 DEF VerifyClear, Here, Task, GoogleTask, Idle, Tasks, Labels, Codes
    <2>3. /\ s.pc = "login"
          /\ s.code = task[h].code /\ s.data = None /\ s.sub = None
      BY <1>0, <1>7 DEF VerifyClear, Task, GoogleTask, Idle
    <2> HIDE DEF s
    <2>4. SoundMove(h, s)
      BY <1>0, <1>7, <2>1, <2>2, <2>3 DEF VerifyClear, Here, SoundMove
    <2>5. SoundLocals(s) /\ SoundKeys
      BY <1>0, <1>7, <2>1, <2>3 DEF VerifyClear, Here, SoundLocals, SoundKeys
    <2>6. SoundAccount(h, s)
      BY <1>0, <1>7, <2>1, <2>3 DEF VerifyClear, Here, SoundAccount
    <2> QED BY <2>4, <2>5, <2>6 DEF Sound
  <1>8. CASE VerifyLogin(h)
    <2> DEFINE s == Idle
    <2>1. Become(h, s)
      BY <1>8 DEF VerifyLogin
    <2>2. s \in Tasks
      BY <1>0, <1>8, <2>1 DEF VerifyLogin, Here, Task, GoogleTask, Idle, Tasks, Labels, Codes
    <2>3. /\ s.pc = "idle"
          /\ s.code = None /\ s.data = None /\ s.sub = None
      BY <1>0, <1>8 DEF VerifyLogin, Task, GoogleTask, Idle
    <2> HIDE DEF s
    <2>4. SoundMove(h, s)
      BY <1>0, <1>8, <2>1, <2>2, <2>3 DEF VerifyLogin, Here, SoundMove
    <2>5. SoundLocals(s) /\ SoundKeys
      BY <1>0, <1>8, <2>1, <2>3 DEF VerifyLogin, Here, SoundLocals, SoundKeys
    <2>6. SoundAccount(h, s)
      BY <1>0, <1>8, <2>1, <2>3 DEF VerifyLogin, Here, SoundAccount
    <2> QED BY <2>4, <2>5, <2>6 DEF Sound
  <1> QED BY <1>1, <1>2, <1>3, <1>4, <1>5, <1>6, <1>7, <1>8

\* forgotPassword, resetPassword and a crash.
LEMMA ResetSound ==
    ASSUME CodesInv, NEW h \in Handlers,
           ForgotRead(h) \/ ForgotMint(h) \/ ResetRead(h)
           \/ ResetMatch(h) \/ ResetPassword(h) \/ ResetUsed(h)
           \/ Crash(h)
    PROVE  \E s : Sound(h, s)
  <1> USE SubsAreIds DEF Begin, At, redisVars, userVars, Minting, Verified, Resetting, None, Google
  <1>0. Here(h)
    BY HereHolds
  <1>1. CASE ForgotRead(h)
    <2> DEFINE s == Task("mintReset", None, None)
    <2>1. Become(h, s)
      BY <1>1 DEF ForgotRead
    <2>2. s \in Tasks
      BY <1>0, <1>1, <2>1 DEF ForgotRead, HasPassword, Here, Task, GoogleTask, Idle, Tasks, Labels, Codes
    <2>3. /\ s.pc = "mintReset"
          /\ s.code = None /\ s.data = None /\ s.sub = None
      BY <1>0, <1>1 DEF ForgotRead, HasPassword, Task, GoogleTask, Idle
    <2> HIDE DEF s
    <2>4. SoundMove(h, s)
      BY <1>0, <1>1, <2>1, <2>2, <2>3 DEF ForgotRead, Here, SoundMove
    <2>5. SoundLocals(s) /\ SoundKeys
      BY <1>0, <1>1, <2>1, <2>3 DEF ForgotRead, HasPassword, Here, SoundLocals, SoundKeys
    <2>6. SoundAccount(h, s)
      BY <1>0, <1>1, <2>1, <2>3 DEF ForgotRead, HasPassword, Here, SoundAccount
    <2> QED BY <2>4, <2>5, <2>6 DEF Sound
  <1>2. CASE ForgotMint(h)
    <2> DEFINE s == Task("mail", minted + 1, None)
    <2>1. Become(h, s)
      BY <1>2 DEF ForgotMint
    <2>2. minted + 1 \in 0..MaxCodes
      BY <1>2, RoomToMint DEF ForgotMint
    <2>3. s \in Tasks
      BY <1>0, <1>2, <2>1, <2>2 DEF ForgotMint, Here, Task, GoogleTask, Idle, Tasks, Labels, Codes
    <2>4. /\ s.pc = "mail"
          /\ s.code = minted + 1 /\ s.data = None /\ s.sub = None
      BY <1>0, <1>2 DEF ForgotMint, Task, GoogleTask, Idle
    <2> HIDE DEF s
    <2>5. SoundMove(h, s)
      BY <1>0, <1>2, <2>1, <2>3, <2>4 DEF ForgotMint, Here, SoundMove
    <2>6. SoundLocals(s) /\ SoundKeys
      BY <1>0, <1>2, <2>1, <2>4, <2>2 DEF ForgotMint, Here, SoundLocals, SoundKeys
    <2>7. SoundAccount(h, s)
      BY <1>0, <1>2, <2>1, <2>4, <2>2 DEF ForgotMint, Here, SoundAccount
    <2> QED BY <2>5, <2>6, <2>7 DEF Sound
  <1>3. CASE ResetRead(h)
    <2>0. PICK c \in mailed : Become(h, Task("matchReset", c, None))
      BY <1>3 DEF ResetRead
    <2> DEFINE s == Task("matchReset", c, None)
    <2>1. Become(h, s)
      BY <2>0
    <2>2. s \in Tasks
      BY <1>0, <1>3, <2>1 DEF ResetRead, HasPassword, Here, Task, GoogleTask, Idle, Tasks, Labels, Codes
    <2>3. /\ s.pc = "matchReset"
          /\ s.code = c /\ s.data = None /\ s.sub = None
      BY <1>0, <1>3 DEF ResetRead, HasPassword, Task, GoogleTask, Idle
    <2> HIDE DEF s
    <2>4. SoundMove(h, s)
      BY <1>0, <1>3, <2>1, <2>2, <2>3 DEF ResetRead, Here, SoundMove
    <2>5. SoundLocals(s) /\ SoundKeys
      BY <1>0, <1>3, <2>1, <2>3 DEF ResetRead, HasPassword, Here, SoundLocals, SoundKeys
    <2>6. SoundAccount(h, s)
      BY <1>0, <1>3, <2>1, <2>3 DEF ResetRead, HasPassword, Here, SoundAccount
    <2> QED BY <2>4, <2>5, <2>6 DEF Sound
  <1>4. CASE ResetMatch(h)
    <2> DEFINE s == IF resetOtp = task[h].code THEN Task("password", task[h].code, None) ELSE Idle
    <2>1. Become(h, s)
      BY <1>4 DEF ResetMatch
    <2>2. s \in Tasks
      BY <1>0, <1>4, <2>1 DEF ResetMatch, Here, Task, GoogleTask, Idle, Tasks, Labels, Codes
    <2>3. /\ s.pc \in {"password", "idle"} /\ (s.pc = "password" => s.code = task[h].code)
          /\ s.code \in {task[h].code, None} /\ s.data = None /\ s.sub = None
      BY <1>0, <1>4 DEF ResetMatch, Task, GoogleTask, Idle
    <2> HIDE DEF s
    <2>4. SoundMove(h, s)
      BY <1>0, <1>4, <2>1, <2>2, <2>3 DEF ResetMatch, Here, SoundMove
    <2>5. SoundLocals(s) /\ SoundKeys
      BY <1>0, <1>4, <2>1, <2>3 DEF ResetMatch, Here, SoundLocals, SoundKeys
    <2>6. SoundAccount(h, s)
      BY <1>0, <1>4, <2>1, <2>3 DEF ResetMatch, Here, SoundAccount
    <2> QED BY <2>4, <2>5, <2>6 DEF Sound
  <1>5. CASE ResetPassword(h)
    <2> DEFINE s == Task("used", task[h].code, None)
    <2>1. Become(h, s)
      BY <1>5 DEF ResetPassword
    <2>2. s \in Tasks
      BY <1>0, <1>5, <2>1 DEF ResetPassword, Here, Task, GoogleTask, Idle, Tasks, Labels, Codes
    <2>3. /\ s.pc = "used"
          /\ s.code = task[h].code /\ s.data = None /\ s.sub = None
      BY <1>0, <1>5 DEF ResetPassword, Task, GoogleTask, Idle
    <2> HIDE DEF s
    <2>4. SoundMove(h, s)
      BY <1>0, <1>5, <2>1, <2>2, <2>3 DEF ResetPassword, Here, SoundMove
    <2>5. SoundLocals(s) /\ SoundKeys
      BY <1>0, <1>5, <2>1, <2>3 DEF ResetPassword, Here, SoundLocals, SoundKeys
    <2>6. SoundAccount(h, s)
      <3>1. resets' \in [Codes -> 0..2]
        <4>1. \A c \in Codes : (IF resets[c] < 2 THEN resets[c] + 1 ELSE 2) \in 0..2
          BY <1>0 DEF Here
        <4>2. resets' = [resets EXCEPT ![task[h].code] = IF @ < 2 THEN @ + 1 ELSE 2]
          BY <1>5 DEF ResetPassword
        <4>3. resets \in [Codes -> 0..2]
          BY <1>0 DEF Here
        <4> QED BY <4>1, <4>2, <4>3
      <3>2. \A c \in Codes : resets'[c] > 0 => resets[c] > 0 \/ task[h].pc = "password"
        BY <1>5 DEF ResetPassword
      <3> QED
        BY <1>0, <1>5, <2>1, <2>3, <3>1, <3>2 DEF ResetPassword, Here, SoundAccount
    <2> QED BY <2>4, <2>5, <2>6 DEF Sound
  <1>6. CASE ResetUsed(h)
    <2> DEFINE s == Idle
    <2>1. Become(h, s)
      BY <1>6 DEF ResetUsed
    <2>2. s \in Tasks
      BY <1>0, <1>6, <2>1 DEF ResetUsed, Deleted, Here, Task, GoogleTask, Idle, Tasks, Labels, Codes
    <2>3. /\ s.pc = "idle"
          /\ s.code = None /\ s.data = None /\ s.sub = None
      BY <1>0, <1>6 DEF ResetUsed, Deleted, Task, GoogleTask, Idle
    <2> HIDE DEF s
    <2>4. SoundMove(h, s)
      BY <1>0, <1>6, <2>1, <2>2, <2>3 DEF ResetUsed, Here, SoundMove
    <2>5. SoundLocals(s) /\ SoundKeys
      <3>1. task[h].code \in 1..minted
        BY <1>0, <1>6 DEF ResetUsed, Deleted, Here
      <3>2. answered' = answered \cup {task[h].code} /\ answered' \subseteq 1..minted
        BY <1>0, <1>6, <3>1 DEF ResetUsed, Deleted, Here
      <3>3. SoundLocals(s)
        BY <1>0, <1>6, <2>3 DEF ResetUsed, Deleted, Here, SoundLocals
      <3>4. SoundKeys
        BY <1>0, <1>6, <3>2 DEF ResetUsed, Deleted, Here, SoundKeys
      <3> QED BY <3>3, <3>4
    <2>6. SoundAccount(h, s)
      BY <1>0, <1>6, <2>1, <2>3 DEF ResetUsed, Deleted, Here, SoundAccount
    <2> QED BY <2>4, <2>5, <2>6 DEF Sound
  <1>7. CASE Crash(h)
    <2> DEFINE s == Idle
    <2>1. Become(h, s)
      BY <1>7 DEF Crash
    <2>2. s \in Tasks
      BY <1>0, <1>7, <2>1 DEF Crash, Here, Task, GoogleTask, Idle, Tasks, Labels, Codes
    <2>3. /\ s.pc = "idle"
          /\ s.code = None /\ s.data = None /\ s.sub = None
      BY <1>0, <1>7 DEF Crash, Task, GoogleTask, Idle
    <2> HIDE DEF s
    <2>4. SoundMove(h, s)
      BY <1>0, <1>7, <2>1, <2>2, <2>3 DEF Crash, Here, SoundMove
    <2>5. SoundLocals(s) /\ SoundKeys
      BY <1>0, <1>7, <2>1, <2>3 DEF Crash, Here, SoundLocals, SoundKeys
    <2>6. SoundAccount(h, s)
      BY <1>0, <1>7, <2>1, <2>3 DEF Crash, Here, SoundAccount
    <2> QED BY <2>4, <2>5, <2>6 DEF Sound
  <1> QED BY <1>1, <1>2, <1>3, <1>4, <1>5, <1>6, <1>7

\* googleLogin.
LEMMA GoogleSound ==
    ASSUME CodesInv, NEW h \in Handlers,
           GoogleRead(h) \/ GoogleByEmail(h) \/ GoogleLink(h)
           \/ GoogleMake(h) \/ GoogleDuplicate(h) \/ GoogleEnter(h)
    PROVE  \E s : Sound(h, s)
  <1> USE SubsAreIds DEF Begin, At, redisVars, userVars, Minting, Verified, Resetting, None, Google
  <1>0. Here(h)
    BY HereHolds
  <1>1. CASE GoogleRead(h)
    <2>0. PICK sub \in Subs : Become(h, GoogleTask(IF linked = sub THEN "enter" ELSE "byEmail", sub))
      BY <1>1 DEF GoogleRead
    <2> DEFINE s == GoogleTask(IF linked = sub THEN "enter" ELSE "byEmail", sub)
    <2>1. Become(h, s)
      BY <2>0
    <2>2. s \in Tasks
      BY <1>0, <1>1, <2>1 DEF GoogleRead, Here, Task, GoogleTask, Idle, Tasks, Labels, Codes
    <2>3. /\ s.pc \in {"enter", "byEmail"}
          /\ s.code = None /\ s.data = None /\ s.sub = sub
      BY <1>0, <1>1 DEF GoogleRead, Task, GoogleTask, Idle
    <2> HIDE DEF s
    <2>4. SoundMove(h, s)
      BY <1>0, <1>1, <2>1, <2>2, <2>3 DEF GoogleRead, Here, SoundMove
    <2>5. SoundLocals(s) /\ SoundKeys
      BY <1>0, <1>1, <2>1, <2>3 DEF GoogleRead, Here, SoundLocals, SoundKeys
    <2>6. SoundAccount(h, s)
      BY <1>0, <1>1, <2>1, <2>3 DEF GoogleRead, Here, SoundAccount
    <2> QED BY <2>4, <2>5, <2>6 DEF Sound
  <1>2. CASE GoogleByEmail(h)
    <2> DEFINE s == IF user = None THEN GoogleTask("make", task[h].sub)
                    ELSE IF linked \in {None, task[h].sub} THEN GoogleTask("link", task[h].sub)
                    ELSE Idle
    <2>1. Become(h, s)
      BY <1>2 DEF GoogleByEmail
    <2>2. s \in Tasks
      BY <1>0, <1>2, <2>1 DEF GoogleByEmail, Here, Task, GoogleTask, Idle, Tasks, Labels, Codes
    <2>3. /\ s.pc \in {"make", "link", "idle"} /\ (s.pc # "idle" => s.sub = task[h].sub)
          /\ s.code = None /\ s.data = None /\ s.sub \in {task[h].sub, None}
      BY <1>0, <1>2 DEF GoogleByEmail, Task, GoogleTask, Idle
    <2> HIDE DEF s
    <2>4. SoundMove(h, s)
      BY <1>0, <1>2, <2>1, <2>2, <2>3 DEF GoogleByEmail, Here, SoundMove
    <2>5. SoundLocals(s) /\ SoundKeys
      BY <1>0, <1>2, <2>1, <2>3 DEF GoogleByEmail, Here, SoundLocals, SoundKeys
    <2>6. SoundAccount(h, s)
      BY <1>0, <1>2, <2>1, <2>3 DEF GoogleByEmail, Here, SoundAccount
    <2> QED BY <2>4, <2>5, <2>6 DEF Sound
  <1>3. CASE GoogleLink(h)
    <2> DEFINE s == GoogleTask("enter", task[h].sub)
    <2>1. Become(h, s)
      BY <1>3 DEF GoogleLink
    <2>2. s \in Tasks
      BY <1>0, <1>3, <2>1 DEF GoogleLink, Here, Task, GoogleTask, Idle, Tasks, Labels, Codes
    <2>3. /\ s.pc = "enter"
          /\ s.code = None /\ s.data = None /\ s.sub = task[h].sub
      BY <1>0, <1>3 DEF GoogleLink, Task, GoogleTask, Idle
    <2> HIDE DEF s
    <2>4. SoundMove(h, s)
      BY <1>0, <1>3, <2>1, <2>2, <2>3 DEF GoogleLink, Here, SoundMove
    <2>5. SoundLocals(s) /\ SoundKeys
      BY <1>0, <1>3, <2>1, <2>3 DEF GoogleLink, Here, SoundLocals, SoundKeys
    <2>6. SoundAccount(h, s)
      BY <1>0, <1>3, <2>1, <2>3 DEF GoogleLink, Here, SoundAccount
    <2> QED BY <2>4, <2>5, <2>6 DEF Sound
  <1>4. CASE GoogleMake(h)
    <2> DEFINE s == GoogleTask("enter", task[h].sub)
    <2>1. Become(h, s)
      BY <1>4 DEF GoogleMake
    <2>2. s \in Tasks
      BY <1>0, <1>4, <2>1 DEF GoogleMake, MayCreate, Here, Task, GoogleTask, Idle, Tasks, Labels, Codes
    <2>3. /\ s.pc = "enter"
          /\ s.code = None /\ s.data = None /\ s.sub = task[h].sub
      BY <1>0, <1>4 DEF GoogleMake, MayCreate, Task, GoogleTask, Idle
    <2> HIDE DEF s
    <2>4. SoundMove(h, s)
      BY <1>0, <1>4, <2>1, <2>2, <2>3 DEF GoogleMake, Here, SoundMove
    <2>5. SoundLocals(s) /\ SoundKeys
      BY <1>0, <1>4, <2>1, <2>3 DEF GoogleMake, MayCreate, Here, SoundLocals, SoundKeys
    <2>6. SoundAccount(h, s)
      BY <1>0, <1>4, <2>1, <2>3 DEF GoogleMake, MayCreate, Here, SoundAccount
    <2> QED BY <2>4, <2>5, <2>6 DEF Sound
  <1>5. CASE GoogleDuplicate(h)
    <2> DEFINE s == Idle
    <2>1. Become(h, s)
      BY <1>5 DEF GoogleDuplicate
    <2>2. s \in Tasks
      BY <1>0, <1>5, <2>1 DEF GoogleDuplicate, Here, Task, GoogleTask, Idle, Tasks, Labels, Codes
    <2>3. /\ s.pc = "idle"
          /\ s.code = None /\ s.data = None /\ s.sub = None
      BY <1>0, <1>5 DEF GoogleDuplicate, Task, GoogleTask, Idle
    <2> HIDE DEF s
    <2>4. SoundMove(h, s)
      BY <1>0, <1>5, <2>1, <2>2, <2>3 DEF GoogleDuplicate, Here, SoundMove
    <2>5. SoundLocals(s) /\ SoundKeys
      BY <1>0, <1>5, <2>1, <2>3 DEF GoogleDuplicate, Here, SoundLocals, SoundKeys
    <2>6. SoundAccount(h, s)
      BY <1>0, <1>5, <2>1, <2>3 DEF GoogleDuplicate, Here, SoundAccount
    <2> QED BY <2>4, <2>5, <2>6 DEF Sound
  <1>6. CASE GoogleEnter(h)
    <2> DEFINE s == Idle
    <2>1. Become(h, s)
      BY <1>6 DEF GoogleEnter
    <2>2. s \in Tasks
      BY <1>0, <1>6, <2>1 DEF GoogleEnter, Here, Task, GoogleTask, Idle, Tasks, Labels, Codes
    <2>3. /\ s.pc = "idle"
          /\ s.code = None /\ s.data = None /\ s.sub = None
      BY <1>0, <1>6 DEF GoogleEnter, Task, GoogleTask, Idle
    <2> HIDE DEF s
    <2>4. SoundMove(h, s)
      BY <1>0, <1>6, <2>1, <2>2, <2>3 DEF GoogleEnter, Here, SoundMove
    <2>5. SoundLocals(s) /\ SoundKeys
      BY <1>0, <1>6, <2>1, <2>3 DEF GoogleEnter, Here, SoundLocals, SoundKeys
    <2>6. SoundAccount(h, s)
      BY <1>0, <1>6, <2>1, <2>3 DEF GoogleEnter, Here, SoundAccount
    <2> QED BY <2>4, <2>5, <2>6 DEF Sound
  <1> QED BY <1>1, <1>2, <1>3, <1>4, <1>5, <1>6

\* No request, code or account exists at the start.
LEMMA InitKeeps == Init => CodesInv
  <1> SUFFICES ASSUME Init PROVE CodesInv
    OBVIOUS
  <1>1. Idle \in Tasks /\ Idle.pc = "idle" /\ Idle.code = 0 /\ Idle.data = 0
    BY DEF Idle, Task, Tasks, Labels, None
  <1>2. TypeOK
    BY <1>1, CodeBounds DEF Init, TypeOK, At, None, Google
  <1>3. RoomKept
    <2>1. Minters = {}
      BY <1>1 DEF Init, Minters, Minting
    <2> QED BY <2>1, FS_EmptySet, CodeBounds DEF Init, RoomKept
  <1>4. Remembers
    BY <1>1, CodeBounds DEF Init, Remembers, None
  <1>5. OneVerification /\ OnlyWithPassword
    BY <1>1 DEF Init, OneVerification, OnlyWithPassword, GoogleStaysPasswordless,
                Verified, Resetting
  <1>6. AnsweredIsGone
    BY DEF Init, AnsweredIsGone
  <1> QED BY <1>2, <1>3, <1>4, <1>5, <1>6 DEF CodesInv

\* Every step of a request is sound.
LEMMA RequestsAreSound ==
    ASSUME CodesInv, NEW h \in Handlers, Start(h) \/ Step(h) \/ Crash(h)
    PROVE  \E s : Sound(h, s)
  BY RegisterSound, VerifySound, ResetSound, GoogleSound DEF Start, Step

\* A key that runs out, and a step of somebody else, keep the invariant.
LEMMA ExpireKeeps == CodesInv /\ (Expire \/ UNCHANGED vars) => CodesInv'
  <1> SUFFICES ASSUME CodesInv, Expire \/ UNCHANGED vars PROVE CodesInv'
    OBVIOUS
  <1>1. /\ UNCHANGED <<minted, mailed, user, linked, logins, resets, answered, task>>
        /\ registerOtp' \in {registerOtp, None} /\ staged' \in {staged, None}
        /\ resetOtp' \in {resetOtp, None}
    BY DEF Expire, vars, redisVars, userVars
  <1>2. {registerOtp', staged', resetOtp'} \subseteq 0..minted'
    BY <1>1, CodeBounds DEF CodesInv, TypeOK, None
  <1>3. TypeOK'
    BY <1>1, <1>2 DEF CodesInv, TypeOK, At
  <1>4. RoomKept' /\ Remembers'
    BY <1>1 DEF CodesInv, RoomKept, Minters, Remembers
  <1>5. OneVerification' /\ OnlyWithPassword'
    BY <1>1 DEF CodesInv, OneVerification, OnlyWithPassword, GoogleStaysPasswordless
  <1>6. AnsweredIsGone'
    BY <1>1, CodeBounds DEF CodesInv, TypeOK, AnsweredIsGone, None
  <1> QED BY <1>3, <1>4, <1>5, <1>6 DEF CodesInv

\* CodesInv is inductive.
LEMMA CodesInvInductive == CodesInv /\ [Next]_vars => CodesInv'
  <1> SUFFICES ASSUME CodesInv, [Next]_vars PROVE CodesInv'
    OBVIOUS
  <1>1. CASE Expire \/ UNCHANGED vars
    BY <1>1, ExpireKeeps
  <1>2. CASE \E h \in Handlers : Start(h) \/ Step(h) \/ Crash(h)
    <2>1. PICK h \in Handlers : Start(h) \/ Step(h) \/ Crash(h)
      BY <1>2
    <2>2. PICK s : Sound(h, s)
      BY <2>1, RequestsAreSound
    <2> QED BY <2>2, SoundKeeps
  <1> QED BY <1>1, <1>2 DEF Next

\* Codes in flight, the account and the answered codes, for any number of
\* requests: what registerUser, verifyEmail, resetPassword and googleLogin leave
\* however they interleave and wherever they are cut off.
THEOREM CodesInvHolds == Spec => []CodesInv
  BY InitKeeps, CodesInvInductive, PTL DEF Spec

\* TypeOK: keys, columns and locals have values of their kinds, and only codes
\* that were minted are about.
THEOREM CodesTypeSafe == Spec => []TypeOK
  <1>1. CodesInv => TypeOK
    BY DEF CodesInv
  <1> QED BY <1>1, CodesInvHolds, PTL

\* verifyEmail, googleLogin: the address gets one account, made once, and a
\* verification is logged in only to the account it made, for any number of
\* requests, sign-ups and Google identities.
THEOREM OneAccountSafe == Spec => OneAccount
  <1>1. CodesInv /\ [Next]_vars =>
          [/\ user # None => user' = user
           /\ logins' # logins => logins = 0 /\ user \in Codes]_vars
    <2> SUFFICES ASSUME CodesInv, [Next]_vars
                 PROVE  /\ user # None => user' = user
                        /\ logins' # logins => logins = 0 /\ user \in Codes
      OBVIOUS
    <2>1. CASE Expire \/ UNCHANGED vars
      BY <2>1 DEF Expire, vars, userVars
    <2>2. CASE \E h \in Handlers : Start(h) \/ Step(h) \/ Crash(h)
      <3>1. PICK h \in Handlers : Start(h) \/ Step(h) \/ Crash(h)
        BY <2>2
      <3>2. PICK s : Sound(h, s)
        BY <3>1, RequestsAreSound
      <3> QED BY <3>2 DEF Sound, SoundAccount, CodesInv, OneVerification, Verified
    <2> QED BY <2>1, <2>2 DEF Next
  <1> QED BY <1>1, CodesInvHolds, PTL DEF Spec, OneAccount

\* forgotPassword, resetPassword: an account made by Google never gets a
\* password.
THEOREM GoogleStaysPasswordlessSafe == Spec => []GoogleStaysPasswordless
  <1>1. CodesInv => GoogleStaysPasswordless
    BY DEF CodesInv, OnlyWithPassword
  <1> QED BY <1>1, CodesInvHolds, PTL

\* resetPassword: a code whose reset was answered opens no further one.
THEOREM AnsweredCodeIsDeadSafe == Spec => AnsweredCodeIsDead
  <1>1. CodesInv /\ [Next]_vars =>
          [\A h \in Handlers :
             At(h, "matchReset") /\ task'[h].pc = "password" => task[h].code \notin answered]_vars
    <2> SUFFICES ASSUME CodesInv, [Next]_vars, NEW h \in Handlers,
                        At(h, "matchReset"), task'[h].pc = "password"
                 PROVE  task[h].code \notin answered
      OBVIOUS
    <2>1. PICK k \in Handlers : Start(k) \/ Step(k) \/ Crash(k)
      BY DEF Next, Expire, vars, At
    <2>2. PICK s : Sound(k, s)
      BY <2>1, RequestsAreSound
    <2>3. k = h
      BY <2>2, Moved DEF Sound, SoundMove, CodesInv, At
    <2>4. ResetMatch(h) \/ Crash(h)
      BY <2>1, <2>3, Zenon DEF At, Start, Step, Begin, RegisterRead, ResendRead, VerifyRead,
         ForgotRead, ResetRead, GoogleRead, RegisterPending, RegisterMint, RegisterStage,
         ResendMint, VerifyMatch, VerifyConsume, VerifyPayload, VerifyCreate, VerifyDuplicate,
         VerifyClear, VerifyLogin, ForgotMint, ResetPassword, ResetUsed, GoogleByEmail,
         GoogleLink, GoogleMake, GoogleDuplicate, GoogleEnter, Mail
    <2>5. ~Crash(h)
      BY DEF Crash, Become, Idle, Task, CodesInv, TypeOK
    <2>6. resetOtp = task[h].code
      BY <2>4, <2>5 DEF ResetMatch, Become, Idle, Task, CodesInv, TypeOK
    <2> QED BY <2>6 DEF CodesInv, AnsweredIsGone
  <1> QED BY <1>1, CodesInvHolds, PTL DEF Spec, AnsweredCodeIsDead

=============================================================================
