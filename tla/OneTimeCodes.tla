---------------------------- MODULE OneTimeCodes ----------------------------
(***************************************************************************)
(* The account of ONE e-mail address (auth.service.ts): a sign-up staged   *)
(* in Redis until its code is typed back, the code of a password reset,    *)
(* and signing in with Google, which links or makes the account as well.   *)
(* Every Redis command and every query is a step.                          *)
(*                                                                         *)
(* Codes are numbered in the order they are minted; two six-digit codes    *)
(* that happen to be equal are left out.  A sign-up is named by the code   *)
(* it minted.                                                              *)
(***************************************************************************)
EXTENDS Integers, FiniteSets

CONSTANTS
    Handlers,    \* requests the server may be serving at the same time
    MaxCodes,    \* bound on the codes minted
    Subs,        \* Google identities that hold the address
    Ops          \* operations that may be started

OpNames == {"register", "verify", "resend", "forgot", "reset", "google",
            "expire", "crash"}

ASSUME CodeBounds == MaxCodes \in Nat /\ Ops \subseteq OpNames

Codes == 1..MaxCodes
None == 0
Google == -1   \* an account made by signing in with Google

ASSUME RequestsAreFinite == IsFiniteSet(Handlers)
ASSUME SubsAreIds == None \notin Subs

VARIABLES
    minted,      \* number of codes minted
    registerOtp, \* tripverse:register-otp:<email>, a code or None
    staged,      \* tripverse:register-data:<email>, a sign-up or None
    resetOtp,    \* tripverse:forgot-password-otp:<email>, a code or None
    mailed,      \* codes that were sent to the mailbox
    user,        \* the User row: None, Google, or the sign-up it was made from
    linked,      \* User.googleId
    logins,      \* history: verifyEmail requests that issued tokens (up to 2)
    resets,      \* history: password resets done with each code (up to 2)
    answered,    \* history: codes whose reset was answered with success
    task         \* per handler: program counter and locals

redisVars == <<registerOtp, staged, resetOtp>>
userVars == <<user, linked>>
vars == <<minted, registerOtp, staged, resetOtp, mailed, user, linked, logins,
          resets, answered, task>>

Labels == {"idle",
           "pending", "mint", "stage",                      \* registerUser
           "match", "consume", "payload", "create", "clear", "login", \* verifyEmail
           "remint",                                        \* resendVerification
           "mintReset",                                     \* forgotPassword
           "matchReset", "password", "used",                \* resetPassword
           "byEmail", "link", "make", "enter",              \* googleLogin
           "mail"}

\* The code typed in or minted, the sign-up read from Redis, and the identity
\* in the ID token.
Tasks == [pc : Labels, code : Codes \cup {None}, data : Codes \cup {None},
          sub : Subs \cup {None}]

Task(label, code, data) == [pc |-> label, code |-> code, data |-> data, sub |-> None]
GoogleTask(label, sub) == [pc |-> label, code |-> None, data |-> None, sub |-> sub]
Idle == Task("idle", None, None)
At(h, label) == task[h].pc = label
Become(h, t) == task' = [task EXCEPT ![h] = t]
Begin(h, op, t) == At(h, "idle") /\ op \in Ops /\ Become(h, t)

Init ==
    /\ minted = 0
    /\ registerOtp = None /\ staged = None /\ resetOtp = None
    /\ mailed = {}
    /\ user = None /\ linked = None
    /\ logins = 0
    /\ resets = [c \in Codes |-> 0]
    /\ answered = {}
    /\ task = [h \in Handlers |-> Idle]

\* Bound: a request only starts while the code it may mint is left.
RoomForCode ==
    minted + Cardinality({h \in Handlers :
                            task[h].pc \in {"pending", "mint", "remint", "mintReset"}})
        < MaxCodes

\* sendVerificationOtpEmail, sendForgotPasswordOtpEmail: awaited, never throw.
Mail(h) ==
    /\ At(h, "mail")
    /\ mailed' = mailed \cup {task[h].code}
    /\ Become(h, Idle)
    /\ UNCHANGED <<minted, redisVars, userVars, logins, resets, answered>>

-----------------------------------------------------------------------------
(* registerUser.                                                           *)

RegisterRead(h) ==
    /\ user = None
    /\ RoomForCode
    /\ Begin(h, "register", Task("pending", None, None))
    /\ UNCHANGED <<minted, redisVars, mailed, userVars, logins, resets, answered>>

\* "A registration is already staged for this email": 409.
AlreadyStaged == staged # None

RegisterPending(h) ==
    /\ At(h, "pending")
    /\ Become(h, IF AlreadyStaged THEN Idle ELSE Task("mint", None, None))
    /\ UNCHANGED <<minted, redisVars, mailed, userVars, logins, resets, answered>>

RegisterMint(h) ==
    /\ At(h, "mint")
    /\ minted' = minted + 1
    /\ registerOtp' = minted + 1
    /\ Become(h, Task("stage", minted + 1, minted + 1))
    /\ UNCHANGED <<staged, resetOtp, mailed, userVars, logins, resets, answered>>

RegisterStage(h) ==
    /\ At(h, "stage")
    /\ staged' = task[h].data
    /\ Become(h, Task("mail", task[h].code, None))
    /\ UNCHANGED <<minted, registerOtp, resetOtp, mailed, userVars, logins, resets, answered>>

-----------------------------------------------------------------------------
(* resendVerification: a no-op without a staged sign-up.                   *)

ResendRead(h) ==
    /\ staged # None
    /\ RoomForCode
    /\ Begin(h, "resend", Task("remint", None, None))
    /\ UNCHANGED <<minted, redisVars, mailed, userVars, logins, resets, answered>>

ResendMint(h) ==
    /\ At(h, "remint")
    /\ minted' = minted + 1
    /\ registerOtp' = minted + 1
    /\ Become(h, Task("mail", minted + 1, None))
    /\ UNCHANGED <<staged, resetOtp, mailed, userVars, logins, resets, answered>>

-----------------------------------------------------------------------------
(* verifyEmail.                                                            *)

VerifyRead(h) ==
    /\ user = None
    /\ \E c \in mailed : Begin(h, "verify", Task("match", c, None))
    /\ UNCHANGED <<minted, redisVars, mailed, userVars, logins, resets, answered>>

VerifyMatch(h) ==
    /\ At(h, "match")
    /\ Become(h, IF registerOtp = task[h].code
                   THEN Task("consume", task[h].code, None) ELSE Idle)
    /\ UNCHANGED <<minted, redisVars, mailed, userVars, logins, resets, answered>>

\* del: whatever code the key holds by now.
VerifyConsume(h) ==
    /\ At(h, "consume")
    /\ registerOtp' = None
    /\ Become(h, Task("payload", task[h].code, None))
    /\ UNCHANGED <<minted, staged, resetOtp, mailed, userVars, logins, resets, answered>>

\* Mutant: the payload is taken to be there whenever the code was.
PayloadAssumed == FALSE

\* The staged payload may have expired before its code: 400.
PayloadMissing == staged = None

VerifyPayload(h) ==
    /\ At(h, "payload")
    /\ Become(h, IF PayloadMissing THEN Idle ELSE Task("create", task[h].code, staged))
    /\ UNCHANGED <<minted, redisVars, mailed, userVars, logins, resets, answered>>

\* Mutant: the user is created or, when there is one, replaced.
Upserts == TRUE

\* The unique index on User.email refuses a second row: P2002, 409.
MayCreate == user = None

VerifyCreate(h) ==
    /\ At(h, "create")
    /\ MayCreate
    /\ user' = task[h].data
    /\ Become(h, Task("clear", task[h].code, None))
    /\ UNCHANGED <<minted, redisVars, mailed, linked, logins, resets, answered>>

VerifyDuplicate(h) ==
    /\ At(h, "create")
    /\ ~MayCreate
    /\ Become(h, Idle)
    /\ UNCHANGED <<minted, redisVars, mailed, userVars, logins, resets, answered>>

VerifyClear(h) ==
    /\ At(h, "clear")
    /\ staged' = None
    /\ Become(h, Task("login", task[h].code, None))
    /\ UNCHANGED <<minted, registerOtp, resetOtp, mailed, userVars, logins, resets, answered>>

VerifyLogin(h) ==
    /\ At(h, "login")
    /\ logins' = IF logins < 2 THEN logins + 1 ELSE 2
    /\ Become(h, Idle)
    /\ UNCHANGED <<minted, redisVars, mailed, userVars, resets, answered>>

-----------------------------------------------------------------------------
(* forgotPassword and resetPassword, for an account that has a password.   *)

\* Mutant: any account may be reset.
HasAccount == user # None

\* authProvider is not GOOGLE.
HasPassword == user \in Codes

ForgotRead(h) ==
    /\ HasPassword
    /\ RoomForCode
    /\ Begin(h, "forgot", Task("mintReset", None, None))
    /\ UNCHANGED <<minted, redisVars, mailed, userVars, logins, resets, answered>>

ForgotMint(h) ==
    /\ At(h, "mintReset")
    /\ minted' = minted + 1
    /\ resetOtp' = minted + 1
    /\ Become(h, Task("mail", minted + 1, None))
    /\ UNCHANGED <<registerOtp, staged, mailed, userVars, logins, resets, answered>>

ResetRead(h) ==
    /\ HasPassword
    /\ \E c \in mailed : Begin(h, "reset", Task("matchReset", c, None))
    /\ UNCHANGED <<minted, redisVars, mailed, userVars, logins, resets, answered>>

ResetMatch(h) ==
    /\ At(h, "matchReset")
    /\ Become(h, IF resetOtp = task[h].code
                   THEN Task("password", task[h].code, None) ELSE Idle)
    /\ UNCHANGED <<minted, redisVars, mailed, userVars, logins, resets, answered>>

\* The new hash is written and tokenVersion bumped ...
ResetPassword(h) ==
    /\ At(h, "password")
    /\ resets' = [resets EXCEPT ![task[h].code] = IF @ < 2 THEN @ + 1 ELSE 2]
    /\ Become(h, Task("used", task[h].code, None))
    /\ UNCHANGED <<minted, redisVars, mailed, userVars, logins, answered>>

\* Mutant: the code is left to its TTL.
LeftToExpire == resetOtp

\* "Single-use OTP - delete after a successful reset."
Deleted == None

\* ... and then the key is deleted, whatever code it holds by now.
ResetUsed(h) ==
    /\ At(h, "used")
    /\ resetOtp' = Deleted
    /\ answered' = answered \cup {task[h].code}
    /\ Become(h, Idle)
    /\ UNCHANGED <<minted, registerOtp, staged, mailed, userVars, logins, resets>>

-----------------------------------------------------------------------------
(* googleLogin, for a verified ID token.                                   *)

GoogleRead(h) ==
    /\ \E sub \in Subs :
         Begin(h, "google", GoogleTask(IF linked = sub THEN "enter" ELSE "byEmail", sub))
    /\ UNCHANGED <<minted, redisVars, mailed, userVars, logins, resets, answered>>

\* The account of the address, or none; one that is linked elsewhere: 409.
GoogleByEmail(h) ==
    /\ At(h, "byEmail")
    /\ Become(h, IF user = None THEN GoogleTask("make", task[h].sub)
                 ELSE IF linked \in {None, task[h].sub} THEN GoogleTask("link", task[h].sub)
                 ELSE Idle)
    /\ UNCHANGED <<minted, redisVars, mailed, userVars, logins, resets, answered>>

\* update({id}, {googleId, emailVerified: true})
GoogleLink(h) ==
    /\ At(h, "link")
    /\ linked' = task[h].sub
    /\ Become(h, GoogleTask("enter", task[h].sub))
    /\ UNCHANGED <<minted, redisVars, mailed, user, logins, resets, answered>>

GoogleMake(h) ==
    /\ At(h, "make")
    /\ MayCreate
    /\ user' = Google
    /\ linked' = task[h].sub
    /\ Become(h, GoogleTask("enter", task[h].sub))
    /\ UNCHANGED <<minted, redisVars, mailed, logins, resets, answered>>

GoogleDuplicate(h) ==
    /\ At(h, "make")
    /\ ~MayCreate
    /\ Become(h, Idle)
    /\ UNCHANGED <<minted, redisVars, mailed, userVars, logins, resets, answered>>

\* Tokens are issued for the account as read or written.
GoogleEnter(h) ==
    /\ At(h, "enter")
    /\ Become(h, Idle)
    /\ UNCHANGED <<minted, redisVars, mailed, userVars, logins, resets, answered>>

-----------------------------------------------------------------------------

\* The 5-minute TTL of a key runs out.
Expire ==
    /\ "expire" \in Ops
    /\ \/ registerOtp # None /\ registerOtp' = None /\ UNCHANGED <<staged, resetOtp>>
       \/ staged # None /\ staged' = None /\ UNCHANGED <<registerOtp, resetOtp>>
       \/ resetOtp # None /\ resetOtp' = None /\ UNCHANGED <<registerOtp, staged>>
    /\ UNCHANGED <<minted, mailed, userVars, logins, resets, answered, task>>

\* The instance stops, or a query or command fails, between two steps.
Crash(h) ==
    /\ "crash" \in Ops
    /\ ~At(h, "idle")
    /\ Become(h, Idle)
    /\ UNCHANGED <<minted, redisVars, mailed, userVars, logins, resets, answered>>

Step(h) ==
    \/ RegisterPending(h) \/ RegisterMint(h) \/ RegisterStage(h)
    \/ ResendMint(h)
    \/ VerifyMatch(h) \/ VerifyConsume(h) \/ VerifyPayload(h) \/ VerifyCreate(h)
    \/ VerifyDuplicate(h) \/ VerifyClear(h) \/ VerifyLogin(h)
    \/ ForgotMint(h)
    \/ ResetMatch(h) \/ ResetPassword(h) \/ ResetUsed(h)
    \/ GoogleByEmail(h) \/ GoogleLink(h) \/ GoogleMake(h) \/ GoogleDuplicate(h)
    \/ GoogleEnter(h)
    \/ Mail(h)
Start(h) ==
    \/ RegisterRead(h) \/ ResendRead(h) \/ VerifyRead(h)
    \/ ForgotRead(h) \/ ResetRead(h) \/ GoogleRead(h)

Next == Expire \/ \E h \in Handlers : Start(h) \/ Step(h) \/ Crash(h)

Spec == Init /\ [][Next]_vars

-----------------------------------------------------------------------------

\* Every key, column and local has a value of its kind, only codes that were
\* minted are about, and an account is made from a payload that was read.
TypeOK ==
    /\ minted \in 0..MaxCodes
    /\ {registerOtp, staged, resetOtp} \subseteq 0..minted
    /\ user \in {Google} \cup 0..minted
    /\ linked \in Subs \cup {None}
    /\ user = Google => linked # None
    /\ mailed \subseteq 1..minted
    /\ logins \in 0..2
    /\ resets \in [Codes -> 0..2]
    /\ answered \subseteq 1..minted
    /\ task \in [Handlers -> Tasks]
    /\ \A h \in Handlers : At(h, "create") => task[h].data # None

\* verifyEmail, googleLogin: however many requests type in codes of however many
\* sign-ups or come from Google, the address gets one account from one of them;
\* it stays as it was made, and a verification is logged in only to the account
\* it made itself.
OneAccount ==
    [][/\ user # None => user' = user
       /\ logins' # logins => logins = 0 /\ user \in Codes]_vars

\* forgotPassword, resetPassword: an account made by Google never gets a
\* password, also not from a code or a request that is older than it.
GoogleStaysPasswordless ==
    (\E c \in Codes : resets[c] > 0) => user \in Codes

\* resetPassword: once a reset has been answered with success its code opens no
\* further one, whatever was minted, expired or crashed since; only requests
\* that were already past the comparison can still write.
AnsweredCodeIsDead ==
    [][\A h \in Handlers :
         At(h, "matchReset") /\ task'[h].pc = "password" => task[h].code \notin answered]_vars

\* Requests that are going to mint a code, and how far they may go.
Minting == {"pending", "mint", "remint", "mintReset"}
Minters == {h \in Handlers : task[h].pc \in Minting}
RoomKept == minted + Cardinality(Minters) <= MaxCodes

\* What a request remembers was minted, staged or sent by somebody.
Remembers ==
    \A h \in Handlers :
        /\ task[h].code \in 0..minted /\ task[h].data \in 0..minted
        /\ task[h].pc \in {"mail", "stage", "matchReset", "password", "used"} =>
             task[h].code # None
        /\ task[h].pc \in {"byEmail", "link", "make"} => task[h].sub \in Subs

\* Requests that have made the account and not answered yet: there is one at
\* most, and nobody was logged in before.
Verified == {"clear", "login"}
OneVerification ==
    /\ \A h \in Handlers : task[h].pc \in Verified => user \in Codes /\ logins = 0
    /\ \A h, k \in Handlers :
         task[h].pc \in Verified /\ task[k].pc \in Verified => h = k
    /\ logins # 0 => user \in Codes

\* Passwords are reset for an account that has one.
Resetting == {"matchReset", "password", "used"}
OnlyWithPassword ==
    /\ \A h \in Handlers : task[h].pc \in Resetting => user \in Codes
    /\ GoogleStaysPasswordless

\* A code whose reset was answered is not the one Redis holds.
AnsweredIsGone == resetOtp \notin answered

\* What the promises rest on: no more codes are minted than a request found room
\* for, a request remembers what somebody minted, the account is made by one
\* verification at most, passwords are set only where there is one, and an
\* answered code is gone from Redis.
CodesInv == /\ TypeOK /\ RoomKept /\ Remembers
            /\ OneVerification /\ OnlyWithPassword /\ AnsweredIsGone

\* auth.service.ts:356 "Single-use OTP".
ResetCodeUsedOnce == \A c \in Codes : resets[c] <= 1

\* auth.service.ts:131 "409 instead of silently overwriting the pending
\* OTP/data".
PendingSignUpStands == [][staged # None => staged' \in {staged, None}]_vars

\* auth.service.ts:442 "Email is already linked to another Google account".
LinkStands == [][linked # None => linked' = linked]_vars

=============================================================================
