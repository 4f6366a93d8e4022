---------------------------- MODULE PromiseProofs ---------------------------
(***************************************************************************)
(* What the three services promise a customer, on top of IInv, for any     *)
(* number of requests, payments and applications.  TripMoney implements    *)
(* TripPromise: the few steps that write what the promise speaks of are    *)
(* steps of it, every other step is a stutter.  What an approval owes      *)
(* stays on record; a customer cancels nothing that was paid; a payment is *)
(* returned once, and for what was approved.                               *)
(***************************************************************************)
EXTENDS TripMoneyProofs

\* What the promise speaks of; the rest of the state is how.
promised == <<booking, session, sent, request, approved>>

Trip == IF booking = "CANCELLED" THEN "off" ELSE "on"
Paid == {p \in Payments : session[p] = "paid"}

\* A step that writes none of it changes nothing the promise sees.
LEMMA Stutter ==
  ASSUME UNCHANGED <<session, sent, request, approved>>, Trip' = Trip
  PROVE  UNCHANGED Promise!vars
BY DEF Promise!vars, Trip

-----------------------------------------------------------------------------
(* The steps that do.                                                      *)

\* The cancellation of updateBookingStatus calls the trip off and closes what
\* is applied for; its other transitions happen while the trip is on.
LEMMA WriteStatusKeeps ==
  ASSUME IInv, NEW h \in Handlers, WriteStatus(h)
  PROVE  [Promise!Next]_Promise!vars
<1>1. booking # "CANCELLED"
  BY DEF IInv, Knows, WriteStatus, StatusUnchanged, At
<1>2. CASE task[h].to = "CANCELLED"
  <2>1. /\ booking' = "CANCELLED" /\ CloseApplications
        /\ UNCHANGED <<session, sent, approved>>
    BY <1>2 DEF WriteStatus, gatewayVars
  <2>2. Promise!CallOff BY <1>1, <2>1 DEF Promise!CallOff, CloseApplications
  <2>. QED BY <2>2 DEF Promise!Next
<1>3. CASE task[h].to # "CANCELLED"
  <2>1. booking' # "CANCELLED" /\ UNCHANGED <<session, sent, request, approved>>
    BY <1>3 DEF WriteStatus, gatewayVars
  <2>. QED BY <1>1, <2>1, Stutter DEF Trip
<1>. QED BY <1>2, <1>3

\* The blind write of createBooking calls the trip off, if it still is on.
LEMMA RebookCancelKeeps ==
  ASSUME IInv, NEW h \in Handlers, RebookCancel(h)
  PROVE  [Promise!Next]_Promise!vars
<1>1. booking' = "CANCELLED" /\ UNCHANGED <<session, sent, request, approved>>
  BY DEF RebookCancel, IInv, Knows, At, requestVars, gatewayVars
<1>2. CASE booking = "CANCELLED" BY <1>1, <1>2, Stutter DEF Trip
<1>3. CASE booking # "CANCELLED"
  <2>1. Promise!CallOff BY <1>1, <1>3 DEF Promise!CallOff
  <2>. QED BY <2>1 DEF Promise!Next
<1>. QED BY <1>2, <1>3

\* A settlement writes PAID only over PENDING.
LEMMA SettleKeeps ==
  ASSUME NEW h \in Handlers, Settle(h)
  PROVE  [Promise!Next]_Promise!vars
<1>1. Trip' = Trip /\ UNCHANGED <<session, sent, request, approved>>
  BY DEF Settle, PaidIfPending, Trip, requestVars, gatewayVars
<1>. QED BY <1>1, Stutter

LEMMA ShopperPaysKeeps ==
  ASSUME IInv, NEW p \in Payments, ShopperPays(p)
  PROVE  [Promise!Next]_Promise!vars
<1>1. /\ session[p] = "open" /\ session' = [session EXCEPT ![p] = "paid"]
      /\ UNCHANGED <<booking, sent, request, approved>>
  BY DEF ShopperPays, requestVars
<1>2. session \in [Payments -> {"none", "open", "paid"}] BY DEF IInv, TypeOK
<1>3. p \in Payments \ Paid /\ Paid' = Paid \cup {p} BY <1>1, <1>2 DEF Paid
<1>4. Promise!Pay BY <1>1, <1>3 DEF Promise!Pay, Paid
<1>. QED BY <1>4 DEF Promise!Next

\* A page is opened on a row nobody has paid.
LEMMA InitSessionKeeps ==
  ASSUME IInv, NEW h \in Handlers, InitSession(h)
  PROVE  [Promise!Next]_Promise!vars
<1>1. /\ task[h].p \in Payments /\ session[task[h].p] = "none"
      /\ session' = [session EXCEPT ![task[h].p] = "open"]
      /\ UNCHANGED <<booking, sent, request, approved>>
  BY DEF IInv, Knows, At, InitSession, requestVars
<1>2. session \in [Payments -> {"none", "open", "paid"}] BY DEF IInv, TypeOK
<1>3. Paid' = Paid BY <1>1, <1>2 DEF Paid
<1>. QED BY <1>1, <1>3 DEF Promise!vars, Paid

\* A gateway refund gives back units of a payment the shopper made.
LEMMA GatewayRefundKeeps ==
  ASSUME IInv, booking = "CANCELLED", NEW p \in Payments, payment[p] \in Money,
         NEW units \in Nat, NEW outcome \in Outcomes, GatewayRefund(p, units, outcome),
         UNCHANGED <<booking, session, request, approved>>
  PROVE  [Promise!Next]_Promise!vars
<1>0. sent \in [Payments -> 0..MaxSent] /\ MaxSent \in Nat BY ConstantTypes DEF IInv, TypeOK
<1>1. p \in Paid BY DEF IInv, Rows, Paid
<1>2. CASE sent' = sent BY <1>2, Stutter DEF Trip
<1>3. CASE sent' # sent
  <2>1. PICK given \in 0..MaxSent : given = Smaller(sent[p] + units, MaxSent)
    BY <1>0 DEF Smaller
  <2>2. sent' = [sent EXCEPT ![p] = given] BY <1>3, <2>1 DEF GatewayRefund
  <2>3. given >= sent[p] BY <1>0, <2>1 DEF Smaller
  <2>4. given # sent[p] BY <1>0, <1>3, <2>2
  <2>5. given > sent[p] BY <1>0, <2>3, <2>4
  <2>6. Promise!GiveBack BY <1>1, <2>2, <2>5 DEF Promise!GiveBack, Paid
  <2>. QED BY <2>6 DEF Promise!Next
<1>. QED BY <1>2, <1>3

LEMMA CallsKeep ==
  ASSUME IInv, NEW h \in Handlers, CallRefund(h) \/ CallPayout(h)
  PROVE  [Promise!Next]_Promise!vars
<1>0. /\ task[h] \in Tasks /\ Knows(task[h]) /\ booking = "CANCELLED"
      /\ UNCHANGED <<booking, session, request, approved>>
  BY DEF IInv, TypeOK, Knows, CallRefund, CallPayout, At, Cancelled, requestVars
<1>1. CASE CallRefund(h)
  <2>1. PICK p \in task[h].todo, outcome \in Outcomes : GatewayRefund(p, Price, outcome)
    BY <1>1 DEF CallRefund
  <2>2. p \in Payments /\ payment[p] \in Money
    BY <1>0, <1>1, <2>1 DEF CallRefund, Knows, At, Tasks
  <2>. QED BY <1>0, <2>1, <2>2, GatewayRefundKeeps, ConstantTypes
<1>2. CASE CallPayout(h)
  <2>1. PICK p \in task[h].todo, outcome \in Outcomes : GatewayRefund(p, Slice(h), outcome)
    BY <1>2 DEF CallPayout, Oldest
  <2>2. p \in Payments /\ payment[p] \in Money
    BY <1>0, <1>2, <2>1 DEF CallPayout, Knows, At, Tasks
  <2>3. Slice(h) \in Nat BY <1>0, ConstantTypes DEF Slice, Smaller, Tasks
  <2>. QED BY <1>0, <2>1, <2>2, <2>3, GatewayRefundKeeps
<1>. QED BY <1>1, <1>2

-----------------------------------------------------------------------------
(* Applications.                                                           *)

LEMMA InsertRequestKeeps ==
  ASSUME NEW h \in Handlers, InsertRequest(h)
  PROVE  [Promise!Next]_Promise!vars
<1>1. /\ \A r \in Requests : ~Live(r)
      /\ \E r \in Requests : request[r] = "NONE" /\ request' = [request EXCEPT ![r] = "PENDING"]
      /\ UNCHANGED <<booking, session, sent, approved>>
  BY DEF InsertRequest, None, gatewayVars
<1>2. Promise!Apply BY <1>1 DEF Promise!Apply, Promise!Live, Promise!Answer, Live
<1>. QED BY <1>2 DEF Promise!Next

LEMMA RejectKeeps ==
  ASSUME IInv, NEW h \in Handlers, Reject(h)
  PROVE  [Promise!Next]_Promise!vars
<1>1. /\ task[h].r \in Requests /\ RejectPending(task[h].r)
      /\ UNCHANGED <<booking, session, sent, approved>>
  BY DEF IInv, Knows, At, Reject, gatewayVars
<1>2. request \in [Requests -> RequestStatus \cup {None}] BY DEF IInv, TypeOK
<1>3. CASE request[task[h].r] = "PENDING"
  <2>1. request' = [request EXCEPT ![task[h].r] = "REJECTED"] BY <1>1, <1>3 DEF RejectPending
  <2>2. Promise!Reject BY <1>1, <1>3, <2>1 DEF Promise!Reject, Promise!Answer
  <2>. QED BY <2>2 DEF Promise!Next
<1>4. CASE request[task[h].r] # "PENDING"
  <2>1. request' = request BY <1>1, <1>2, <1>4 DEF RejectPending
  <2>. QED BY <1>1, <2>1, Stutter DEF Trip
<1>. QED BY <1>3, <1>4

\* The approval and the cancellation are one step: Grant.
LEMMA ApproveGrants ==
  ASSUME IInv, NEW h \in Handlers, Approve(h)
  PROVE  [Promise!Next]_Promise!vars
<1>1. /\ task[h].r \in Requests /\ request[task[h].r] = "PENDING"
      /\ booking \in {"PAID", "CONFIRMED"} /\ booking' = "CANCELLED"
      /\ request' = [request EXCEPT ![task[h].r] = "APPROVED"]
      /\ approved' = [approved EXCEPT ![task[h].r] = task[h].left]
      /\ UNCHANGED <<session, sent>>
  BY DEF IInv, Knows, At, Approve, MayApprove, gatewayVars
<1>2. task[h].left \in 0..MaxSent /\ task[h].left > 0
  BY ConstantTypes DEF IInv, Knows, At, Approve
<1>3. Promise!Grant BY <1>1, <1>2 DEF Promise!Grant, Promise!Answer
<1>. QED BY <1>3 DEF Promise!Next

\* A request is closed as paid only when what it was approved is back.
LEMMA CloseRequestKeeps ==
  ASSUME IInv, NEW r \in Requests, request[r] \in Decided, Returned(r), CloseRequest(r),
         UNCHANGED <<booking, session, sent, approved>>
  PROVE  [Promise!Next]_Promise!vars
<1>0. /\ request \in [Requests -> RequestStatus \cup {None}]
      /\ sent \in [Payments -> 0..MaxSent]
  BY DEF IInv, TypeOK
<1>1. CASE request[r] = "APPROVED"
  <2>1. PICK p \in Payments : sent[p] >= approved[r] BY DEF Returned
  <2>2. approved[r] \in 1..Price BY DEF IInv, Rows
  <2>3. sent[p] > 0 BY <1>0, <2>1, <2>2, ConstantTypes
  <2>4. p \in Paid BY <2>3 DEF IInv, Rows, RefundsOnlyAfterCancel, Paid
  <2>5. request' = [request EXCEPT ![r] = "REFUNDED"] BY <1>1 DEF CloseRequest
  <2>6. Promise!Close
    BY <1>1, <2>1, <2>4, <2>5 DEF Promise!Close, Promise!Answer, Paid
  <2>. QED BY <2>6 DEF Promise!Next
<1>2. CASE request[r] # "APPROVED"
  <2>1. request' = request BY <1>0, <1>2 DEF CloseRequest
  <2>. QED BY <2>1, Stutter DEF Trip
<1>. QED BY <1>1, <1>2

LEMMA ClosingsKeep ==
  ASSUME IInv, NEW h \in Handlers, Conclude(h) \/ RetryOwed(h)
  PROVE  [Promise!Next]_Promise!vars
<1>0. /\ task[h].r \in Requests /\ request[task[h].r] \in Decided
      /\ UNCHANGED <<booking, session, sent, approved>>
  BY DEF IInv, Knows, At, Conclude, RetryOwed, gatewayVars
<1>1. CASE Conclude(h)
  <2>1. Returned(task[h].r) /\ CloseRequest(task[h].r)
    BY <1>1 DEF IInv, Knows, At, Conclude
  <2>. QED BY <1>0, <2>1, CloseRequestKeeps
<1>2. CASE RetryOwed(h)
  <2>. DEFINE r == task[h].r
  <2>1. CASE UNCHANGED request BY <1>0, <2>1, Stutter DEF Trip
  <2>2. CASE ~UNCHANGED request
    <3>1. CloseRequest(r) /\ approved[r] - UnitsIn("REFUNDED") <= 0
      BY <1>2, <2>2 DEF RetryOwed, NothingOwed
    <3>2. approved[r] \in 1..Price BY <1>0 DEF IInv, Rows
    <3>3. UnitsIn("REFUNDED") > 0 BY <3>1, <3>2, ConstantTypes, UnitsOfRows
    <3>4. PICK p \in Payments : payment[p] = "REFUNDED"
      BY <3>3, UnitsOfRows DEF HasStatus
    <3>5. Returned(r) BY <1>0, <3>4 DEF IInv, Rows, Returned
    <3>. QED BY <1>0, <3>1, <3>5, CloseRequestKeeps
  <2>. QED BY <2>1, <2>2
<1>. QED BY <1>1, <1>2

-----------------------------------------------------------------------------
(* The refinement.                                                         *)

\* Every step but the ones above leaves alone what the promise speaks of.
LEMMA OthersStutter ==
  ASSUME NEW h \in Handlers, Start(h) \/ Step(h) \/ Crash(h)
  PROVE  \/ UNCHANGED promised
         \/ WriteStatus(h) \/ RebookCancel(h) \/ Settle(h) \/ InitSession(h)
         \/ CallRefund(h) \/ CallPayout(h)
         \/ InsertRequest(h) \/ Reject(h) \/ Approve(h) \/ Conclude(h) \/ RetryOwed(h)
<1>. USE DEF promised, requestVars, gatewayVars
<1>1. CASE Start(h) \/ Crash(h)
  BY <1>1
  DEF Start, BookingStart, PaymentStart, RefundStart, Crash, UpdateRead, RebookRead,
      CheckoutRead, CallbackRead, ApplyRead, DecideRead, RetryRead
<1>2. CASE BookingStep(h)
  BY <1>2
  DEF BookingStep, CountSettled, WriteConflict, ScanSettled, RefundWithoutBankId,
      RecordRefund, RecordFailure
<1>3. CASE PaymentStep(h)
  BY <1>3
  DEF PaymentStep, Supersede, CreateSession, InitFails, VerifyValid, VerifyInvalid,
      CloseSession, SettleLost, AfterSettle
<1>4. CASE RefundStep(h)
  BY <1>4
  DEF RefundStep, ApplyEligible, InsertConflict, PriceApproval, ApproveConflict, Allocate,
      PayoutWithoutBankId, RecordPayout, RecordPayoutFailure, RetryClaim, RetryRefused
<1>. QED BY <1>1, <1>2, <1>3, <1>4 DEF Step

LEMMA InitKeeps == Init => Promise!Init
<1>. SUFFICES ASSUME Init PROVE Promise!Init OBVIOUS
<1>1. booking # "CANCELLED" BY InitialBookingsOK DEF Init
<1>. QED BY <1>1 DEF Init, Promise!Init, None

LEMMA StepKeeps == IInv /\ [Next]_vars => [Promise!Next]_Promise!vars
<1>. SUFFICES ASSUME IInv, [Next]_vars PROVE [Promise!Next]_Promise!vars OBVIOUS
<1>1. ASSUME UNCHANGED promised PROVE [Promise!Next]_Promise!vars
  BY <1>1, Stutter DEF promised, Trip
<1>2. ASSUME NEW h \in Handlers, Start(h) \/ Step(h) \/ Crash(h)
      PROVE  [Promise!Next]_Promise!vars
  BY <1>1, <1>2, OthersStutter, WriteStatusKeeps, RebookCancelKeeps, SettleKeeps,
     InitSessionKeeps, CallsKeep, InsertRequestKeeps, RejectKeeps, ApproveGrants, ClosingsKeep
<1>3. ASSUME NEW p \in Payments, ShopperPays(p) PROVE [Promise!Next]_Promise!vars
  BY <1>3, ShopperPaysKeeps
<1>4. CASE Depart \/ UNCHANGED vars
  BY <1>1, <1>4 DEF Depart, vars, promised, requestVars, gatewayVars
<1>. QED BY <1>2, <1>3, <1>4 DEF Next

\* updateBookingStatus, createBooking, processGatewayResult, decideRefundRequest,
\* runPayout and retryRefundPayout, in any number, interleaved and cut off
\* anywhere: what the customer sees of the money is a behaviour of TripPromise.
THEOREM PromiseIsKept == Spec => KeepsPromise
<1>. QED BY InitKeeps, StepKeeps, Inductive, PTL DEF Spec, KeepsPromise, Promise!Spec

-----------------------------------------------------------------------------
(* Applications that outlive their booking.                                *)

\* decideRefundRequest, updateBookingStatus, createRefundRequest: an application
\* that slipped in while its booking was being cancelled, or was left pending
\* when it was completed, is never approved.
THEOREM WedgedAreNeverApproved == Spec => WedgedNeverApproved
<1>1. ASSUME IInv, [Next]_vars
      PROVE  \A r \in Requests :
               request[r] = "PENDING" /\ booking \in {"CANCELLED", "COMPLETED"} =>
                  request'[r] \in {"PENDING", "REJECTED"}
  <2>1. request \in [Requests -> RequestStatus \cup {None}] BY <1>1 DEF IInv, TypeOK
  <2>. QED BY <1>1, <2>1, RequestWrites
       DEF CloseApplications, CloseRequest, InsertRequest, Reject, RejectPending, Approve,
           MayApprove, None
<1>. QED BY <1>1, Inductive, PTL DEF Spec, WedgedNeverApproved

-----------------------------------------------------------------------------
(* What an approval owes.                                                  *)

\* The booking took money, and a trace of a payout that has not paid it all.
HasMoney == \E p \in Payments : payment[p] \in Money
Visible == \E p \in Payments : marked[p] \/ payment[p] = "REFUNDED"

\* A decision that pays out follows a settled payment, and a payout in progress
\* has a payment to do.
PayoutInv ==
    /\ \A h \in Handlers : At(h, "approve") => HasMoney
    /\ \A r \in Requests : request[r] \in Decided => HasMoney
    /\ \A h \in Handlers : At(h, "payout") => task[h].todo # {}

\* A request of a customer is one that changes the status, and only of a booking
\* it read as PENDING.
CustomersCancelPending ==
    \A h \in Handlers :
        task[h].by = "customer" =>
            /\ task[h].pc \in {"count", "write", "overwrite"}
            /\ task[h].pc \in {"count", "write"} => task[h].was = "PENDING"

-----------------------------------------------------------------------------
(* What stays.                                                             *)

\* Money that was taken stays taken or goes back, and traces stay.
LEMMA TracesStay ==
  ASSUME IInv, [Next]_vars
  PROVE  (HasMoney => HasMoney') /\ (Visible => Visible')
<1>0. payment \in [Payments -> PaymentStatus \cup {None}] /\ marked \in [Payments -> BOOLEAN]
  BY DEF IInv, TypeOK
<1>1. \A p \in Payments :
        /\ payment[p] \in Money => payment'[p] \in Money
        /\ payment[p] = "REFUNDED" => payment'[p] = "REFUNDED"
  BY <1>0, PaymentWrites
  DEF AbandonSessions, FlipRefunded, CreateSession, Settle, CloseIfInitiated, HasStatus, None,
      Money
<1>2. marked' = marked \/ \E p \in Payments : MarkRetry(p)
  <2>. USE DEF paymentVars, requestVars, gatewayVars
  <2>0. \A h \in Handlers : Knows(task[h]) BY DEF IInv
  <2>1. ASSUME NEW h \in Handlers, BookingStart(h) \/ PaymentStart(h) \/ RefundStart(h) \/ Crash(h)
        PROVE  marked' = marked
    BY <2>1 DEF BookingStart, PaymentStart, RefundStart, Crash, UpdateRead, RebookRead,
                CheckoutRead, CallbackRead, ApplyRead, DecideRead, RetryRead
  <2>2. ASSUME NEW h \in Handlers, BookingStep(h)
        PROVE  marked' = marked \/ \E p \in Payments : MarkRetry(p)
    <3>1. CASE RefundWithoutBankId(h)
      <4>1. task[h].todo \subseteq Payments BY DEF IInv, TypeOK, Tasks
      <4>. QED BY <3>1, <4>1 DEF RefundWithoutBankId
    <3>. QED
      BY <2>0, <2>2, <3>1
      DEF BookingStep, CountSettled, WriteConflict, WriteStatus, ScanSettled,
          CallRefund, RecordRefund, RecordFailure, RebookCancel, Knows, At
  <2>3. ASSUME NEW h \in Handlers, PaymentStep(h)
        PROVE  marked' = marked
    BY <2>3
    DEF PaymentStep, Supersede, CreateSession, InitSession, InitFails, VerifyValid,
        VerifyInvalid, CloseSession, SettleLost, Settle, AfterSettle
  <2>4. ASSUME NEW h \in Handlers, RefundStep(h)
        PROVE  marked' = marked \/ \E p \in Payments : MarkRetry(p)
    <3>1. CASE PayoutWithoutBankId(h)
      <4>1. task[h].todo \subseteq Payments BY DEF IInv, TypeOK, Tasks
      <4>. QED BY <3>1, <4>1 DEF PayoutWithoutBankId, Oldest
    <3>. QED
      BY <2>0, <2>4, <3>1
      DEF RefundStep, ApplyEligible, InsertConflict, InsertRequest, Reject, PriceApproval,
          ApproveConflict, Approve, Allocate, CallPayout, RecordPayout,
          RecordPayoutFailure, Conclude, RetryClaim, RetryRefused, RetryOwed, Knows, At
  <2>5. CASE UNCHANGED vars \/ Depart \/ \E p \in Payments : ShopperPays(p)
    BY <2>5 DEF vars, Depart, ShopperPays
  <2>. QED BY <2>1, <2>2, <2>3, <2>4, <2>5 DEF Next, Start, Step
<1>3. \A p \in Payments : marked[p] => marked'[p]
  BY <1>0, <1>2 DEF MarkRetry
<1>. QED BY <1>1, <1>3 DEF HasMoney, Visible

\* Money that was taken and is not settled any more has been refunded.
LEMMA MoneyIsSettledOrVisible ==
  ASSUME HasMoney, Settled = {}
  PROVE  Visible
BY DEF HasMoney, Visible, Settled, HasStatus, Money

-----------------------------------------------------------------------------
(* The invariant of the payouts.                                           *)

\* A request comes to an approval or a payout by PriceApproval and the steps of
\* runPayout only.
LEMMA PayoutMoves ==
  ASSUME IInv, NEW h \in Handlers, Start(h) \/ Step(h) \/ Crash(h)
  PROVE  /\ At(h, "approve")' => PriceApproval(h)
         /\ At(h, "payout")' => task'[h].todo # {}
<1>. USE DEF Begin, Become, Done, At, Idle, PaymentTask, UpdateTask, CallbackTask,
             RequestTask, PayoutTask, NextRefund, NextPayout
<1>0. task \in [Handlers -> Tasks] BY DEF IInv, TypeOK
<1>1. CASE Crash(h) BY <1>0, <1>1 DEF Crash
<1>2. CASE BookingStart(h) BY <1>0, <1>2 DEF BookingStart, UpdateRead, RebookRead
<1>3. CASE PaymentStart(h) BY <1>0, <1>3 DEF PaymentStart, CheckoutRead, CallbackRead
<1>4. CASE RefundStart(h) BY <1>0, <1>4 DEF RefundStart, ApplyRead, DecideRead, RetryRead
<1>5. CASE BookingStep(h)
  BY <1>0, <1>5
  DEF BookingStep, CountSettled, WriteConflict, WriteStatus, ScanSettled,
      RefundWithoutBankId, CallRefund, RecordRefund, RecordFailure, RebookCancel, Records
<1>6. CASE PaymentStep(h)
  BY <1>0, <1>6
  DEF PaymentStep, Supersede, CreateSession, InitSession, InitFails, VerifyValid,
      VerifyInvalid, CloseSession, SettleLost, Settle, AfterSettle
<1>7. CASE RefundStep(h)
  <2>1. CASE PriceApproval(h) BY <1>0, <2>1 DEF PriceApproval
  <2>2. CASE Allocate(h) \/ PayoutWithoutBankId(h) \/ CallPayout(h)
    BY <1>0, <2>2 DEF Allocate, PayoutWithoutBankId, CallPayout
  <2>3. CASE RecordPayout(h) \/ RecordPayoutFailure(h)
    BY <1>0, <2>3 DEF RecordPayout, RecordPayoutFailure
  <2>. QED
    BY <1>0, <1>7, <2>1, <2>2, <2>3
    DEF RefundStep, ApplyEligible, InsertConflict, InsertRequest, Reject,
        ApproveConflict, Approve, Conclude, RetryClaim, RetryRefused, RetryOwed
<1>. QED BY <1>1, <1>2, <1>3, <1>4, <1>5, <1>6, <1>7 DEF Start, Step

\* An amount above nothing needs a settled payment.
LEMMA PriceNeedsMoney ==
  ASSUME NEW h \in Handlers, task \in [Handlers -> Tasks], PriceApproval(h), At(h, "approve")'
  PROVE  HasMoney
<1>1. Smaller(task[h].left, UnitsIn("SUCCESS")) > 0
  BY DEF PriceApproval, Become, Done, At, Idle, PaymentTask
<1>2. CASE HasStatus("SUCCESS") = {}
  <2>1. UnitsIn("SUCCESS") = 0
    BY <1>2, FS_EmptySet, ConstantTypes DEF UnitsIn
  <2>2. task[h].left \in Nat BY DEF Tasks
  <2>. QED BY <1>1, <2>1, <2>2 DEF Smaller
<1>3. CASE HasStatus("SUCCESS") # {}
  BY <1>3 DEF HasStatus, HasMoney, Money
<1>. QED BY <1>2, <1>3

\* It holds initially,
LEMMA PayoutInitSafe == Init => PayoutInv
BY DEF Init, PayoutInv, At, Idle, PaymentTask, Decided, None

\* and is kept.
LEMMA PayoutNextSafe ==
  ASSUME IInv, PayoutInv, [Next]_vars
  PROVE  PayoutInv'
<1>0. task \in [Handlers -> Tasks] /\ request \in [Requests -> RequestStatus \cup {None}]
  BY DEF IInv, TypeOK
<1>1. HasMoney => HasMoney' BY TracesStay
<1>2. ASSUME NEW r \in Requests, request'[r] \in Decided PROVE HasMoney'
  <2>1. CASE request[r] \in Decided BY <1>1, <2>1 DEF PayoutInv
  <2>2. CASE request[r] \notin Decided
    <3>1. PICK h \in Handlers : Approve(h)
      BY <1>0, <1>2, <2>2, RequestWrites
      DEF CloseApplications, CloseRequest, InsertRequest, Reject, RejectPending, Decided, None
    <3>. QED BY <1>1, <3>1 DEF Approve, PayoutInv
  <2>. QED BY <2>1, <2>2
<1>3. ASSUME NEW h \in Handlers, Start(h) \/ Step(h) \/ Crash(h)
      PROVE  PayoutInv'
  <2>1. \A g \in Handlers \ {h} : task'[g] = task[g] BY <1>0, <1>3, TaskMoves
  <2>2. At(h, "approve")' => HasMoney' BY <1>0, <1>1, <1>3, PayoutMoves, PriceNeedsMoney
  <2>3. At(h, "payout")' => task'[h].todo # {} BY <1>3, PayoutMoves
  <2>. QED BY <1>1, <1>2, <2>1, <2>2, <2>3 DEF PayoutInv, At
<1>4. CASE UNCHANGED vars \/ Depart \/ \E p \in Payments : ShopperPays(p)
  <2>1. task' = task BY <1>4 DEF vars, Depart, ShopperPays
  <2>. QED BY <1>1, <1>2, <2>1 DEF PayoutInv, At
<1>. QED BY <1>3, <1>4 DEF Next

-----------------------------------------------------------------------------
(* What is owed stays on record.                                           *)

\* A step of a payout goes on with it, leaves a trace, or closes the request.
LEMMA PayoutHandedOn ==
  ASSUME IInv, PayoutInv, NEW h \in Handlers, Start(h) \/ Step(h),
         NEW r \in Requests, InPayout(h, r)
  PROVE  InPayout(h, r)' \/ Visible' \/ request'[r] # "APPROVED"
<1>. USE DEF paymentVars, requestVars, gatewayVars, At
<1>0. /\ task \in [Handlers -> Tasks] /\ payment \in [Payments -> PaymentStatus \cup {None}]
      /\ marked \in [Payments -> BOOLEAN] /\ bank \in [Payments -> BOOLEAN]
      /\ request \in [Requests -> RequestStatus \cup {None}]
      /\ Knows(task[h]) /\ task[h].r = r /\ task[h].r \in Requests
  BY DEF IInv, TypeOK, InPayout
<1>1. \/ Allocate(h) \/ PayoutWithoutBankId(h) \/ CallPayout(h) \/ RecordPayout(h)
      \/ RecordPayoutFailure(h) \/ Conclude(h)
  <2>1. task[h].pc \in {"allocate", "payout", "payFlip", "payMark", "conclude"} BY DEF InPayout
  <2>2. ~Start(h)
    BY <2>1
    DEF Start, BookingStart, PaymentStart, RefundStart, UpdateRead, RebookRead, CheckoutRead,
        CallbackRead, ApplyRead, DecideRead, RetryRead, Begin
  <2>3. ~BookingStep(h)
    BY <2>1
    DEF BookingStep, CountSettled, WriteConflict, WriteStatus, ScanSettled,
        RefundWithoutBankId, CallRefund, RecordRefund, RecordFailure, RebookCancel
  <2>4. ~PaymentStep(h)
    BY <2>1
    DEF PaymentStep, Supersede, CreateSession, InitSession, InitFails, VerifyValid,
        VerifyInvalid, CloseSession, SettleLost, Settle, AfterSettle
  <2>5. RefundStep(h) BY <2>2, <2>3, <2>4 DEF Step
  <2>. QED
    BY <2>1, <2>5
    DEF RefundStep, ApplyEligible, InsertConflict, InsertRequest, Reject, PriceApproval,
        ApproveConflict, Approve, RetryClaim, RetryRefused, RetryOwed
<1>2. CASE Allocate(h)
  <2>1. request[r] \in Decided /\ task[h].left > 0
    BY <1>0, <1>2, ConstantTypes DEF Allocate, Knows, IInv, Rows
  <2>2. CASE Settled = {}
    <3>1. Visible BY <2>1, <2>2, MoneyIsSettledOrVisible DEF PayoutInv
    <3>2. UNCHANGED <<payment, marked>> BY <1>2 DEF Allocate
    <3>. QED BY <3>1, <3>2 DEF Visible
  <2>3. CASE Settled # {}
    <3>1. task' = [task EXCEPT ![h] = PayoutTask("payout", task[h].r, 0, Settled, task[h].left, FALSE)]
      BY <1>2, <2>1, <2>3 DEF Allocate, NextPayout, Become
    <3>. QED BY <1>0, <3>1 DEF InPayout, PayoutTask
  <2>. QED BY <2>2, <2>3
<1>3. CASE PayoutWithoutBankId(h)
  <2>1. PICK p \in Oldest(task[h].todo) : MarkRetry(p)
    BY <1>3 DEF PayoutWithoutBankId
  <2>2. payment' = payment /\ p \in Payments /\ payment[p] \in Money
    BY <1>0, <1>3, <2>1 DEF PayoutWithoutBankId, Oldest, Knows, Tasks
  <2>. QED BY <1>0, <2>1, <2>2 DEF MarkRetry, Visible, Money
<1>4. CASE CallPayout(h)
  <2>1. PICK p \in Oldest(task[h].todo), outcome \in Outcomes :
          task' = [task EXCEPT ![h] =
                     PayoutTask(IF outcome = "done" THEN "payFlip" ELSE "payMark",
                                task[h].r, p, task[h].todo \ {p}, task[h].left,
                                task[h].failed)]
    BY <1>4 DEF CallPayout, Become
  <2>. QED BY <1>0, <2>1 DEF InPayout, PayoutTask
<1>5. CASE RecordPayout(h)
  <2>1. FlipRefunded(task[h].p) /\ task[h].p \in Payments /\ payment[task[h].p] \in Money
    BY <1>0, <1>5 DEF RecordPayout, Knows
  <2>. QED BY <1>0, <2>1 DEF FlipRefunded, Visible, Money
<1>6. CASE RecordPayoutFailure(h)
  <2>1. /\ MarkRetry(task[h].p) /\ payment' = payment
        /\ task[h].p \in Payments /\ payment[task[h].p] \in Money
    BY <1>0, <1>6 DEF RecordPayoutFailure, Knows
  <2>. QED BY <1>0, <2>1 DEF MarkRetry, Visible, Money
<1>7. CASE Conclude(h)
  BY <1>0, <1>7 DEF Conclude, CloseRequest
<1>. QED BY <1>1, <1>2, <1>3, <1>4, <1>5, <1>6, <1>7

\* No step of a service hides an approval.
LEMMA StepsHideNothing ==
  ASSUME IInv, PayoutInv, NEW h \in Handlers, Start(h) \/ Step(h),
         NEW r \in Requests, r \in Hidden'
  PROVE  r \in Hidden
<1>. SUFFICES ASSUME r \notin Hidden PROVE FALSE OBVIOUS
<1>0. task \in [Handlers -> Tasks] /\ request \in [Requests -> RequestStatus \cup {None}]
  BY DEF IInv, TypeOK
<1>1. /\ request'[r] = "APPROVED" /\ ~Visible'
      /\ \A g \in Handlers : ~InPayout(g, r)'
  BY DEF Hidden, Visible, InPayout
<1>2. ~Visible BY <1>1, TracesStay DEF Next
<1>3. CASE request[r] # "APPROVED"
  <2>1. PICK g \in Handlers : Approve(g) /\ task[g].r = r
    BY <1>0, <1>1, <1>3, RequestWrites
    DEF Next, CloseApplications, CloseRequest, InsertRequest, Reject, RejectPending, Approve, None
  <2>2. InPayout(g, r)'
    BY <1>0, <2>1 DEF Approve, Become, RequestTask, InPayout
  <2>. QED BY <1>1, <2>2
<1>4. CASE request[r] = "APPROVED"
  <2>1. PICK g \in Handlers : InPayout(g, r)
    BY <1>2, <1>4 DEF Hidden, Visible
  <2>2. CASE g = h BY <1>1, <2>1, <2>2, PayoutHandedOn
  <2>3. CASE g # h
    <3>1. task'[g] = task[g] BY <1>0, <2>3, TaskMoves
    <3>. QED BY <1>1, <2>1, <3>1 DEF InPayout
  <2>. QED BY <2>2, <2>3
<1>. QED BY <1>3, <1>4

\* runPayout, retryRefundPayout: whatever was cut off before, and however many
\* payouts and retries overlap, no step of a service hides what is still owed.
THEOREM PayoutsHideNothing == Spec => OnlyCrashesHide
<1>1. ASSUME IInv, PayoutInv, [Next]_vars
      PROVE  \/ Hidden' \subseteq Hidden
             \/ \A h \in Handlers : ~(Start(h) \/ Step(h))
  <2>1. \A r \in Hidden' : r \in Requests BY DEF Hidden
  <2>. QED BY <1>1, <2>1, StepsHideNothing
<1>2. IInv /\ PayoutInv /\ [Next]_vars => PayoutInv' BY PayoutNextSafe
<1>. QED BY <1>1, <1>2, PayoutInitSafe, Inductive, PTL DEF Spec, OnlyCrashesHide

\* Without crashes, an approved request that nobody pays out has its shortfall
\* on record.
THEOREM ShortfallsAreVisible ==
  ASSUME "crash" \notin Ops
  PROVE  Spec => []ShortfallIsVisible
<1>1. Init => ShortfallIsVisible BY DEF Init, ShortfallIsVisible, None
<1>2. ASSUME IInv, PayoutInv, ShortfallIsVisible, [Next]_vars
      PROVE  ShortfallIsVisible'
  <2>. SUFFICES ASSUME NEW r \in Requests, r \in Hidden' PROVE FALSE
    BY DEF ShortfallIsVisible, Hidden, InPayout
  <2>1. r \notin Hidden BY <1>2 DEF ShortfallIsVisible, Hidden
  <2>2. \A h \in Handlers : ~Crash(h) BY DEF Crash
  <2>3. ASSUME NEW h \in Handlers, Start(h) \/ Step(h) PROVE FALSE
    BY <1>2, <2>1, <2>3, StepsHideNothing
  <2>4. CASE UNCHANGED vars \/ Depart \/ \E q \in Payments : ShopperPays(q)
    <3>1. UNCHANGED <<payment, marked, request, task>>
      BY <2>4 DEF vars, Depart, ShopperPays, paymentVars, requestVars
    <3>. QED BY <2>1, <3>1 DEF Hidden, InPayout
  <2>. QED BY <1>2, <2>2, <2>3, <2>4 DEF Next
<1>3. IInv /\ PayoutInv /\ ShortfallIsVisible /\ [Next]_vars
        => PayoutInv' /\ ShortfallIsVisible'
  BY <1>2, PayoutNextSafe
<1>. QED BY <1>1, <1>3, PayoutInitSafe, Inductive, PTL DEF Spec

-----------------------------------------------------------------------------
(* What a customer may cancel.                                             *)

\* A request comes to a status change by updateBookingStatus only.
LEMMA UpdateMoves ==
  ASSUME IInv, NEW h \in Handlers, Start(h) \/ Step(h) \/ Crash(h)
  PROVE  \/ task'[h].by = None /\ task'[h].pc \notin {"count", "write"}
         \/ \E by \in {"customer", "agency"}, to \in Targets :
              /\ Allowed(by, booking, to)
              /\ task'[h] = UpdateTask(IF to = "PENDING" THEN "count" ELSE "write",
                                       by, booking, to)
         \/ CountSettled(h)
         \/ RebookRead(h)
<1>0. task \in [Handlers -> Tasks] BY DEF IInv, TypeOK
<1>. USE DEF Begin, Become, Done, At, Idle, PaymentTask, UpdateTask, CallbackTask,
             RequestTask, PayoutTask, NextRefund, NextPayout
<1>1. CASE Crash(h) BY <1>0, <1>1 DEF Crash
<1>2. CASE UpdateRead(h) BY <1>0, <1>2 DEF UpdateRead
<1>3. CASE PaymentStart(h) BY <1>0, <1>3 DEF PaymentStart, CheckoutRead, CallbackRead
<1>4. CASE RefundStart(h) BY <1>0, <1>4 DEF RefundStart, ApplyRead, DecideRead, RetryRead
<1>5. CASE BookingStep(h) /\ ~CountSettled(h)
  BY <1>0, <1>5
  DEF BookingStep, WriteConflict, WriteStatus, ScanSettled,
      RefundWithoutBankId, CallRefund, RecordRefund, RecordFailure, RebookCancel, Records
<1>6. CASE PaymentStep(h)
  BY <1>0, <1>6
  DEF PaymentStep, Supersede, CreateSession, InitSession, InitFails, VerifyValid,
      VerifyInvalid, CloseSession, SettleLost, Settle, AfterSettle
<1>7. CASE RefundStep(h)
  BY <1>0, <1>7
  DEF RefundStep, ApplyEligible, InsertConflict, InsertRequest, Reject, PriceApproval,
      ApproveConflict, Approve, Allocate, PayoutWithoutBankId, CallPayout, RecordPayout,
      RecordPayoutFailure, Conclude, RetryClaim, RetryRefused, RetryOwed
<1>. QED
  BY <1>1, <1>2, <1>3, <1>4, <1>5, <1>6, <1>7 DEF Start, Step, BookingStart

\* Only updateBookingStatus and createBooking act for a customer.
LEMMA CustomersNextSafe ==
  ASSUME IInv, CustomersCancelPending, [Next]_vars
  PROVE  CustomersCancelPending'
<1>0. task \in [Handlers -> Tasks] BY DEF IInv, TypeOK
<1>1. ASSUME NEW h \in Handlers, Start(h) \/ Step(h) \/ Crash(h)
      PROVE  CustomersCancelPending'
  <2>1. \A g \in Handlers \ {h} : task'[g] = task[g] BY <1>0, <1>1, TaskMoves
  <2>2. \/ task'[h].by = None
        \/ task'[h].pc \in {"count", "write"} /\ (task'[h].by = "customer" => task'[h].was = "PENDING")
        \/ task'[h].pc = "overwrite"
    <3>1. CASE CountSettled(h)
      BY <1>0, <3>1 DEF CountSettled, CustomersCancelPending, Become, At, UpdateTask
    <3>2. CASE RebookRead(h)
      BY <1>0, <3>2 DEF RebookRead, Begin, Become, UpdateTask
    <3>3. ASSUME NEW by \in {"customer", "agency"}, NEW to \in Targets,
                 Allowed(by, booking, to),
                 task'[h] = UpdateTask(IF to = "PENDING" THEN "count" ELSE "write",
                                       by, booking, to)
          PROVE  /\ task'[h].pc \in {"count", "write"}
                 /\ task'[h].by = "customer" => task'[h].was = "PENDING"
      BY <3>3 DEF Allowed, CustomerMoves, UpdateTask
    <3>. QED BY <1>1, <3>1, <3>2, <3>3, UpdateMoves
  <2>. QED BY <2>1, <2>2 DEF CustomersCancelPending, None
<1>2. CASE UNCHANGED vars \/ Depart \/ \E p \in Payments : ShopperPays(p)
  BY <1>2 DEF vars, Depart, ShopperPays, CustomersCancelPending
<1>. QED BY <1>1, <1>2 DEF Next

\* What a customer's request may read is true from its first step on.
LEMMA CustomersInitSafe == Init => CustomersCancelPending
  BY DEF Init, CustomersCancelPending, Idle, PaymentTask, None

\* A customer's request that moves the booking finds it PENDING.
LEMMA CustomersMovePending ==
  ASSUME IInv, NobodyRebooks, CustomersCancelPending, [Next]_vars,
         NEW h \in Handlers, task[h].by = "customer", task'[h] # task[h], booking' # booking
  PROVE  booking = "PENDING"
<1>0. task \in [Handlers -> Tasks] BY DEF IInv, TypeOK
<1>1. PICK g \in Handlers : WriteStatus(g) \/ Settle(g) \/ Approve(g) \/ RebookCancel(g)
  BY BookingWrites
<1>2. g = h
  BY <1>0, <1>1, TaskMoves DEF Step, BookingStep, PaymentStep, RefundStep
<1>. QED
  BY <1>1, <1>2
  DEF WriteStatus, Settle, Approve, RebookCancel, CustomersCancelPending, NobodyRebooks, At,
      StatusUnchanged

\* Money settles in one step, of one request.
LEMMA MoneySettles ==
  ASSUME IInv, [Next]_vars, Settled = {}, Settled' # {}
  PROVE  \E g \in Handlers : Settle(g)
<1>1. payment \in [Payments -> PaymentStatus \cup {None}] BY DEF IInv, TypeOK
<1>2. PICK p \in Payments : payment[p] # "SUCCESS" /\ payment'[p] = "SUCCESS"
  BY DEF Settled, HasStatus
<1>. QED
  BY <1>1, <1>2, PaymentWrites
  DEF AbandonSessions, FlipRefunded, CreateSession, CloseIfInitiated, HasStatus, None

\* Only a write of PENDING over settled money exposes a booking.
LEMMA OvertakenWriteExposes ==
  ASSUME IInv, NobodyRebooks, [Next]_vars, Exposed'
  PROVE  Exposed \/ \E h \in Handlers : Overtaken(h) /\ WriteStatus(h)
<1>. SUFFICES ASSUME ~Exposed PROVE \E h \in Handlers : Overtaken(h) /\ WriteStatus(h)
  OBVIOUS
<1>1. CASE booking' = booking
  <2>1. Settled = {} BY <1>1 DEF Exposed
  <2>2. PICK g \in Handlers : Settle(g) BY <2>1, MoneySettles DEF Exposed
  <2>. QED BY <1>1, <2>2 DEF Exposed, Settle, PaidIfPending
<1>2. CASE booking' # booking
  <2>1. PICK h \in Handlers : WriteStatus(h) \/ Settle(h) \/ Approve(h) \/ RebookCancel(h)
    BY <1>2, BookingWrites
  <2>2. WriteStatus(h) /\ task[h].to = "PENDING"
    BY <1>2, <2>1
    DEF Settle, PaidIfPending, Approve, RebookCancel, NobodyRebooks, WriteStatus, Exposed
  <2>3. Settled' = Settled BY <2>2 DEF WriteStatus, Settled, HasStatus
  <2>. QED BY <2>2, <2>3 DEF Overtaken, WriteStatus, Exposed
<1>. QED BY <1>1, <1>2

\* A revert is overtaken by a payment that settles after its count.
LEMMA SettlementOvertakes ==
  ASSUME IInv, [Next]_vars, NEW h \in Handlers, Overtaken(h)'
  PROVE  Overtaken(h) \/ \E g \in Handlers \ {h} : Settle(g)
<1>0. task \in [Handlers -> Tasks] BY DEF IInv, TypeOK
<1>1. ASSUME task'[h] = task[h], ~Overtaken(h)
      PROVE  \E g \in Handlers \ {h} : Settle(g)
  <2>1. Settled = {} /\ At(h, "write") BY <1>1 DEF Overtaken, At
  <2>2. PICK g \in Handlers : Settle(g) BY <2>1, MoneySettles DEF Overtaken
  <2>. QED BY <2>1, <2>2 DEF Settle, At
<1>2. CASE task'[h] # task[h]
  <2>1. Start(h) \/ Step(h) \/ Crash(h)
    <3>1. PICK g \in Handlers : Start(g) \/ Step(g) \/ Crash(g)
      BY <1>2 DEF Next, vars, Depart, ShopperPays
    <3>2. g = h BY <1>0, <1>2, <3>1, TaskMoves
    <3>. QED BY <3>1, <3>2
  <2>2. CASE CountSettled(h)
    <3>1. task'[h].to = RevertTarget /\ Settled' = Settled
      BY <1>0, <2>2 DEF CountSettled, Become, UpdateTask, paymentVars, Settled, HasStatus
    <3>. QED BY <3>1 DEF RevertTarget, Overtaken
  <2>3. CASE RebookRead(h)
    BY <1>0, <2>3 DEF RebookRead, Begin, Become, UpdateTask, Overtaken, At
  <2>4. ASSUME NEW by \in {"customer", "agency"}, NEW to \in Targets,
               task'[h] = UpdateTask(IF to = "PENDING" THEN "count" ELSE "write",
                                     by, booking, to)
        PROVE  FALSE
    BY <2>4 DEF UpdateTask, Overtaken, At
  <2>. QED BY <2>1, <2>2, <2>3, <2>4, UpdateMoves DEF Overtaken, At
<1>. QED BY <1>1, <1>2

\* updateBookingStatus: whoever cancels, reverts, confirms or pays at the same
\* time, a customer's request moves settled money only on a booking that an
\* overtaken revert left PENDING, and nothing but a settlement between the
\* revert's count and its write leaves one so.
THEOREM OnlyOvertakenRevertsExposed ==
  ASSUME "rebook" \notin Ops
  PROVE  Spec => OnlyOvertakenRevertsExpose
<1>1. ASSUME IInv, NobodyRebooks, CustomersCancelPending, [Next]_vars
      PROVE  /\ \A h \in Handlers :
                  task[h].by = "customer" /\ task'[h] # task[h] /\ Settled # {} /\ ~Exposed
                     => booking' = booking
             /\ Exposed' => Exposed \/ \E h \in Handlers : Overtaken(h) /\ WriteStatus(h)
             /\ \A h \in Handlers :
                  Overtaken(h)' => Overtaken(h) \/ \E g \in Handlers \ {h} : Settle(g)
  <2>1. ASSUME NEW h \in Handlers, task[h].by = "customer", task'[h] # task[h],
               Settled # {}, ~Exposed
        PROVE  booking' = booking
    BY <1>1, <2>1, CustomersMovePending DEF Exposed
  <2>2. Exposed' => Exposed \/ \E h \in Handlers : Overtaken(h) /\ WriteStatus(h)
    BY <1>1, OvertakenWriteExposes
  <2>3. \A h \in Handlers :
          Overtaken(h)' => Overtaken(h) \/ \E g \in Handlers \ {h} : Settle(g)
    BY <1>1, SettlementOvertakes
  <2>. QED BY <2>1, <2>2, <2>3
<1>2. IInv /\ CustomersCancelPending /\ [Next]_vars => CustomersCancelPending'
  BY CustomersNextSafe
<1>. QED
  BY <1>1, <1>2, CustomersInitSafe, NobodyRebooksAlways, PTL
  DEF Spec, OnlyOvertakenRevertsExpose

\* Nobody reverts and nothing is exposed.
NeverExposed ==
    /\ \A h \in Handlers : ~At(h, "count") /\ (At(h, "write") => task[h].to # "PENDING")
    /\ ~Exposed

\* Where the agency does not revert, nothing falls back to PENDING.
LEMMA NeverExposedSafe ==
  ASSUME "PENDING" \notin Targets, IInv, NobodyRebooks, NeverExposed, [Next]_vars
  PROVE  NeverExposed'
<1>0. task \in [Handlers -> Tasks] BY DEF IInv, TypeOK
<1>1. ~Exposed'
  BY OvertakenWriteExposes DEF NeverExposed, Overtaken
<1>2. ASSUME NEW h \in Handlers
      PROVE  ~At(h, "count")' /\ (At(h, "write")' => task'[h].to # "PENDING")
  <2>1. CASE task'[h] = task[h] BY <2>1 DEF NeverExposed, At
  <2>2. CASE task'[h] # task[h]
    <3>1. PICK g \in Handlers : Start(g) \/ Step(g) \/ Crash(g)
      BY <2>2 DEF Next, vars, Depart, ShopperPays
    <3>2. g = h BY <1>0, <2>2, <3>1, TaskMoves
    <3>3. ~CountSettled(h) BY DEF CountSettled, NeverExposed
    <3>4. CASE RebookRead(h)
      BY <1>0, <3>4 DEF RebookRead, Begin, Become, UpdateTask, At
    <3>5. ASSUME NEW by \in {"customer", "agency"}, NEW to \in Targets,
                 task'[h] = UpdateTask(IF to = "PENDING" THEN "count" ELSE "write",
                                       by, booking, to)
          PROVE  ~At(h, "count")' /\ task'[h].to # "PENDING"
      <4>1. to # "PENDING" OBVIOUS
      <4>. QED BY <3>5, <4>1 DEF UpdateTask, At
    <3>. QED BY <3>1, <3>2, <3>3, <3>4, <3>5, UpdateMoves DEF At
  <2>. QED BY <2>1, <2>2
<1>. QED BY <1>1, <1>2 DEF NeverExposed

\* updateBookingStatus: without reverts and without createBooking's blind write,
\* no customer's request moves a booking with settled money, PENDING or not.
THEOREM CustomersNeverCancelSettled ==
  ASSUME "rebook" \notin Ops, "PENDING" \notin Targets
  PROVE  Spec => CustomerNeverCancelsSettled
<1>1. ASSUME IInv, NobodyRebooks, CustomersCancelPending, NeverExposed, [Next]_vars
      PROVE  \A h \in Handlers :
               task[h].by = "customer" /\ task'[h] # task[h] /\ Settled # {}
                  => booking' = booking
  BY <1>1, CustomersMovePending DEF NeverExposed, Exposed
<1>2. Init => NeverExposed
  BY DEF Init, NeverExposed, Exposed, Settled, HasStatus, At, Idle, PaymentTask, None
<1>3. IInv /\ NobodyRebooks /\ CustomersCancelPending /\ NeverExposed /\ [Next]_vars
        => CustomersCancelPending' /\ NeverExposed'
  BY CustomersNextSafe, NeverExposedSafe
<1>. QED
  BY <1>1, <1>2, <1>3, CustomersInitSafe, NobodyRebooksAlways, PTL
  DEF Spec, CustomerNeverCancelsSettled

-----------------------------------------------------------------------------
(* What is returned once.                                                  *)

\* A request that is returning money, and what it has not returned yet.
Refunding == {"scan", "refund", "flip", "mark", "allocate", "payout", "payFlip", "payMark"}

Untouched(h) ==
    /\ task[h].pc \in {"scan", "allocate"} => \A p \in Payments : sent[p] = 0
    /\ task[h].pc \in Refunding => \A p \in task[h].todo : sent[p] = 0

\* Without callbacks and retries one request at most returns money, and each
\* payment once.
RefundOnceInv ==
    /\ \A h \in Handlers :
         /\ task[h].pc \notin {"verify", "close", "settle", "settled", "claim", "owed"}
         /\ Untouched(h)
    /\ \A g, h \in Handlers :
         task[g].pc \in Refunding /\ task[h].pc \in Refunding => g = h
    /\ NeverOverReturned

\* The refund of a payment that was not touched is its price at most.
LEMMA OneRefund ==
  ASSUME sent \in [Payments -> 0..MaxSent], NEW p \in Payments, sent[p] = 0,
         NEW units \in 0..Price, NEW outcome, GatewayRefund(p, units, outcome)
  PROVE  sent'[p] <= Price /\ \A q \in Payments : q # p => sent'[q] = sent[q]
BY ConstantTypes DEF GatewayRefund, Smaller

\* Every other step returns nothing and makes no request return money.
LEMMA OthersReturnNothing ==
  ASSUME IInv, RefundOnceInv, "callback" \notin Ops, "retry" \notin Ops,
         NEW h \in Handlers, Start(h) \/ Step(h) \/ Crash(h),
         ~WriteStatus(h), ~Approve(h), ~CallRefund(h), ~CallPayout(h)
  PROVE  /\ sent' = sent
         /\ task'[h].pc \notin {"verify", "close", "settle", "settled", "claim", "owed"}
         /\ task'[h].pc \in Refunding => task[h].pc \in Refunding
         /\ task'[h].pc \notin {"scan", "allocate"}
         /\ task'[h].pc \in Refunding => \A p \in task'[h].todo : sent[p] = 0
<1>. USE DEF Begin, Become, Done, At, Idle, PaymentTask, UpdateTask, CallbackTask,
             RequestTask, PayoutTask, NextRefund, NextPayout, Refunding,
             paymentVars, requestVars, gatewayVars
<1>0. /\ task \in [Handlers -> Tasks] /\ Untouched(h) /\ task[h].todo \subseteq Payments
      /\ task[h].pc \notin {"verify", "close", "settle", "settled", "claim", "owed"}
      /\ Settled \subseteq Payments
  BY DEF IInv, TypeOK, Tasks, RefundOnceInv, Settled, HasStatus
<1>1. CASE Crash(h) BY <1>0, <1>1 DEF Crash
<1>2. CASE BookingStart(h) BY <1>0, <1>2 DEF BookingStart, UpdateRead, RebookRead
<1>3. CASE PaymentStart(h) BY <1>0, <1>3 DEF PaymentStart, CheckoutRead, CallbackRead
<1>4. CASE RefundStart(h) BY <1>0, <1>4 DEF RefundStart, ApplyRead, DecideRead, RetryRead
<1>5. CASE BookingStep(h)
  <2>1. CASE CountSettled(h) \/ WriteConflict(h) \/ RebookCancel(h)
    BY <1>0, <2>1 DEF CountSettled, WriteConflict, RebookCancel
  <2>2. CASE ScanSettled(h) BY <1>0, <2>2 DEF ScanSettled, Untouched
  <2>3. CASE RefundWithoutBankId(h) BY <1>0, <2>3 DEF RefundWithoutBankId, Untouched
  <2>4. CASE RecordRefund(h) \/ RecordFailure(h)
    BY <1>0, <2>4 DEF RecordRefund, RecordFailure, Untouched
  <2>. QED BY <1>5, <2>1, <2>2, <2>3, <2>4 DEF BookingStep
<1>6. CASE PaymentStep(h)
  BY <1>0, <1>6
  DEF PaymentStep, Supersede, CreateSession, InitSession, InitFails, VerifyValid,
      VerifyInvalid, CloseSession, SettleLost, Settle, AfterSettle
<1>7. CASE RefundStep(h)
  <2>1. CASE ApplyEligible(h) \/ InsertConflict(h) \/ InsertRequest(h) \/ Reject(h)
             \/ PriceApproval(h) \/ ApproveConflict(h) \/ Conclude(h)
    BY <1>0, <2>1
    DEF ApplyEligible, InsertConflict, InsertRequest, Reject, PriceApproval,
        ApproveConflict, Conclude
  <2>2. CASE Allocate(h) BY <1>0, <2>2 DEF Allocate, Untouched
  <2>3. CASE PayoutWithoutBankId(h) BY <1>0, <2>3 DEF PayoutWithoutBankId, Untouched, Oldest
  <2>4. CASE RecordPayout(h) BY <1>0, <2>4 DEF RecordPayout, Untouched
  <2>5. CASE RecordPayoutFailure(h) BY <1>0, <2>5 DEF RecordPayoutFailure, Untouched
  <2>6. CASE RetryClaim(h) \/ RetryRefused(h) \/ RetryOwed(h)
    BY <1>0, <2>6 DEF RetryClaim, RetryRefused, RetryOwed
  <2>. QED BY <1>7, <2>1, <2>2, <2>3, <2>4, <2>5, <2>6 DEF RefundStep
<1>. QED BY <1>1, <1>2, <1>3, <1>4, <1>5, <1>6, <1>7 DEF Start, Step

\* The turn of one request, the others keeping theirs.
LEMMA TurnKeeps ==
  ASSUME IInv, RefundOnceInv, NEW h \in Handlers,
         \A g \in Handlers \ {h} : task'[g] = task[g],
         task'[h].pc \notin {"verify", "close", "settle", "settled", "claim", "owed"},
         Untouched(h)', NeverOverReturned',
         sent' = sent \/ task[h].pc \in Refunding,
         task'[h].pc \in Refunding =>
           task[h].pc \in Refunding \/ booking # "CANCELLED"
  PROVE  RefundOnceInv'
<1>1. ASSUME NEW g \in Handlers \ {h}, task[g].pc \in Refunding
      PROVE  sent' = sent /\ task'[h].pc \notin Refunding
  <2>1. booking = "CANCELLED" BY <1>1 DEF IInv, Knows, Refunding, Cancelled
  <2>2. task[h].pc \notin Refunding BY <1>1 DEF RefundOnceInv
  <2>. QED BY <2>1, <2>2
<1>2. ASSUME NEW g \in Handlers PROVE Untouched(g)'
  <2>1. CASE g # h
    <3>1. task'[g] = task[g] /\ Untouched(g) BY <2>1 DEF RefundOnceInv
    <3>2. CASE task[g].pc \in Refunding
      BY <1>1, <2>1, <3>1, <3>2 DEF Untouched
    <3>3. CASE task[g].pc \notin Refunding
      BY <3>1, <3>3 DEF Untouched, Refunding
    <3>. QED BY <3>2, <3>3
  <2>. QED BY <2>1
<1>3. \A g, k \in Handlers :
        task'[g].pc \in Refunding /\ task'[k].pc \in Refunding => g = k
  <2>1. ASSUME NEW g \in Handlers, NEW k \in Handlers, g # k,
               task'[g].pc \in Refunding, task'[k].pc \in Refunding
        PROVE  FALSE
    <3>1. CASE g = h BY <1>1, <2>1, <3>1
    <3>2. CASE k = h BY <1>1, <2>1, <3>2
    <3>3. CASE g # h /\ k # h BY <2>1, <3>3 DEF RefundOnceInv
    <3>. QED BY <3>1, <3>2, <3>3
  <2>. QED BY <2>1
<1>4. \A g \in Handlers :
        task'[g].pc \notin {"verify", "close", "settle", "settled", "claim", "owed"}
  BY DEF RefundOnceInv
<1>. QED BY <1>2, <1>3, <1>4 DEF RefundOnceInv

\* It is kept by every step.
LEMMA RefundOnceNextSafe ==
  ASSUME IInv, RefundOnceInv, "callback" \notin Ops, "retry" \notin Ops, [Next]_vars
  PROVE  RefundOnceInv'
<1>. USE DEF paymentVars, requestVars, gatewayVars
<1>0. /\ task \in [Handlers -> Tasks] /\ sent \in [Payments -> 0..MaxSent]
      /\ NeverOverReturned /\ Price \in Nat
  BY ConstantTypes DEF IInv, TypeOK, RefundOnceInv
<1>1. ASSUME NEW h \in Handlers, Start(h) \/ Step(h) \/ Crash(h)
      PROVE  RefundOnceInv'
  <2>1. \A g \in Handlers \ {h} : task'[g] = task[g] BY <1>0, <1>1, TaskMoves
  <2>2. CASE WriteStatus(h) \/ Approve(h)
    <3>1. booking # "CANCELLED" /\ sent' = sent
      BY <2>2 DEF WriteStatus, StatusUnchanged, Approve, MayApprove, IInv, Knows, At
    <3>2. \A p \in Payments : sent'[p] = 0 BY <3>1, BeforeCancel
    <3>3. task'[h].pc \in {"scan", "idle", "allocate"} /\ task'[h].todo = {}
      BY <1>0, <2>2 DEF WriteStatus, Approve, Become, Done, Idle, PaymentTask, RequestTask
    <3>4. Untouched(h)' /\ NeverOverReturned'
      BY <1>0, <3>1, <3>2, <3>3 DEF Untouched, NeverOverReturned
    <3>. QED BY <2>1, <3>1, <3>3, <3>4, TurnKeeps
  <2>3. CASE CallRefund(h)
    <3>1. PICK p \in task[h].todo, outcome \in Outcomes :
            /\ GatewayRefund(p, Price, outcome)
            /\ task' = [task EXCEPT ![h] =
                          PaymentTask(Records(outcome), p, task[h].todo \ {p})]
      BY <2>3 DEF CallRefund, Become
    <3>2. task[h].pc \in Refunding /\ p \in Payments /\ task[h].todo \subseteq Payments
          /\ \A q \in task[h].todo : sent[q] = 0
      BY <1>0, <2>3 DEF CallRefund, At, Refunding, Tasks, RefundOnceInv, Untouched
    <3>3. sent'[p] <= Price /\ \A q \in Payments : q # p => sent'[q] = sent[q]
      BY <1>0, <3>1, <3>2, OneRefund
    <3>4. task'[h].pc \in {"flip", "mark"} /\ task'[h].todo = task[h].todo \ {p}
      BY <1>0, <3>1 DEF PaymentTask, Records
    <3>5. Untouched(h)' BY <3>2, <3>3, <3>4 DEF Untouched
    <3>6. NeverOverReturned' BY <1>0, <3>3 DEF NeverOverReturned
    <3>. QED BY <2>1, <3>2, <3>4, <3>5, <3>6, TurnKeeps
  <2>4. CASE CallPayout(h)
    <3>1. PICK p \in Oldest(task[h].todo), outcome \in Outcomes :
            /\ GatewayRefund(p, Slice(h), outcome)
            /\ task' = [task EXCEPT ![h] =
                          PayoutTask(IF outcome = "done" THEN "payFlip" ELSE "payMark",
                                     task[h].r, p, task[h].todo \ {p}, task[h].left,
                                     task[h].failed)]
      BY <2>4 DEF CallPayout, Become
    <3>2. task[h].pc \in Refunding /\ p \in Payments /\ p \in task[h].todo
          /\ task[h].todo \subseteq Payments /\ \A q \in task[h].todo : sent[q] = 0
      BY <1>0, <2>4, <3>1 DEF CallPayout, At, Refunding, Tasks, RefundOnceInv, Untouched, Oldest
    <3>3. sent'[p] <= Price /\ \A q \in Payments : q # p => sent'[q] = sent[q]
      <4>1. Slice(h) \in 0..Price BY <1>0 DEF Slice, Smaller, Tasks
      <4>. QED BY <1>0, <3>1, <3>2, <4>1, OneRefund
    <3>4. task'[h].pc \in {"payFlip", "payMark"} /\ task'[h].todo = task[h].todo \ {p}
      BY <1>0, <3>1 DEF PayoutTask
    <3>5. Untouched(h)' BY <3>2, <3>3, <3>4 DEF Untouched
    <3>6. NeverOverReturned' BY <1>0, <3>3 DEF NeverOverReturned
    <3>. QED BY <2>1, <3>2, <3>4, <3>5, <3>6, TurnKeeps
  <2>5. CASE ~WriteStatus(h) /\ ~Approve(h) /\ ~CallRefund(h) /\ ~CallPayout(h)
    <3>1. /\ sent' = sent
          /\ task'[h].pc \notin {"verify", "close", "settle", "settled", "claim", "owed"}
          /\ task'[h].pc \in Refunding => task[h].pc \in Refunding
          /\ task'[h].pc \notin {"scan", "allocate"}
          /\ task'[h].pc \in Refunding => \A p \in task'[h].todo : sent[p] = 0
      BY <1>1, <2>5, OthersReturnNothing
    <3>2. Untouched(h)' /\ NeverOverReturned'
      BY <1>0, <3>1 DEF Untouched, NeverOverReturned
    <3>. QED BY <2>1, <3>1, <3>2, TurnKeeps
  <2>. QED BY <2>2, <2>3, <2>4, <2>5
<1>2. CASE UNCHANGED vars \/ Depart \/ \E p \in Payments : ShopperPays(p)
  <2>1. UNCHANGED <<sent, task>> BY <1>2 DEF vars, Depart, ShopperPays
  <2>. QED BY <2>1 DEF RefundOnceInv, Untouched, NeverOverReturned
<1>. QED BY <1>1, <1>2 DEF Next

\* updateBookingStatus, decideRefundRequest: a direct cancellation and an
\* approval never both return a payment, for any number of either, stops
\* included; only a settlement that comes late or a retry may return it twice.
THEOREM ReturnedOnce ==
  ASSUME "callback" \notin Ops, "retry" \notin Ops
  PROVE  Spec => []NeverOverReturned
<1>1. Init => RefundOnceInv
  BY ConstantTypes
  DEF Init, RefundOnceInv, Untouched, NeverOverReturned, Refunding, Idle, PaymentTask
<1>2. IInv /\ RefundOnceInv /\ [Next]_vars => RefundOnceInv' BY RefundOnceNextSafe
<1>3. RefundOnceInv => NeverOverReturned BY DEF RefundOnceInv
<1>. QED BY <1>1, <1>2, <1>3, Inductive, PTL DEF Spec

-----------------------------------------------------------------------------
(* What is returned for an approval.                                       *)

\* The labels of a direct cancellation that returns money.
Direct == {"scan", "refund", "flip", "mark"}

\* A direct cancellation returns money only where nothing is approved, and no
\* payment went back for more than an approval.
ReturnInv ==
    /\ RefundOnceInv
    /\ \A h \in Handlers, r \in Requests : task[h].pc \in Direct => request[r] \notin Decided
    /\ \A p \in Payments, r \in Requests : request[r] \in Decided => sent[p] <= approved[r]

\* An approval is given on a booking that is not cancelled yet, and stands.
LEMMA DecidedBefore ==
  ASSUME IInv, [Next]_vars, NEW r \in Requests, request'[r] \in Decided
  PROVE  \/ request[r] \in Decided /\ approved'[r] = approved[r]
         \/ booking # "CANCELLED" /\ UNCHANGED sent
<1>0. /\ request \in [Requests -> RequestStatus \cup {None}]
      /\ \A h \in Handlers : Knows(task[h])
  BY DEF IInv, TypeOK
<1>1. CASE \E h \in Handlers : Approve(h)
  BY <1>1 DEF Approve, MayApprove, gatewayVars
<1>2. CASE ~\E h \in Handlers : Approve(h)
  <2>1. request[r] \in Decided
    BY <1>0, <1>2, RequestWrites
    DEF CloseApplications, CloseRequest, InsertRequest, Reject, RejectPending, Decided, None
  <2>2. approved' = approved
    BY <1>2, RequestWrites DEF InsertRequest, Reject
  <2>. QED BY <2>1, <2>2
<1>. QED BY <1>1, <1>2

\* Without callbacks only the cancellation of updateBookingStatus starts a
\* direct refund, and it closes what was applied for.
LEMMA DirectMoves ==
  ASSUME IInv, RefundOnceInv, NEW h \in Handlers, Start(h) \/ Step(h) \/ Crash(h),
         task'[h].pc \in Direct
  PROVE  task[h].pc \in Direct \/ (booking # "CANCELLED" /\ CloseApplications)
<1>. USE DEF Begin, Become, Done, At, Idle, PaymentTask, UpdateTask, CallbackTask,
             RequestTask, PayoutTask, NextRefund, NextPayout, Direct
<1>0. /\ task \in [Handlers -> Tasks] /\ task[h].pc # "settled"
      /\ Knows(task[h])
  BY DEF IInv, TypeOK, RefundOnceInv
<1>1. CASE Start(h) \/ Crash(h)
  BY <1>0, <1>1
  DEF Start, BookingStart, PaymentStart, RefundStart, Crash, UpdateRead, RebookRead,
      CheckoutRead, CallbackRead, ApplyRead, DecideRead, RetryRead
<1>2. CASE WriteStatus(h)
  BY <1>0, <1>2 DEF WriteStatus, StatusUnchanged, Knows
<1>3. CASE BookingStep(h) /\ ~WriteStatus(h)
  BY <1>0, <1>3
  DEF BookingStep, CountSettled, WriteConflict, ScanSettled, RefundWithoutBankId,
      CallRefund, RecordRefund, RecordFailure, RebookCancel
<1>4. CASE PaymentStep(h)
  BY <1>0, <1>4
  DEF PaymentStep, Supersede, CreateSession, InitSession, InitFails, VerifyValid,
      VerifyInvalid, CloseSession, SettleLost, Settle, AfterSettle
<1>5. CASE RefundStep(h)
  BY <1>0, <1>5
  DEF RefundStep, ApplyEligible, InsertConflict, InsertRequest, Reject, PriceApproval,
      ApproveConflict, Approve, Allocate, PayoutWithoutBankId, CallPayout, RecordPayout,
      RecordPayoutFailure, Conclude, RetryClaim, RetryRefused, RetryOwed
<1>. QED BY <1>1, <1>2, <1>3, <1>4, <1>5 DEF Step

\* What a step returns of payment p: nothing, or, to a direct cancellation, all
\* of it, or, to a payout, what was approved and nothing before.
LEMMA ReturnSteps ==
  ASSUME IInv, RefundOnceInv, "callback" \notin Ops, "retry" \notin Ops, [Next]_vars,
         NEW p \in Payments, sent'[p] # sent[p]
  PROVE  \E h \in Handlers :
           \/ task[h].pc \in Direct
           \/ /\ task[h].pc = "payout" /\ task[h].r \in Requests
              /\ request[task[h].r] \in Decided
              /\ sent'[p] <= approved[task[h].r] /\ UNCHANGED <<request, approved>>
<1>0. /\ task \in [Handlers -> Tasks] /\ sent \in [Payments -> 0..MaxSent]
      /\ Price \in Nat /\ MaxSent \in Nat
  BY ConstantTypes DEF IInv, TypeOK
<1>1. PICK h \in Handlers : CallRefund(h) \/ CallPayout(h)
  <2>1. CASE UNCHANGED vars \/ Depart \/ \E q \in Payments : ShopperPays(q)
    BY <2>1 DEF vars, Depart, ShopperPays, gatewayVars
  <2>2. ASSUME NEW h \in Handlers, WriteStatus(h) \/ Approve(h) PROVE sent' = sent
    BY <2>2 DEF WriteStatus, Approve, gatewayVars
  <2>. QED BY <2>1, <2>2, OthersReturnNothing DEF Next
<1>2. CASE CallRefund(h)
  BY <1>2 DEF CallRefund, At, Direct
<1>3. CASE CallPayout(h)
  <2>1. PICK q \in Oldest(task[h].todo), outcome \in Outcomes :
          GatewayRefund(q, Slice(h), outcome)
    BY <1>3 DEF CallPayout
  <2>2. /\ task[h].pc = "payout" /\ UNCHANGED <<request, approved>>
        /\ task[h].r \in Requests /\ request[task[h].r] \in Decided
        /\ task[h].left = approved[task[h].r]
    BY <1>3 DEF CallPayout, At, requestVars, IInv, Knows
  <2>3. task[h].left \in 0..Price BY <2>2, <1>0 DEF IInv, Rows
  <2>4. q = p /\ sent[p] = 0
    <3>1. q \in task[h].todo /\ task[h].todo \subseteq Payments
      BY <1>0, <2>1 DEF Oldest, Tasks
    <3>2. q = p BY <1>0, <2>1 DEF GatewayRefund
    <3>. QED BY <2>2, <3>1, <3>2 DEF RefundOnceInv, Untouched, Refunding
  <2>5. sent'[p] <= task[h].left
    BY <1>0, <2>1, <2>3, <2>4 DEF GatewayRefund, Slice, Smaller
  <2>. QED BY <2>2, <2>5
<1>. QED BY <1>1, <1>2, <1>3

LEMMA ReturnNextSafe ==
  ASSUME IInv, ReturnInv, "callback" \notin Ops, "retry" \notin Ops, [Next]_vars
  PROVE  ReturnInv'
<1>0. /\ task \in [Handlers -> Tasks] /\ sent \in [Payments -> 0..MaxSent]
      /\ RefundOnceInv /\ IInv'
  BY NextSafe DEF IInv, TypeOK, ReturnInv
<1>1. RefundOnceInv' BY <1>0, RefundOnceNextSafe
<1>2. ASSUME NEW h \in Handlers, NEW r \in Requests,
             task'[h].pc \in Direct, request'[r] \in Decided
      PROVE  FALSE
  <2>1. task[h].pc \in Direct \/ (booking # "CANCELLED" /\ CloseApplications)
    <3>1. CASE task'[h] = task[h] BY <1>2, <3>1
    <3>2. CASE task'[h] # task[h]
      <4>1. PICK g \in Handlers : Start(g) \/ Step(g) \/ Crash(g)
        BY <3>2 DEF Next, vars, Depart, ShopperPays
      <4>2. g = h BY <1>0, <3>2, <4>1, TaskMoves
      <4>. QED BY <1>0, <1>2, <4>1, <4>2, DirectMoves
    <3>. QED BY <3>1, <3>2
  <2>2. request[r] \in Decided \/ booking # "CANCELLED"
    BY <1>2, DecidedBefore
  <2>3. task[h].pc \in Direct => booking = "CANCELLED"
    BY DEF IInv, Knows, Direct, Cancelled
  <2>4. request[r] \in Decided => booking = "CANCELLED"
    BY DEF IInv, Rows, ApprovalCancels, Decided
  <2>5. ~(task[h].pc \in Direct /\ request[r] \in Decided) BY DEF ReturnInv
  <2>6. CloseApplications => request[r] \in Decided BY <1>2 DEF CloseApplications, Decided
  <2>. QED BY <2>1, <2>2, <2>3, <2>4, <2>5, <2>6
<1>3. ASSUME NEW p \in Payments, NEW r \in Requests, request'[r] \in Decided
      PROVE  sent'[p] <= approved'[r]
  <2>1. CASE booking # "CANCELLED" /\ UNCHANGED sent
    <3>1. sent'[p] = 0 BY <2>1, BeforeCancel
    <3>2. approved'[r] \in 1..Price BY <1>0, <1>3 DEF IInv, Rows
    <3>. QED BY <3>1, <3>2, ConstantTypes
  <2>2. CASE request[r] \in Decided /\ approved'[r] = approved[r]
    <3>1. CASE sent'[p] = sent[p] BY <2>2, <3>1 DEF ReturnInv
    <3>2. CASE sent'[p] # sent[p]
      <4>1. PICK h \in Handlers :
              /\ task[h].pc = "payout" /\ task[h].r \in Requests
              /\ request[task[h].r] \in Decided
              /\ sent'[p] <= approved[task[h].r]
        BY <1>0, <2>2, <3>2, ReturnSteps DEF ReturnInv
      <4>2. task[h].r = r
        BY <2>2, <4>1 DEF IInv, Rows, OneLiveApplication, Live, Decided
      <4>. QED BY <2>2, <4>1, <4>2
    <3>. QED BY <3>1, <3>2
  <2>. QED BY <1>3, <2>1, <2>2, DecidedBefore
<1>. QED BY <1>1, <1>2, <1>3 DEF ReturnInv

\* decideRefundRequest, runPayout, updateBookingStatus: however an approval, its
\* payout and direct cancellations interleave or stop half way, a payment goes
\* back for the approved amount at most, and an application reads REFUNDED only
\* when exactly that went back.
THEOREM ApprovalsReturnExactly ==
  ASSUME "callback" \notin Ops, "retry" \notin Ops
  PROVE  Spec => []ReturnsWhatWasApproved
<1>1. Init => ReturnInv
  BY ConstantTypes
  DEF Init, ReturnInv, RefundOnceInv, Untouched, NeverOverReturned, Refunding, Direct, Idle,
      PaymentTask, Decided, None
<1>2. IInv /\ ReturnInv /\ [Next]_vars => ReturnInv' BY ReturnNextSafe
<1>3. ASSUME IInv, ReturnInv PROVE ReturnsWhatWasApproved
  <2>1. sent \in [Payments -> 0..MaxSent] /\ approved \in [Requests -> Nat] /\ MaxSent \in Nat
    BY <1>3, ConstantTypes DEF IInv, TypeOK
  <2>2. ASSUME NEW r \in Requests, request[r] = "REFUNDED"
        PROVE  \E p \in Payments : sent[p] = approved[r]
    <3>1. PICK p \in Payments : sent[p] >= approved[r]
      BY <1>3, <2>2 DEF IInv, Rows, RefundedRequestWasPaid
    <3>2. sent[p] <= approved[r] BY <1>3, <2>2 DEF ReturnInv, Decided
    <3>. QED BY <2>1, <3>1, <3>2
  <2>. QED BY <1>3, <2>2 DEF ReturnInv, ReturnsWhatWasApproved, Decided
<1>. QED BY <1>1, <1>2, <1>3, Inductive, PTL DEF Spec

=============================================================================
