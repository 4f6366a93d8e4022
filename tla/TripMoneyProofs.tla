--------------------------- MODULE TripMoneyProofs --------------------------
(***************************************************************************)
(* Safety of TripMoney for any number of requests in flight, payments,     *)
(* refund requests, any price and any set of operations, crashes included. *)
(***************************************************************************)
EXTENDS TripMoneyInvariant, FiniteSetTheorems, TLAPS

rows == <<booking, departed, payment, marked, bank, request, approved, session, sent>>

RowTypes ==
    /\ booking \in BookingStatus
    /\ departed \in BOOLEAN
    /\ payment \in [Payments -> PaymentStatus \cup {None}]
    /\ marked \in [Payments -> BOOLEAN]
    /\ bank \in [Payments -> BOOLEAN]
    /\ request \in [Requests -> RequestStatus \cup {None}]
    /\ approved \in [Requests -> Nat]
    /\ fresh \in [Requests -> SUBSET Handlers]
    /\ session \in [Payments -> {"none", "open", "paid"}]
    /\ sent \in [Payments -> 0..MaxSent]

\* How the rows may move under a request that remembers an earlier state.
Shift ==
    /\ booking = "CANCELLED" => booking' = "CANCELLED"
    /\ \A p \in Payments : payment[p] \in Money => payment'[p] \in Money
    /\ \A p \in Payments : payment[p] # None => payment'[p] # None
    /\ \A p \in Payments : booking' # "CANCELLED" /\ payment[p] = "SUCCESS" =>
                             payment'[p] = "SUCCESS"
    /\ \A p \in Payments : sent'[p] >= sent[p]
    /\ \A p \in Payments : session[p] = "paid" => session'[p] = "paid"
    /\ \A r \in Requests : request[r] \in Decided =>
                             request'[r] \in Decided /\ approved'[r] = approved[r]

-----------------------------------------------------------------------------

\* The assumptions on the constants, in the form the provers use.
LEMMA ConstantTypes ==
    /\ MaxPayments \in Nat /\ MaxRequests \in Nat /\ MaxSent \in Nat
    /\ Price \in Nat /\ Price > 0 /\ Price < MaxSent
    /\ Shares \subseteq 0..Price
BY PricePositive, BoundsAreNat, MaxSentRoom, SharesOfPrice

\* What a request remembers has the types of Tasks, by the way it is built.
LEMMA TaskTypes ==
  /\ \A l \in Labels, p \in Payments \cup {0}, todo \in SUBSET Payments :
       PaymentTask(l, p, todo) \in Tasks
  /\ \A l \in Labels, p \in Payments, to \in PaymentStatus \cup {None} :
       CallbackTask(l, p, to) \in Tasks
  /\ \A l \in Labels, r \in Requests \cup {0}, left \in Nat :
       RequestTask(l, r, left) \in Tasks
  /\ \A l \in Labels, r \in Requests, p \in Payments \cup {0},
        todo \in SUBSET Payments, left \in Nat, failed \in BOOLEAN :
       PayoutTask(l, r, p, todo, left, failed) \in Tasks
BY ConstantTypes
DEF PaymentTask, CallbackTask, RequestTask, PayoutTask, Tasks, Roles, Payments, Requests

\* A request that has ended is a task that knows nothing.
LEMMA IdleIsTask == Idle \in Tasks /\ Knows(Idle)
<1>1. Idle \in Tasks
  BY ConstantTypes DEF Idle, PaymentTask, Tasks, Labels, Roles, None, Payments
<1>2. Knows(Idle)
  BY DEF Idle, PaymentTask, Knows, Cancelled
<1>. QED BY <1>1, <1>2

\* What a request knows survives every shift of the rows; that its own new row
\* has no session yet is the caller's to show.
LEMMA KnowsStable ==
  ASSUME RowTypes, RowTypes', Shift,
         NEW t \in Tasks, Knows(t),
         t.pc = "init" => session'[t.p] = "none"
  PROVE  Knows(t)'
BY ConstantTypes DEF Knows, Shift, RowTypes, Returned, Tasks, Cancelled, Money, Decided

\* The types of the rows and of the requests in flight, apart.
LEMMA TypeSplit == TypeOK <=> RowTypes /\ task \in [Handlers -> Tasks]
BY DEF TypeOK, RowTypes

\* One request moves to t while the rows shift.
LEMMA Compose ==
  ASSUME IInv, NEW h \in Handlers, NEW t \in Tasks,
         task' = [task EXCEPT ![h] = t],
         RowTypes', Shift, Rows', Knows(t)',
         \A g \in Handlers \ {h} : At(g, "init") => session'[task[g].p] = "none",
         t.pc = "init" => \A g \in Handlers \ {h} : At(g, "init") => task[g].p # t.p
  PROVE  IInv'
<1>1. TypeOK'
  BY TypeSplit DEF IInv, TypeOK, RowTypes
<1>2. ASSUME NEW g \in Handlers PROVE Knows(task[g])'
  <2>1. CASE g = h
    <3>1. task'[g] = t BY <2>1 DEF IInv, TypeOK
    <3>. QED BY <3>1 DEF Knows, Returned
  <2>2. CASE g # h
    <3>1. task'[g] = task[g] /\ task[g] \in Tasks BY <2>2 DEF IInv, TypeOK
    <3>2. Knows(task[g]) /\ RowTypes BY DEF IInv, TypeOK, RowTypes
    <3>3. task[g].pc = "init" => session'[task[g].p] = "none" BY <2>2 DEF At
    <3>4. PICK u \in Tasks : u = task[g] BY <3>1
    <3>5. Knows(u)' BY <3>2, <3>3, <3>4, KnowsStable
    <3>. QED BY <3>1, <3>4, <3>5 DEF Knows, Returned
  <2>. QED BY <2>1, <2>2
<1>3. OwnRow'
  BY DEF IInv, OwnRow, At, TypeOK
<1>. QED BY <1>1, <1>2, <1>3 DEF IInv

\* One request moves to t and reads only: nothing in the rows changes.
LEMMA LocalStep ==
  ASSUME IInv, NEW h \in Handlers, NEW t \in Tasks,
         task' = [task EXCEPT ![h] = t],
         UNCHANGED rows, fresh' \in [Requests -> SUBSET Handlers],
         Knows(t), t.pc # "init"
  PROVE  IInv'
<1>1. RowTypes' BY DEF IInv, TypeOK, RowTypes, rows
<1>2. Shift BY <1>1, ConstantTypes DEF IInv, TypeOK, Shift, rows
<1>3. Rows'
  BY DEF IInv, Rows, rows, RefundsOnlyAfterCancel, RefundedMeansReturned, PaidHasMoney,
         ApprovalCancels, OneLiveApplication, RefundedRequestWasPaid, Live
<1>4. Knows(t)' BY DEF Knows, Returned, rows
<1>5. \A g \in Handlers \ {h} : At(g, "init") => session'[task[g].p] = "none"
  BY DEF IInv, Knows, At, rows
<1>. QED BY <1>1, <1>2, <1>3, <1>4, <1>5, Compose

-----------------------------------------------------------------------------
(* booking.service.ts                                                      *)

\* updateBookingStatus: the read and the check of the rule.
LEMMA UpdateReadSafe ==
  ASSUME IInv, NEW h \in Handlers, UpdateRead(h)
  PROVE  IInv'
<1>1. PICK by \in {"customer", "agency"}, to \in Targets :
        /\ Allowed(by, booking, to)
        /\ task' = [task EXCEPT ![h] =
             UpdateTask(IF to = "PENDING" THEN "count" ELSE "write", by, booking, to)]
        /\ UNCHANGED <<rows, fresh>>
  BY DEF UpdateRead, Begin, Become, rows, paymentVars, requestVars, gatewayVars
<1>. DEFINE t == UpdateTask(IF to = "PENDING" THEN "count" ELSE "write", by, booking, to)
<1>2. to \in {"PENDING", "CONFIRMED", "COMPLETED", "CANCELLED"} BY SmallSets
<1>3. t \in Tasks
  BY <1>2, ConstantTypes DEF IInv, TypeOK, UpdateTask, Tasks, Labels, Roles, BookingStatus, Payments
<1>4. Knows(t)
  BY <1>1, <1>2 DEF Knows, UpdateTask, Cancelled, Allowed, AgencyMoves, CustomerMoves, BookingStatus
<1>5. t.pc # "init" BY DEF UpdateTask
<1>6. fresh' \in [Requests -> SUBSET Handlers] BY <1>1 DEF IInv, TypeOK
<1>. HIDE DEF t
<1>. QED BY <1>1, <1>3, <1>4, <1>5, <1>6, LocalStep DEF t

\* The reads of updateBookingStatus, issueRefunds and createBooking.
LEMMA BookingReadsSafe ==
  ASSUME IInv, NEW h \in Handlers,
         CountSettled(h) \/ WriteConflict(h) \/ ScanSettled(h) \/ RebookRead(h)
  PROVE  IInv'
<1>. USE DEF paymentVars, requestVars, gatewayVars
<1>0. task[h] \in Tasks /\ Knows(task[h]) /\ fresh \in [Requests -> SUBSET Handlers]
  BY DEF IInv, TypeOK
<1>1. CASE CountSettled(h)
  <2>. DEFINE t == UpdateTask("write", task[h].by, task[h].was,
                              IF Settled = {} THEN "PENDING" ELSE "PAID")
  <2>1. t \in Tasks
    BY <1>0, ConstantTypes DEF UpdateTask, Tasks, Labels, BookingStatus
  <2>2. Knows(t)
    BY <1>0, <1>1 DEF CountSettled, At, UpdateTask, Knows, Cancelled, Settled, HasStatus,
                      BookingStatus
  <2>3. t.pc # "init" BY DEF UpdateTask
  <2>4. task' = [task EXCEPT ![h] = t] /\ UNCHANGED <<rows, fresh>>
    BY <1>1 DEF CountSettled, Become, rows, RevertTarget
  <2>. HIDE DEF t
  <2>. QED BY <1>0, <2>1, <2>2, <2>3, <2>4, LocalStep
<1>2. CASE WriteConflict(h)
  <2>1. task' = [task EXCEPT ![h] = Idle] /\ UNCHANGED <<rows, fresh>>
    BY <1>2 DEF WriteConflict, Done, Become, rows
  <2>2. Idle.pc # "init" BY DEF Idle, PaymentTask
  <2>. QED BY <1>0, <2>1, <2>2, IdleIsTask, LocalStep
<1>3. CASE ScanSettled(h)
  <2>. DEFINE t == IF Settled = {} THEN Idle ELSE PaymentTask("refund", 0, Settled)
  <2>1. t \in Tasks
    BY IdleIsTask, TaskTypes DEF Labels, Settled, HasStatus
  <2>2. Knows(t)
    BY <1>0, <1>3, IdleIsTask
    DEF ScanSettled, At, Knows, PaymentTask, Cancelled, Settled, HasStatus, Money
  <2>3. t.pc # "init" BY DEF Idle, PaymentTask
  <2>4. task' = [task EXCEPT ![h] = t] /\ UNCHANGED <<rows, fresh>>
    BY <1>3 DEF ScanSettled, Done, Become, rows
  <2>. HIDE DEF t
  <2>. QED BY <1>0, <2>1, <2>2, <2>3, <2>4, LocalStep
<1>4. CASE RebookRead(h)
  <2>. DEFINE t == UpdateTask("overwrite", "customer", "PENDING", "CANCELLED")
  <2>1. t \in Tasks
    BY ConstantTypes DEF UpdateTask, Tasks, Labels, Roles, BookingStatus
  <2>2. Knows(t) BY DEF Knows, UpdateTask, Cancelled
  <2>3. t.pc # "init" BY DEF UpdateTask
  <2>4. task' = [task EXCEPT ![h] = t] /\ UNCHANGED <<rows, fresh>>
    BY <1>4 DEF RebookRead, Begin, Become, rows
  <2>. HIDE DEF t
  <2>. QED BY <1>0, <2>1, <2>2, <2>3, <2>4, LocalStep
<1>. QED BY <1>1, <1>2, <1>3, <1>4

\* Before the cancellation no money has gone back and nothing is decided.
LEMMA BeforeCancel ==
  ASSUME IInv, booking # "CANCELLED"
  PROVE  /\ \A p \in Payments : sent[p] = 0 /\ payment[p] # "REFUNDED"
         /\ \A r \in Requests : request[r] \notin Decided
BY ConstantTypes DEF IInv, TypeOK, Rows, RefundsOnlyAfterCancel, RefundedMeansReturned,
                     ApprovalCancels, Decided

\* updateBookingStatus: the transaction.
LEMMA WriteStatusSafe ==
  ASSUME IInv, NEW h \in Handlers, WriteStatus(h)
  PROVE  IInv'
<1>7. PICK t \in Tasks :
        t = IF task[h].to = "CANCELLED" THEN PaymentTask("scan", 0, {}) ELSE Idle
  <2>1. PaymentTask("scan", 0, {}) \in Tasks BY TaskTypes DEF Labels
  <2>. QED BY <2>1, IdleIsTask
<1>0. task[h] \in Tasks /\ Knows(task[h]) /\ At(h, "write") BY DEF IInv, TypeOK, WriteStatus
<1>1. booking \in {"PENDING", "PAID", "CONFIRMED"} /\ task[h].to \in BookingStatus
  BY <1>0 DEF WriteStatus, Knows, At, StatusUnchanged
<1>2. /\ \A p \in Payments : sent[p] = 0 /\ payment[p] # "REFUNDED"
      /\ \A r \in Requests : request[r] \notin Decided
  BY <1>1, BeforeCancel
<1>3. /\ booking' = task[h].to /\ task' = [task EXCEPT ![h] = t]
      /\ \A p \in Payments : payment'[p] = payment[p] \/
           (booking' = "CANCELLED" /\ payment[p] = "INITIATED" /\ payment'[p] = "CANCELLED")
      /\ \A r \in Requests : request'[r] = request[r] \/
           (booking' = "CANCELLED" /\ request[r] = "PENDING" /\ request'[r] = "REJECTED")
      /\ UNCHANGED <<departed, marked, bank, approved, fresh, session, sent>>
  <2>1. CASE task[h].to = "CANCELLED"
    BY <1>0, <1>7, <2>1 DEF IInv, TypeOK, WriteStatus, AbandonSessions, CloseApplications, Become, gatewayVars
  <2>2. CASE task[h].to # "CANCELLED"
    BY <1>7, <2>2 DEF WriteStatus, Done, Become, gatewayVars
  <2>. QED BY <2>1, <2>2
<1>4. RowTypes'
  BY <1>1 DEF IInv, TypeOK, RowTypes, WriteStatus, AbandonSessions, CloseApplications,
              gatewayVars, PaymentStatus, RequestStatus
<1>5. Shift
  BY <1>1, <1>2, <1>3, ConstantTypes DEF IInv, TypeOK, Shift, Money, None
<1>6. Rows'
  <2>1. PaidHasMoney'
    BY <1>0, <1>1, <1>3 DEF PaidHasMoney, Knows, At
  <2>2. OneLiveApplication'
    BY <1>3 DEF IInv, Rows, OneLiveApplication, Live
  <2>. QED
    BY <1>1, <1>2, <1>3, <2>1, <2>2
    DEF IInv, Rows, RefundsOnlyAfterCancel, RefundedMeansReturned, ApprovalCancels,
        RefundedRequestWasPaid, Money, Decided, None
<1>8. Knows(t)' /\ t.pc # "init"
  <2>1. CASE task[h].to = "CANCELLED"
    BY <1>3, <1>7, <2>1 DEF PaymentTask, Knows, Cancelled
  <2>2. CASE task[h].to # "CANCELLED"
    BY <1>7, <2>2 DEF Idle, PaymentTask, Knows, Cancelled
  <2>. QED BY <2>1, <2>2
<1>9. \A g \in Handlers \ {h} : At(g, "init") => session'[task[g].p] = "none"
  BY <1>3 DEF IInv, Knows, At
<1>. QED BY <1>3, <1>4, <1>5, <1>6, <1>8, <1>9, Compose

\* createBooking: the blind write of CANCELLED.
LEMMA RebookCancelSafe ==
  ASSUME IInv, NEW h \in Handlers, RebookCancel(h)
  PROVE  IInv'
<1>1. /\ booking' = "CANCELLED" /\ task' = [task EXCEPT ![h] = Idle]
      /\ UNCHANGED <<departed, payment, marked, bank, request, approved, fresh, session, sent>>
  BY DEF RebookCancel, Done, Become, IInv, Knows, At, gatewayVars, paymentVars, requestVars
<1>2. RowTypes' BY <1>1 DEF IInv, TypeOK, RowTypes, BookingStatus
<1>3. Shift BY <1>1, ConstantTypes DEF IInv, TypeOK, Shift
<1>4. Rows'
  BY <1>1 DEF IInv, Rows, RefundsOnlyAfterCancel, RefundedMeansReturned, PaidHasMoney,
              ApprovalCancels, OneLiveApplication, RefundedRequestWasPaid, Live
<1>5. Knows(Idle)' /\ Idle.pc # "init" BY DEF Idle, PaymentTask, Knows, Cancelled
<1>6. \A g \in Handlers \ {h} : At(g, "init") => session'[task[g].p] = "none"
  BY <1>1 DEF IInv, Knows, At
<1>. QED BY <1>1, <1>2, <1>3, <1>4, <1>5, <1>6, IdleIsTask, Compose

-----------------------------------------------------------------------------
(* The three effects of the refund loops on the rows, shared by            *)
(* issueRefunds and runPayout.                                             *)

\* A gateway refund of a row that took money, on a cancelled booking, keeps the rows.
LEMMA GatewayRefundRows ==
  ASSUME IInv, booking = "CANCELLED", NEW p \in Payments, payment[p] \in Money,
         NEW units \in 1..Price, NEW outcome \in Outcomes, GatewayRefund(p, units, outcome),
         UNCHANGED <<booking, departed, payment, marked, bank, request, approved, fresh, session>>
  PROVE  RowTypes' /\ Shift /\ Rows' /\ (outcome = "done" => sent'[p] >= units)
<1>0. sent \in [Payments -> 0..MaxSent] /\ units \in Nat /\ units <= Price /\ units > 0
  BY ConstantTypes DEF IInv, TypeOK
<1>1. /\ sent' \in [Payments -> 0..MaxSent]
      /\ \A q \in Payments : sent'[q] >= sent[q] /\ (q # p => sent'[q] = sent[q])
      /\ outcome = "done" => sent'[p] >= units
  BY <1>0, ConstantTypes DEF GatewayRefund, Smaller
<1>2. RowTypes' BY <1>1 DEF IInv, TypeOK, RowTypes
<1>3. Shift BY <1>1, <1>0 DEF Shift
<1>4. Rows'
  <2>1. session[p] = "paid" BY DEF IInv, Rows
  <2>2. RefundsOnlyAfterCancel' BY <1>0, <1>1, <2>1 DEF IInv, Rows, RefundsOnlyAfterCancel
  <2>3. RefundedMeansReturned' BY <1>0, <1>1 DEF IInv, Rows, RefundedMeansReturned
  <2>4. RefundedRequestWasPaid'
    <3>. SUFFICES ASSUME NEW r \in Requests, request[r] = "REFUNDED"
                  PROVE  \E q \in Payments : sent'[q] >= approved[r]
      BY DEF RefundedRequestWasPaid
    <3>1. PICK q \in Payments : sent[q] >= approved[r]
      BY DEF IInv, Rows, RefundedRequestWasPaid
    <3>2. approved[r] \in Nat BY DEF IInv, TypeOK
    <3>. QED BY <1>0, <1>1, <3>1, <3>2
  <2>5. \A q \in Payments, r \in Requests :
          payment[q] = "REFUNDED" /\ request[r] \in Decided => sent'[q] >= approved[r]
    BY <1>0, <1>1 DEF IInv, TypeOK, Rows
  <2>. QED BY <2>2, <2>3, <2>4, <2>5
       DEF IInv, Rows, PaidHasMoney, ApprovalCancels, OneLiveApplication, Live
<1>. QED BY <1>1, <1>2, <1>3, <1>4

\* So does flipping a row to REFUNDED once enough was returned for it,
LEMMA FlipRows ==
  ASSUME IInv, booking = "CANCELLED", NEW p \in Payments, payment[p] \in Money,
         sent[p] > 0,
         \A r \in Requests : request[r] \in Decided => sent[p] >= approved[r],
         FlipRefunded(p),
         UNCHANGED <<booking, departed, marked, bank, request, approved, fresh, session, sent>>
  PROVE  RowTypes' /\ Shift /\ Rows'
<1>0. payment \in [Payments -> PaymentStatus \cup {None}] BY DEF IInv, TypeOK
<1>1. /\ payment' \in [Payments -> PaymentStatus \cup {None}]
      /\ payment'[p] = "REFUNDED"
      /\ \A q \in Payments : q # p => payment'[q] = payment[q]
  BY <1>0 DEF FlipRefunded, PaymentStatus, Money
<1>2. RowTypes' BY <1>1 DEF IInv, TypeOK, RowTypes
<1>3. Shift BY <1>1 DEF IInv, TypeOK, Shift, Money, None
<1>4. Rows'
  BY <1>1 DEF IInv, Rows, RefundsOnlyAfterCancel, RefundedMeansReturned, PaidHasMoney,
              ApprovalCancels, OneLiveApplication, RefundedRequestWasPaid, Live, Money, None
<1>. QED BY <1>2, <1>3, <1>4

\* and so does marking a row for the retry.
LEMMA MarkRows ==
  ASSUME IInv, NEW p \in Payments, MarkRetry(p),
         UNCHANGED <<booking, departed, payment, bank, request, approved, fresh, session, sent>>
  PROVE  RowTypes' /\ Shift /\ Rows'
<1>1. RowTypes' BY DEF IInv, TypeOK, RowTypes, MarkRetry
<1>2. Shift BY DEF IInv, TypeOK, Shift
<1>3. Rows'
  BY DEF IInv, Rows, RefundsOnlyAfterCancel, RefundedMeansReturned, PaidHasMoney,
         ApprovalCancels, OneLiveApplication, RefundedRequestWasPaid, Live
<1>. QED BY <1>1, <1>2, <1>3

-----------------------------------------------------------------------------
(* issueRefunds                                                            *)

\* The rest of the list is as good as the list.
LEMMA NextRefundKnows ==
  ASSUME booking' = "CANCELLED", NEW todo \in SUBSET Payments,
         \A q \in todo : payment'[q] \in Money
  PROVE  \E t \in Tasks : /\ t = IF todo = {} THEN Idle ELSE PaymentTask("refund", 0, todo)
                          /\ Knows(t)' /\ t.pc # "init"
<1>1. PaymentTask("refund", 0, todo) \in Tasks BY TaskTypes DEF Labels
<1>2. Knows(PaymentTask("refund", 0, todo))' BY DEF Knows, PaymentTask, Cancelled
<1>3. Knows(Idle)' BY DEF Knows, Idle, PaymentTask, Cancelled
<1>4. Idle.pc # "init" /\ PaymentTask("refund", 0, todo).pc # "init" BY DEF Idle, PaymentTask
<1>. QED BY <1>1, <1>2, <1>3, <1>4, IdleIsTask

\* issueRefunds: each step of the loop.
LEMMA RefundLoopSafe ==
  ASSUME IInv, NEW h \in Handlers,
         RefundWithoutBankId(h) \/ CallRefund(h) \/ RecordRefund(h) \/ RecordFailure(h)
  PROVE  IInv'
<1>. USE DEF paymentVars, requestVars, gatewayVars
<1>0. /\ task[h] \in Tasks /\ Knows(task[h]) /\ task[h].todo \in SUBSET Payments
      /\ task[h].pc \in {"refund", "flip", "mark"} /\ booking = "CANCELLED"
      /\ \A q \in task[h].todo : payment[q] \in Money
      /\ task[h].pc \in {"flip", "mark"} => task[h].p \in Payments /\ payment[task[h].p] \in Money
  BY DEF IInv, TypeOK, Tasks, Knows, Cancelled, At,
         RefundWithoutBankId, CallRefund, RecordRefund, RecordFailure
<1>i. session' = session => \A g \in Handlers \ {h} : At(g, "init") => session'[task[g].p] = "none"
  BY DEF IInv, Knows, At
<1>1. CASE RefundWithoutBankId(h)
  <2>1. PICK p \in task[h].todo : MarkRetry(p) /\ NextRefund(h, task[h].todo \ {p})
    BY <1>1 DEF RefundWithoutBankId
  <2>2. UNCHANGED <<booking, departed, payment, bank, request, approved, fresh, session, sent>>
    BY <1>1 DEF RefundWithoutBankId
  <2>3. RowTypes' /\ Shift /\ Rows' BY <1>0, <2>1, <2>2, MarkRows
  <2>4. PICK t \in Tasks : /\ task' = [task EXCEPT ![h] = t]
                           /\ Knows(t)' /\ t.pc # "init"
    BY <1>0, <2>1, <2>2, NextRefundKnows DEF NextRefund, Become
  <2>. QED BY <1>i, <2>2, <2>3, <2>4, Compose
<1>2. CASE CallRefund(h)
  <2>1. PICK p \in task[h].todo, outcome \in Outcomes :
          /\ GatewayRefund(p, Price, outcome)
          /\ task' = [task EXCEPT ![h] =
               PaymentTask(IF outcome = "done" THEN "flip" ELSE "mark", p, task[h].todo \ {p})]
    BY <1>2 DEF CallRefund, Become, Records
  <2>2. UNCHANGED <<booking, departed, payment, marked, bank, request, approved, fresh, session>>
    BY <1>2 DEF CallRefund
  <2>3. RowTypes' /\ Shift /\ Rows' /\ (outcome = "done" => sent'[p] >= Price)
    BY <1>0, <2>1, <2>2, ConstantTypes, GatewayRefundRows
  <2>4. PICK t \in Tasks :
          t = PaymentTask(IF outcome = "done" THEN "flip" ELSE "mark", p, task[h].todo \ {p})
    <3>1. (IF outcome = "done" THEN "flip" ELSE "mark") \in Labels BY DEF Labels
    <3>. QED BY <1>0, <2>1, <3>1, TaskTypes
  <2>5. Knows(t)' /\ t.pc # "init"
    BY <1>0, <2>2, <2>3, <2>4 DEF PaymentTask, Knows, Cancelled
  <2>. QED BY <1>i, <2>1, <2>2, <2>3, <2>4, <2>5, Compose
<1>3. CASE RecordRefund(h)
  <2>1. FlipRefunded(task[h].p) /\ NextRefund(h, task[h].todo) /\ task[h].pc = "flip"
    BY <1>3 DEF RecordRefund, At
  <2>2. UNCHANGED <<booking, departed, marked, bank, request, approved, fresh, session, sent>>
    BY <1>3 DEF RecordRefund
  <2>3. sent[task[h].p] >= Price /\ sent[task[h].p] \in Nat
    BY <1>0, <2>1, ConstantTypes DEF Knows, IInv, TypeOK
  <2>4. \A r \in Requests : request[r] \in Decided => sent[task[h].p] >= approved[r]
    BY <2>3, ConstantTypes DEF IInv, Rows
  <2>5. RowTypes' /\ Shift /\ Rows' BY <1>0, <2>1, <2>2, <2>3, <2>4, ConstantTypes, FlipRows
  <2>6. \A q \in task[h].todo : payment'[q] \in Money BY <1>0, <2>5 DEF Shift
  <2>7. PICK t \in Tasks : /\ task' = [task EXCEPT ![h] = t]
                           /\ Knows(t)' /\ t.pc # "init"
    BY <1>0, <2>1, <2>2, <2>6, NextRefundKnows DEF NextRefund, Become
  <2>. QED BY <1>i, <2>2, <2>5, <2>7, Compose
<1>4. CASE RecordFailure(h)
  <2>1. MarkRetry(task[h].p) /\ NextRefund(h, task[h].todo) /\ task[h].p \in Payments
    BY <1>0, <1>4 DEF RecordFailure, At
  <2>2. UNCHANGED <<booking, departed, payment, bank, request, approved, fresh, session, sent>>
    BY <1>4 DEF RecordFailure
  <2>3. RowTypes' /\ Shift /\ Rows' BY <2>1, <2>2, MarkRows
  <2>4. PICK t \in Tasks : /\ task' = [task EXCEPT ![h] = t]
                           /\ Knows(t)' /\ t.pc # "init"
    BY <1>0, <2>1, <2>2, NextRefundKnows DEF NextRefund, Become
  <2>. QED BY <1>i, <2>2, <2>3, <2>4, Compose
<1>. QED BY <1>1, <1>2, <1>3, <1>4

\* booking.service.ts keeps the invariant.
LEMMA BookingSafe ==
  ASSUME IInv, NEW h \in Handlers, BookingStart(h) \/ BookingStep(h)
  PROVE  IInv'
BY UpdateReadSafe, BookingReadsSafe, WriteStatusSafe, RebookCancelSafe, RefundLoopSafe
DEF BookingStart, BookingStep

-----------------------------------------------------------------------------
(* payment.service.ts                                                      *)

\* The reads of createPaymentSession and processGatewayResult.
LEMMA CheckoutReadsSafe ==
  ASSUME IInv, NEW h \in Handlers,
         CheckoutRead(h) \/ Supersede(h) \/ CallbackRead(h) \/ VerifyValid(h)
         \/ VerifyInvalid(h) \/ SettleLost(h) \/ AfterSettle(h)
  PROVE  IInv'
<1>. USE DEF paymentVars, requestVars, gatewayVars
<1>0. task[h] \in Tasks /\ Knows(task[h]) /\ fresh \in [Requests -> SUBSET Handlers]
  BY DEF IInv, TypeOK
<1>1. UNCHANGED <<rows, fresh>>
  BY DEF CheckoutRead, Supersede, CallbackRead, VerifyValid, VerifyInvalid, SettleLost,
         AfterSettle, rows
<1>2. \E t \in Tasks : task' = [task EXCEPT ![h] = t] /\ Knows(t) /\ t.pc # "init"
  <2>1. CASE CheckoutRead(h)
    <3>1. PaymentTask("supersede", 0, {}) \in Tasks BY TaskTypes DEF Labels
    <3>2. Knows(PaymentTask("supersede", 0, {})) BY DEF PaymentTask, Knows, Cancelled
    <3>3. PaymentTask("supersede", 0, {}).pc # "init" BY DEF PaymentTask
    <3>. QED BY <2>1, <3>1, <3>2, <3>3 DEF CheckoutRead, Begin, Become
  <2>2. CASE Supersede(h)
    <3>. DEFINE t == PaymentTask("create", 0, HasStatus("INITIATED"))
    <3>1. t \in Tasks BY TaskTypes DEF Labels, HasStatus
    <3>2. Knows(t) /\ t.pc # "init" BY DEF PaymentTask, Knows, Cancelled
    <3>3. task' = [task EXCEPT ![h] = t] BY <2>2 DEF Supersede, Become
    <3>. HIDE DEF t
    <3>. QED BY <3>1, <3>2, <3>3
  <2>3. CASE CallbackRead(h)
    <3>1. PICK p \in Payments, pc \in {"verify", "close"}, to \in {None, "CANCELLED", "FAILED"} :
            /\ task' = [task EXCEPT ![h] = CallbackTask(pc, p, to)]
            /\ pc = "close" => to # None
            /\ session[p] # "none"
      BY <2>3 DEF CallbackRead, Begin, Become, None
    <3>2. CallbackTask(pc, p, to) \in Tasks BY TaskTypes DEF Labels, PaymentStatus
    <3>3. payment[p] # None BY <3>1 DEF IInv, Rows
    <3>4. Knows(CallbackTask(pc, p, to)) /\ CallbackTask(pc, p, to).pc # "init"
      BY <3>1, <3>3 DEF CallbackTask, Knows, Cancelled, None
    <3>. QED BY <3>1, <3>2, <3>4
  <2>4. CASE VerifyValid(h)
    <3>. DEFINE t == CallbackTask("settle", task[h].p, None)
    <3>0. task[h].p \in Payments /\ payment[task[h].p] # None
      BY <1>0, <2>4 DEF VerifyValid, At, Knows
    <3>1. t \in Tasks BY <3>0, TaskTypes DEF Labels
    <3>2. Knows(t) /\ t.pc # "init"
      BY <2>4, <3>0 DEF VerifyValid, CallbackTask, Knows, Cancelled
    <3>3. task' = [task EXCEPT ![h] = t] BY <2>4 DEF VerifyValid, Become
    <3>. HIDE DEF t
    <3>. QED BY <3>1, <3>2, <3>3
  <2>5. CASE VerifyInvalid(h)
    <3>. DEFINE t == CallbackTask("close", task[h].p, "FAILED")
    <3>0. task[h].p \in Payments /\ payment[task[h].p] # None
      BY <1>0, <2>5 DEF VerifyInvalid, At, Knows
    <3>1. t \in Tasks BY <3>0, TaskTypes DEF Labels, PaymentStatus
    <3>2. Knows(t) /\ t.pc # "init" BY <3>0 DEF CallbackTask, Knows, Cancelled
    <3>3. task' = [task EXCEPT ![h] = t] BY <2>5 DEF VerifyInvalid, Become
    <3>. HIDE DEF t
    <3>. QED BY <3>1, <3>2, <3>3
  <2>6. CASE SettleLost(h)
    <3>1. Idle.pc # "init" BY DEF Idle, PaymentTask
    <3>. QED BY <2>6, <3>1, IdleIsTask DEF SettleLost, Done, Become
  <2>7. CASE AfterSettle(h)
    <3>. DEFINE t == IF booking = "CANCELLED" THEN PaymentTask("scan", 0, {}) ELSE Idle
    <3>1. t \in Tasks BY IdleIsTask, TaskTypes DEF Labels
    <3>2. Knows(t) BY IdleIsTask DEF PaymentTask, Knows, Cancelled
    <3>3. t.pc # "init" BY DEF Idle, PaymentTask
    <3>4. task' = [task EXCEPT ![h] = t] BY <2>7 DEF AfterSettle, Done, Become, TooLate
    <3>. HIDE DEF t
    <3>. QED BY <3>1, <3>2, <3>3, <3>4
  <2>. QED BY <2>1, <2>2, <2>3, <2>4, <2>5, <2>6, <2>7
<1>. QED BY <1>0, <1>1, <1>2, LocalStep

\* A payment row leaves INITIATED or NONE for a status without money.
LEMMA SessionRows ==
  ASSUME IInv,
         payment' \in [Payments -> PaymentStatus \cup {None}],
         \A p \in Payments : payment'[p] = payment[p] \/
            (payment[p] \in {None, "INITIATED"} /\ payment'[p] \in {"INITIATED", "CANCELLED", "FAILED"}),
         UNCHANGED <<booking, departed, marked, bank, request, approved, fresh, session, sent>>
  PROVE  RowTypes' /\ Shift /\ Rows'
<1>1. RowTypes' BY DEF IInv, TypeOK, RowTypes
<1>2. Shift BY DEF IInv, TypeOK, Shift, Money, None
<1>3. Rows'
  BY DEF IInv, Rows, RefundsOnlyAfterCancel, RefundedMeansReturned, PaidHasMoney,
         ApprovalCancels, OneLiveApplication, RefundedRequestWasPaid, Live, Money, None
<1>. QED BY <1>1, <1>2, <1>3

\* createPaymentSession: the new row is the inserting request's own.
LEMMA CreateSessionSafe ==
  ASSUME IInv, NEW h \in Handlers, CreateSession(h)
  PROVE  IInv'
<1>0. payment \in [Payments -> PaymentStatus \cup {None}] /\ task[h] \in Tasks
  BY DEF IInv, TypeOK
<1>1. PICK p \in Payments :
        /\ payment[p] = None
        /\ payment' = [q \in Payments |->
                         IF q = p THEN "INITIATED"
                         ELSE IF q \in task[h].todo /\ payment[q] = "INITIATED" THEN "CANCELLED"
                         ELSE payment[q]]
        /\ task' = [task EXCEPT ![h] = PaymentTask("init", p, {})]
  BY DEF CreateSession, HasStatus, Become
<1>2. UNCHANGED <<booking, departed, marked, bank, request, approved, fresh, session, sent>>
  BY DEF CreateSession, requestVars, gatewayVars
<1>3. RowTypes' /\ Shift /\ Rows'
  <2>1. payment' \in [Payments -> PaymentStatus \cup {None}] BY <1>0, <1>1 DEF PaymentStatus
  <2>2. \A q \in Payments : payment'[q] = payment[q] \/
          (payment[q] \in {None, "INITIATED"} /\ payment'[q] \in {"INITIATED", "CANCELLED", "FAILED"})
    BY <1>1
  <2>. QED BY <1>2, <2>1, <2>2, SessionRows
<1>4. PICK t \in Tasks : t = PaymentTask("init", p, {}) BY TaskTypes DEF Labels
<1>5. session[p] = "none" /\ \A g \in Handlers : At(g, "init") => task[g].p # p
  BY <1>1 DEF IInv, Rows, Knows, At
<1>6. Knows(t)' BY <1>1, <1>2, <1>4, <1>5 DEF PaymentTask, Knows, Cancelled, None
<1>7. \A g \in Handlers \ {h} : At(g, "init") => session'[task[g].p] = "none" /\ task[g].p # t.p
  BY <1>2, <1>4, <1>5 DEF IInv, Knows, At, PaymentTask
<1>. QED BY <1>1, <1>3, <1>4, <1>6, <1>7, Compose

\* The two writers of a failed session: gateway init and closeSession.
LEMMA CloseSafe ==
  ASSUME IInv, NEW h \in Handlers, InitFails(h) \/ CloseSession(h)
  PROVE  IInv'
<1>0. /\ payment \in [Payments -> PaymentStatus \cup {None}]
      /\ task[h] \in Tasks /\ Knows(task[h])
  BY DEF IInv, TypeOK
<1>1. PICK p \in Payments, to \in {"CANCELLED", "FAILED"} :
        CloseIfInitiated(p, to) /\ task' = [task EXCEPT ![h] = Idle]
  BY <1>0 DEF InitFails, CloseSession, Knows, At, Done, Become
<1>2. UNCHANGED <<booking, departed, marked, bank, request, approved, fresh, session, sent>>
  BY DEF InitFails, CloseSession, requestVars, gatewayVars
<1>3. RowTypes' /\ Shift /\ Rows'
  <2>1. payment' \in [Payments -> PaymentStatus \cup {None}]
    BY <1>0, <1>1 DEF CloseIfInitiated, PaymentStatus
  <2>2. \A q \in Payments : payment'[q] = payment[q] \/
          (payment[q] \in {None, "INITIATED"} /\ payment'[q] \in {"INITIATED", "CANCELLED", "FAILED"})
    BY <1>0, <1>1 DEF CloseIfInitiated
  <2>. QED BY <1>2, <2>1, <2>2, SessionRows
<1>4. Knows(Idle)' /\ Idle.pc # "init" BY DEF Idle, PaymentTask, Knows, Cancelled
<1>5. \A g \in Handlers \ {h} : At(g, "init") => session'[task[g].p] = "none"
  BY <1>2 DEF IInv, Knows, At
<1>. QED BY <1>1, <1>3, <1>4, <1>5, IdleIsTask, Compose

\* The shopper, the calendar: the rows shift and no request moves.
LEMMA ComposeRows ==
  ASSUME IInv, UNCHANGED task, RowTypes', Shift, Rows',
         \A g \in Handlers : At(g, "init") => session'[task[g].p] = "none"
  PROVE  IInv'
<1>1. TypeOK' BY DEF IInv, TypeOK, RowTypes
<1>2. ASSUME NEW g \in Handlers PROVE Knows(task[g])'
  <2>1. PICK u \in Tasks : u = task[g] BY DEF IInv, TypeOK
  <2>2. Knows(u) /\ RowTypes BY <2>1 DEF IInv, TypeOK, RowTypes
  <2>3. Knows(u)' BY <2>1, <2>2, KnowsStable DEF At
  <2>. QED BY <2>1, <2>3 DEF Knows, Returned
<1>3. OwnRow' BY DEF IInv, OwnRow, At
<1>. QED BY <1>1, <1>2, <1>3 DEF IInv

\* A session of an existing row opens or is paid.
LEMMA OpenRows ==
  ASSUME IInv, NEW p \in Payments, payment[p] # None, session[p] # "paid",
         \/ session' = [session EXCEPT ![p] = "open"]
         \/ session' = [session EXCEPT ![p] = "paid"],
         UNCHANGED <<booking, departed, payment, marked, bank, request, approved, fresh, sent>>
  PROVE  RowTypes' /\ Shift /\ Rows'
<1>0. session \in [Payments -> {"none", "open", "paid"}] BY DEF IInv, TypeOK
<1>1. RowTypes' BY <1>0 DEF IInv, TypeOK, RowTypes
<1>2. Shift BY <1>0, ConstantTypes DEF IInv, TypeOK, Shift
<1>3. Rows'
  BY <1>0 DEF IInv, Rows, RefundsOnlyAfterCancel, RefundedMeansReturned, PaidHasMoney,
         ApprovalCancels, OneLiveApplication, RefundedRequestWasPaid, Live
<1>. QED BY <1>1, <1>2, <1>3

\* createPaymentSession: the page is opened.
LEMMA InitSessionSafe ==
  ASSUME IInv, NEW h \in Handlers, InitSession(h)
  PROVE  IInv'
<1>0. /\ task[h] \in Tasks /\ task[h].p \in Payments /\ payment[task[h].p] # None
      /\ session[task[h].p] = "none" /\ session \in [Payments -> {"none", "open", "paid"}]
  BY DEF IInv, TypeOK, InitSession, Knows, At
<1>1. /\ session' = [session EXCEPT ![task[h].p] = "open"]
      /\ task' = [task EXCEPT ![h] = Idle]
      /\ UNCHANGED <<booking, departed, payment, marked, bank, request, approved, fresh, sent>>
  BY DEF InitSession, Done, Become, paymentVars, requestVars
<1>2. RowTypes' /\ Shift /\ Rows' BY <1>0, <1>1, OpenRows
<1>3. Knows(Idle)' /\ Idle.pc # "init" BY DEF Idle, PaymentTask, Knows, Cancelled
<1>4. \A g \in Handlers \ {h} : At(g, "init") => session'[task[g].p] = "none"
  BY <1>0, <1>1 DEF IInv, OwnRow, Knows, At, InitSession
<1>. QED BY <1>1, <1>2, <1>3, <1>4, IdleIsTask, Compose

\* The shopper pays.
LEMMA ShopperPaysSafe ==
  ASSUME IInv, NEW p \in Payments, ShopperPays(p)
  PROVE  IInv'
<1>1. session[p] = "open" /\ session' = [session EXCEPT ![p] = "paid"]
  BY DEF ShopperPays
<1>2. payment[p] # None BY <1>1 DEF IInv, Rows
<1>3. UNCHANGED <<booking, departed, payment, marked, bank, request, approved, fresh, sent, task>>
  BY DEF ShopperPays, paymentVars, requestVars
<1>4. RowTypes' /\ Shift /\ Rows' BY <1>1, <1>2, <1>3, OpenRows
<1>5. \A g \in Handlers : At(g, "init") => session'[task[g].p] = "none"
  BY <1>1 DEF IInv, TypeOK, Knows, At
<1>. QED BY <1>3, <1>4, <1>5, ComposeRows

\* The travel date comes.
LEMMA DepartSafe ==
  ASSUME IInv, Depart
  PROVE  IInv'
<1>1. UNCHANGED <<booking, payment, marked, bank, request, approved, fresh, session, sent, task>>
  BY DEF Depart, paymentVars, requestVars, gatewayVars
<1>2. RowTypes' BY <1>1 DEF IInv, TypeOK, RowTypes, Depart
<1>3. Shift BY <1>1, ConstantTypes DEF IInv, TypeOK, Shift
<1>4. Rows'
  BY <1>1 DEF IInv, Rows, RefundsOnlyAfterCancel, RefundedMeansReturned, PaidHasMoney,
         ApprovalCancels, OneLiveApplication, RefundedRequestWasPaid, Live
<1>5. \A g \in Handlers : At(g, "init") => session'[task[g].p] = "none"
  BY <1>1 DEF IInv, Knows, At
<1>. QED BY <1>1, <1>2, <1>3, <1>4, <1>5, ComposeRows

\* processGatewayResult: the settlement.
LEMMA SettleSafe ==
  ASSUME IInv, NEW h \in Handlers, Settle(h)
  PROVE  IInv'
<1>. DEFINE p == task[h].p
<1>0. /\ task[h] \in Tasks /\ p \in Payments /\ session[p] = "paid"
      /\ payment \in [Payments -> PaymentStatus \cup {None}]
      /\ payment[p] \in {"INITIATED", "CANCELLED", "FAILED"}
  BY DEF IInv, TypeOK, Settle, Knows, At
<1>1. /\ payment' = [payment EXCEPT ![p] = "SUCCESS"]
      /\ \E named \in BankIds : bank' = [bank EXCEPT ![p] = named]
      /\ IF booking = "PENDING" THEN booking' = "PAID" ELSE booking' = booking
      /\ UNCHANGED <<departed, marked, request, approved, fresh, session, sent>>
  BY DEF Settle, requestVars, gatewayVars, PaidIfPending
<1>2. /\ payment' \in [Payments -> PaymentStatus \cup {None}] /\ payment'[p] = "SUCCESS"
      /\ \A q \in Payments : q # p => payment'[q] = payment[q]
  BY <1>0, <1>1 DEF PaymentStatus
<1>. HIDE DEF p
<1>3. RowTypes' BY <1>0, <1>1, <1>2, SmallSets DEF IInv, TypeOK, RowTypes, BookingStatus
<1>4. Shift BY <1>0, <1>1, <1>2, ConstantTypes DEF IInv, TypeOK, Shift, Money, None
<1>5. Rows'
  <2>1. PaidHasMoney' BY <1>0, <1>2 DEF PaidHasMoney
  <2>2. \A q \in Payments : payment'[q] \in Money => session'[q] = "paid"
    BY <1>0, <1>1, <1>2 DEF IInv, Rows
  <2>3. \A q \in Payments : session'[q] # "none" => payment'[q] # None
    BY <1>0, <1>1, <1>2 DEF IInv, Rows, None
  <2>4. RefundedMeansReturned' /\ RefundsOnlyAfterCancel' /\ ApprovalCancels'
    BY <1>1, <1>2 DEF IInv, Rows, RefundedMeansReturned, RefundsOnlyAfterCancel, ApprovalCancels
  <2>5. \A q \in Payments, r \in Requests :
          payment'[q] = "REFUNDED" /\ request'[r] \in Decided => sent'[q] >= approved'[r]
    BY <1>1, <1>2 DEF IInv, Rows
  <2>6. \A r \in Requests : request'[r] \in Decided => approved'[r] \in 1..Price
    BY <1>1 DEF IInv, Rows
  <2>7. OneLiveApplication' /\ RefundedRequestWasPaid'
    BY <1>1 DEF IInv, Rows, OneLiveApplication, RefundedRequestWasPaid, Live
  <2>. QED BY <2>1, <2>2, <2>3, <2>4, <2>5, <2>6, <2>7 DEF Rows
<1>6. PICK t \in Tasks :
        /\ t = IF booking = "PENDING" THEN Idle ELSE CallbackTask("settled", p, None)
        /\ task' = [task EXCEPT ![h] = t]
  <2>1. CallbackTask("settled", p, None) \in Tasks BY <1>0, TaskTypes DEF Labels
  <2>. QED BY <2>1, IdleIsTask DEF Settle, Done, Become, p
<1>7. Knows(t)' /\ t.pc # "init"
  BY <1>0, <1>2, <1>6 DEF Idle, PaymentTask, CallbackTask, Knows, Cancelled, None
<1>8. \A g \in Handlers \ {h} : At(g, "init") => session'[task[g].p] = "none"
  BY <1>1 DEF IInv, Knows, At
<1>. QED BY <1>3, <1>4, <1>5, <1>6, <1>7, <1>8, Compose

\* payment.service.ts keeps the invariant.
LEMMA PaymentSafe ==
  ASSUME IInv, NEW h \in Handlers, PaymentStart(h) \/ PaymentStep(h)
  PROVE  IInv'
BY CheckoutReadsSafe, CreateSessionSafe, CloseSafe, InitSessionSafe, SettleSafe
DEF PaymentStart, PaymentStep

-----------------------------------------------------------------------------
(* refund.service.ts: application and decision                             *)

\* Sums over the rows of a status.
LEMMA UnitsOfRows ==
  ASSUME NEW status
  PROVE  /\ UnitsIn(status) \in Nat
         /\ HasStatus(status) = {} \/ UnitsIn(status) >= Price
         /\ UnitsIn(status) > 0 => HasStatus(status) # {}
<1>1. IsFiniteSet(Payments) BY ConstantTypes, FS_Interval DEF Payments
<1>2. IsFiniteSet(HasStatus(status)) BY <1>1, FS_Subset DEF HasStatus
<1>. DEFINE n == Cardinality(HasStatus(status))
<1>3. n \in Nat /\ (n = 0 <=> HasStatus(status) = {})
  BY <1>2, FS_CardinalityType, FS_EmptySet
<1>4. UnitsIn(status) = Price * n BY DEF UnitsIn
<1>. HIDE DEF n
<1>5. n = 0 => Price * n = 0 BY <1>3, ConstantTypes
<1>6. n # 0 => Price * n >= Price BY <1>3, ConstantTypes
<1>7. Price * n \in Nat BY <1>3, ConstantTypes
<1>. QED BY <1>3, <1>4, <1>5, <1>6, <1>7, ConstantTypes

\* The reads of createRefundRequest, decideRefundRequest and retryRefundPayout.
LEMMA RefundReadsSafe ==
  ASSUME IInv, NEW h \in Handlers,
         \/ ApplyRead(h) \/ ApplyEligible(h) \/ InsertConflict(h)
         \/ DecideRead(h) \/ PriceApproval(h) \/ ApproveConflict(h)
         \/ RetryRead(h) \/ RetryClaim(h) \/ RetryRefused(h)
  PROVE  IInv'
<1>. USE DEF paymentVars, requestVars, gatewayVars
<1>0. task[h] \in Tasks /\ Knows(task[h])
  BY DEF IInv, TypeOK
<1>1. UNCHANGED rows
  BY DEF ApplyRead, ApplyEligible, InsertConflict, DecideRead, PriceApproval, ApproveConflict,
         RetryRead, RetryClaim, RetryRefused, rows
<1>2. fresh' \in [Requests -> SUBSET Handlers]
  BY <1>0 DEF IInv, TypeOK, ApplyRead, ApplyEligible, InsertConflict, DecideRead, PriceApproval,
         ApproveConflict, RetryRead, RetryClaim, RetryRefused
<1>3. \E t \in Tasks : task' = [task EXCEPT ![h] = t] /\ Knows(t) /\ t.pc # "init"
  <2>0. Idle.pc # "init" BY DEF Idle, PaymentTask
  <2>1. CASE ApplyRead(h) \/ ApplyEligible(h)
    <3>1. PICK l \in {"eligible", "insert"} :
            \/ task' = [task EXCEPT ![h] = RequestTask(l, 0, 0)]
            \/ task' = [task EXCEPT ![h] = Idle]
      BY <2>1 DEF ApplyRead, ApplyEligible, Begin, Become, Done
    <3>2. RequestTask(l, 0, 0) \in Tasks BY TaskTypes DEF Labels
    <3>3. Knows(RequestTask(l, 0, 0)) /\ RequestTask(l, 0, 0).pc # "init"
      BY DEF RequestTask, Knows, Cancelled
    <3>. QED BY <2>0, <3>1, <3>2, <3>3, IdleIsTask
  <2>2. CASE InsertConflict(h) \/ ApproveConflict(h) \/ RetryRefused(h)
    BY <2>0, <2>2, IdleIsTask DEF InsertConflict, ApproveConflict, RetryRefused, Done, Become
  <2>3. CASE DecideRead(h)
    <3>1. PICK r \in Requests, l \in {"reject", "price"}, left \in Shares \cup {0} :
            task' = [task EXCEPT ![h] = RequestTask(l, r, left)]
      BY <2>3 DEF DecideRead, Begin, Become
    <3>2. left \in Nat /\ left <= Price BY ConstantTypes
    <3>3. RequestTask(l, r, left) \in Tasks BY <3>2, TaskTypes DEF Labels
    <3>4. Knows(RequestTask(l, r, left)) /\ RequestTask(l, r, left).pc # "init"
      BY <3>2 DEF RequestTask, Knows, Cancelled
    <3>. QED BY <3>1, <3>3, <3>4
  <2>4. CASE PriceApproval(h)
    <3>. DEFINE amount == Smaller(task[h].left, UnitsIn("SUCCESS"))
    <3>0. task[h].r \in Requests /\ task[h].left \in Nat /\ task[h].left <= Price
      BY <1>0, <2>4 DEF PriceApproval, At, Knows, Tasks
    <3>1. amount \in Nat /\ amount <= Price
      BY <3>0, UnitsOfRows, ConstantTypes DEF Smaller
    <3>2. task' = [task EXCEPT ![h] =
            IF amount > 0 THEN RequestTask("approve", task[h].r, amount) ELSE Idle]
      BY <2>4 DEF PriceApproval, Become, Done
    <3>. HIDE DEF amount
    <3>3. RequestTask("approve", task[h].r, amount) \in Tasks BY <3>0, <3>1, TaskTypes DEF Labels
    <3>4. amount > 0 => Knows(RequestTask("approve", task[h].r, amount))
      BY <3>0, <3>1, ConstantTypes DEF RequestTask, Knows, Cancelled
    <3>5. RequestTask("approve", task[h].r, amount).pc # "init" BY DEF RequestTask
    <3>. QED BY <2>0, <3>2, <3>3, <3>4, <3>5, IdleIsTask
  <2>5. CASE RetryRead(h) \/ RetryClaim(h)
    <3>1. PICK r \in Requests, l \in {"claim", "owed"} :
            request[r] \in Decided /\ task' = [task EXCEPT ![h] = RequestTask(l, r, 0)]
      BY <1>0, <2>5 DEF RetryRead, RetryClaim, Claims, Begin, Become, Knows, At, Decided
    <3>2. booking = "CANCELLED" BY <3>1 DEF IInv, Rows, ApprovalCancels, Decided
    <3>3. RequestTask(l, r, 0) \in Tasks BY TaskTypes DEF Labels
    <3>4. Knows(RequestTask(l, r, 0)) /\ RequestTask(l, r, 0).pc # "init"
      BY <3>1, <3>2 DEF RequestTask, Knows, Cancelled
    <3>. QED BY <3>1, <3>3, <3>4
  <2>. QED BY <2>1, <2>2, <2>3, <2>4, <2>5
<1>. QED BY <1>1, <1>2, <1>3, LocalStep

\* An application or a decision, on an unchanged booking.
LEMMA RequestRows ==
  ASSUME IInv, request' \in [Requests -> RequestStatus \cup {None}],
         OneLiveApplication',
         \A r \in Requests : request'[r] = request[r] \/
           (request[r] \in {None, "PENDING"} /\ request'[r] \in {"PENDING", "REJECTED"}),
         UNCHANGED <<booking, departed, payment, marked, bank, approved, fresh, session, sent>>
  PROVE  RowTypes' /\ Shift /\ Rows'
<1>1. RowTypes' BY DEF IInv, TypeOK, RowTypes
<1>2. Shift BY ConstantTypes DEF IInv, TypeOK, Shift, Decided, None
<1>3. Rows'
  BY DEF IInv, Rows, RefundsOnlyAfterCancel, RefundedMeansReturned, PaidHasMoney,
         ApprovalCancels, RefundedRequestWasPaid, Decided
<1>. QED BY <1>1, <1>2, <1>3

\* createRefundRequest: the insert; decideRefundRequest: the rejection.
LEMMA ApplicationSafe ==
  ASSUME IInv, NEW h \in Handlers, InsertRequest(h) \/ Reject(h)
  PROVE  IInv'
<1>0. /\ request \in [Requests -> RequestStatus \cup {None}]
      /\ task[h] \in Tasks /\ Knows(task[h]) /\ OneLiveApplication
  BY DEF IInv, TypeOK, Rows
<1>1. /\ task' = [task EXCEPT ![h] = Idle]
      /\ UNCHANGED <<booking, departed, payment, marked, bank, approved, fresh, session, sent>>
  BY DEF InsertRequest, Reject, Done, Become, paymentVars, gatewayVars
<1>2. request' \in [Requests -> RequestStatus \cup {None}]
  BY <1>0 DEF InsertRequest, Reject, RequestStatus, RejectPending
<1>3. \A r \in Requests : request'[r] = request[r] \/
        (request[r] \in {None, "PENDING"} /\ request'[r] \in {"PENDING", "REJECTED"})
  BY <1>0 DEF InsertRequest, Reject, RejectPending
<1>4. OneLiveApplication'
  BY <1>0 DEF InsertRequest, Reject, OneLiveApplication, Live, RejectPending
<1>5. RowTypes' /\ Shift /\ Rows' BY <1>1, <1>2, <1>3, <1>4, RequestRows
<1>6. Knows(Idle)' /\ Idle.pc # "init" BY DEF Idle, PaymentTask, Knows, Cancelled
<1>7. \A g \in Handlers \ {h} : At(g, "init") => session'[task[g].p] = "none"
  BY <1>1 DEF IInv, Knows, At
<1>. QED BY <1>1, <1>5, <1>6, <1>7, IdleIsTask, Compose

\* decideRefundRequest: the approval.
LEMMA ApproveSafe ==
  ASSUME IInv, NEW h \in Handlers, Approve(h)
  PROVE  IInv'
<1>. DEFINE r == task[h].r
            amount == task[h].left
<1>0. /\ task[h] \in Tasks /\ r \in Requests /\ amount \in 1..Price
      /\ request[r] = "PENDING" /\ booking \in {"PAID", "CONFIRMED"}
      /\ request \in [Requests -> RequestStatus \cup {None}]
      /\ approved \in [Requests -> Nat]
      /\ payment \in [Payments -> PaymentStatus \cup {None}]
  BY DEF IInv, TypeOK, Approve, MayApprove, Knows, At
<1>1. /\ \A p \in Payments : sent[p] = 0 /\ payment[p] # "REFUNDED"
      /\ \A s \in Requests : request[s] \notin Decided
  BY <1>0, BeforeCancel
<1>2. /\ booking' = "CANCELLED"
      /\ request' = [request EXCEPT ![r] = "APPROVED"]
      /\ approved' = [approved EXCEPT ![r] = amount]
      /\ task' = [task EXCEPT ![h] = RequestTask("allocate", r, amount)]
      /\ UNCHANGED <<departed, marked, bank, fresh, session, sent>>
  BY DEF Approve, Become, gatewayVars
<1>. HIDE DEF r, amount
<1>3. /\ payment' \in [Payments -> PaymentStatus \cup {None}]
      /\ \A p \in Payments : payment'[p] = payment[p] \/
           (payment[p] = "INITIATED" /\ payment'[p] = "CANCELLED")
  BY <1>0 DEF Approve, AbandonSessions, PaymentStatus
<1>4. /\ request'[r] = "APPROVED" /\ approved'[r] = amount
      /\ \A s \in Requests : s # r => request'[s] = request[s] /\ approved'[s] = approved[s]
      /\ request' \in [Requests -> RequestStatus \cup {None}]
      /\ approved' \in [Requests -> Nat]
  BY <1>0, <1>2, ConstantTypes DEF RequestStatus
<1>5. RowTypes' BY <1>2, <1>3, <1>4 DEF IInv, TypeOK, RowTypes, BookingStatus
<1>6. Shift BY <1>1, <1>2, <1>3, <1>4, ConstantTypes DEF IInv, TypeOK, Shift, Money, None
<1>7. Rows'
  <2>1. OneLiveApplication'
    BY <1>0, <1>4 DEF IInv, Rows, OneLiveApplication, Live
  <2>. QED
    BY <1>0, <1>1, <1>2, <1>3, <1>4, <2>1
    DEF IInv, Rows, RefundsOnlyAfterCancel, RefundedMeansReturned, PaidHasMoney,
        ApprovalCancels, RefundedRequestWasPaid, Money, Decided, None
<1>8. PICK t \in Tasks : t = RequestTask("allocate", r, amount)
  BY <1>0, ConstantTypes, TaskTypes DEF Labels
<1>9. Knows(t)' /\ t.pc # "init"
  BY <1>0, <1>2, <1>4, <1>8 DEF RequestTask, Knows, Cancelled, Decided
<1>10. \A g \in Handlers \ {h} : At(g, "init") => session'[task[g].p] = "none"
  BY <1>2 DEF IInv, Knows, At
<1>. QED BY <1>2, <1>5, <1>6, <1>7, <1>8, <1>9, <1>10, Compose

-----------------------------------------------------------------------------
(* refund.service.ts: payout and retry                                     *)

\* What runPayout goes on to: the next payment, the end, or nothing.
LEMMA NextPayoutKnows ==
  ASSUME NEW h \in Handlers, NEW todo \in SUBSET Payments, NEW left \in Nat,
         NEW failed \in BOOLEAN, NEW r \in Requests, r = task[h].r,
         NextPayout(h, todo, left, failed),
         booking' = "CANCELLED", request'[r] \in Decided,
         \A q \in todo : payment'[q] \in Money,
         left > 0 => left = approved'[r],
         left = 0 => Returned(r)'
  PROVE  \E t \in Tasks : task' = [task EXCEPT ![h] = t] /\ Knows(t)' /\ t.pc # "init"
<1>1. CASE todo # {} /\ left > 0
  <2>1. PICK t \in Tasks : t = PayoutTask("payout", r, 0, todo, left, failed)
    BY TaskTypes DEF Labels
  <2>2. Knows(t)' /\ t.pc # "init" BY <1>1, <2>1 DEF PayoutTask, Knows, Cancelled
  <2>. QED BY <1>1, <2>1, <2>2 DEF NextPayout, Become
<1>2. CASE ~(todo # {} /\ left > 0) /\ ~failed /\ left = 0
  <2>1. PICK t \in Tasks : t = RequestTask("conclude", r, 0) BY TaskTypes DEF Labels
  <2>2. Knows(t)' /\ t.pc # "init" BY <1>2, <2>1 DEF RequestTask, Knows, Cancelled
  <2>. QED BY <1>2, <2>1, <2>2 DEF NextPayout, Become
<1>3. CASE ~(todo # {} /\ left > 0) /\ ~(~failed /\ left = 0)
  <2>1. Knows(Idle)' /\ Idle.pc # "init" BY DEF Idle, PaymentTask, Knows, Cancelled
  <2>. QED BY <1>3, <2>1, IdleIsTask DEF NextPayout, Become
<1>. QED BY <1>1, <1>2, <1>3

\* runPayout: each step of the loop.
LEMMA PayoutSafe ==
  ASSUME IInv, NEW h \in Handlers,
         \/ Allocate(h) \/ PayoutWithoutBankId(h) \/ CallPayout(h)
         \/ RecordPayout(h) \/ RecordPayoutFailure(h)
  PROVE  IInv'
<1>. USE DEF paymentVars, requestVars, gatewayVars
<1>t. task[h] \in Tasks BY DEF IInv, TypeOK
<1>r. PICK r \in 0..MaxRequests : r = task[h].r BY <1>t DEF Tasks
<1>n. PICK left \in Nat : left = task[h].left BY <1>t DEF Tasks
<1>0. /\ task[h] \in Tasks /\ r \in Requests /\ task[h].todo \in SUBSET Payments
      /\ task[h].failed \in BOOLEAN
      /\ booking = "CANCELLED" /\ request[r] \in Decided
      /\ left = approved[r] /\ left \in 1..Price
      /\ task[h].pc # "allocate" => \A q \in task[h].todo : payment[q] \in Money
      /\ task[h].pc \in {"payFlip", "payMark"} =>
           task[h].p \in Payments /\ payment[task[h].p] \in Money
      /\ task[h].pc = "payFlip" => sent[task[h].p] >= left
  BY <1>r, <1>n DEF IInv, TypeOK, Rows, Tasks, Knows, Cancelled, At,
         Allocate, PayoutWithoutBankId, CallPayout, RecordPayout, RecordPayoutFailure
<1>i. session' = session => \A g \in Handlers \ {h} : At(g, "init") => session'[task[g].p] = "none"
  BY DEF IInv, Knows, At
<1>l. left \in Nat /\ left > 0 BY <1>0, ConstantTypes
<1>1. CASE Allocate(h)
  <2>1. UNCHANGED <<rows, fresh>> BY <1>1 DEF Allocate, rows
  <2>a. Settled \in SUBSET Payments /\ \A q \in Settled : payment'[q] \in Money
    BY <2>1 DEF Settled, HasStatus, Money, rows
  <2>2. PICK todo \in SUBSET Payments : todo = Settled BY <2>a
  <2>f. PICK failed \in BOOLEAN : failed = FALSE OBVIOUS
  <2>n. NextPayout(h, todo, left, failed)
    BY <1>1, <1>n, <2>2, <2>f DEF Allocate, NextPayout
  <2>3. booking' = "CANCELLED" /\ request'[r] \in Decided /\ left = approved'[r]
    BY <1>0, <2>1 DEF rows
  <2>7. \A q \in todo : payment'[q] \in Money BY <2>a, <2>2
  <2>8. r \in Requests BY <1>0
  <2>4. PICK t \in Tasks : task' = [task EXCEPT ![h] = t] /\ Knows(t)' /\ t.pc # "init"
    BY <1>l, <1>r, <2>n, <2>3, <2>7, <2>8, NextPayoutKnows
  <2>5. Knows(t) BY <2>1, <2>4 DEF Knows, Returned, rows
  <2>6. fresh' \in [Requests -> SUBSET Handlers] BY <2>1 DEF IInv, TypeOK
  <2>. QED BY <2>1, <2>4, <2>5, <2>6, LocalStep
<1>2. CASE PayoutWithoutBankId(h)
  <2>1. PICK p \in task[h].todo : MarkRetry(p) /\ NextPayout(h, task[h].todo \ {p}, left, TRUE)
    BY <1>2, <1>n DEF PayoutWithoutBankId, Oldest
  <2>2. UNCHANGED <<booking, departed, payment, bank, request, approved, fresh, session, sent>>
    BY <1>2 DEF PayoutWithoutBankId
  <2>3. RowTypes' /\ Shift /\ Rows' BY <1>0, <2>1, <2>2, MarkRows
  <2>4. \A q \in task[h].todo : payment'[q] \in Money
    BY <1>0, <1>2, <2>2 DEF PayoutWithoutBankId, At
  <2>n. PICK todo \in SUBSET Payments : todo = task[h].todo \ {p} BY <1>0
  <2>f. PICK failed \in BOOLEAN : failed = TRUE OBVIOUS
  <2>m. /\ NextPayout(h, todo, left, failed)
        /\ booking' = "CANCELLED" /\ request'[r] \in Decided /\ left = approved'[r]
        /\ \A q \in todo : payment'[q] \in Money
    BY <1>0, <2>1, <2>2, <2>4, <2>f, <2>n DEF NextPayout
  <2>5. PICK t \in Tasks : task' = [task EXCEPT ![h] = t] /\ Knows(t)' /\ t.pc # "init"
    BY <1>0, <1>l, <1>r, <2>m, NextPayoutKnows
  <2>. QED BY <1>i, <2>2, <2>3, <2>5, Compose
<1>3. CASE CallPayout(h)
  <2>1. PICK p \in task[h].todo, outcome \in Outcomes :
          /\ GatewayRefund(p, Slice(h), outcome)
          /\ task' = [task EXCEPT ![h] =
               PayoutTask(IF outcome = "done" THEN "payFlip" ELSE "payMark", r, p,
                          task[h].todo \ {p}, left, task[h].failed)]
    BY <1>3, <1>r, <1>n DEF CallPayout, Oldest, Become
  <2>2. UNCHANGED <<booking, departed, payment, marked, bank, request, approved, fresh, session>>
    BY <1>3 DEF CallPayout
  <2>3. Slice(h) = left BY <1>0, <1>l, <1>n, ConstantTypes DEF Slice, Smaller
  <2>4. \A q \in task[h].todo : payment[q] \in Money BY <1>0, <1>3 DEF CallPayout, At
  <2>5. RowTypes' /\ Shift /\ Rows' /\ (outcome = "done" => sent'[p] >= left)
    BY <1>0, <2>1, <2>2, <2>3, <2>4, GatewayRefundRows
  <2>6. PICK t \in Tasks :
          t = PayoutTask(IF outcome = "done" THEN "payFlip" ELSE "payMark", r, p,
                         task[h].todo \ {p}, left, task[h].failed)
    <3>1. (IF outcome = "done" THEN "payFlip" ELSE "payMark") \in Labels BY DEF Labels
    <3>. QED BY <1>0, <1>l, <2>1, <3>1, TaskTypes
  <2>7. Knows(t)' /\ t.pc # "init"
    BY <1>0, <2>2, <2>4, <2>5, <2>6 DEF PayoutTask, Knows, Cancelled
  <2>. QED BY <1>i, <2>1, <2>2, <2>5, <2>6, <2>7, Compose
<1>4. CASE RecordPayout(h)
  <2>0. PICK p \in 0..MaxPayments : p = task[h].p BY <1>t DEF Tasks
  <2>4. Slice(h) = left BY <1>0, <1>l, <1>n, ConstantTypes DEF Slice, Smaller
  <2>5. PICK rest \in {0, left} :
          rest = (IF payment[p] = "SUCCESS" THEN left - Slice(h) ELSE left)
    BY <1>l, <2>4
  <2>1. FlipRefunded(p) /\ NextPayout(h, task[h].todo, rest, task[h].failed) /\ At(h, "payFlip")
    BY <1>4, <1>n, <2>0, <2>5 DEF RecordPayout
  <2>2. UNCHANGED <<booking, departed, marked, bank, request, approved, fresh, session, sent>>
    BY <1>4 DEF RecordPayout
  <2>3. p \in Payments /\ payment[p] \in Money /\ sent[p] >= left /\ sent[p] \in Nat
    BY <1>0, <2>0, <2>1, ConstantTypes DEF At, IInv, TypeOK
  <2>6. \A s \in Requests : request[s] \in Decided => sent[p] >= approved[s]
    BY <1>0, <2>3 DEF IInv, Rows, OneLiveApplication, Live, Decided
  <2>7. RowTypes' /\ Shift /\ Rows'
    BY <1>0, <1>l, <2>1, <2>2, <2>3, <2>6, FlipRows
  <2>8. \A q \in task[h].todo : payment'[q] \in Money BY <1>0, <2>1, <2>7 DEF Shift, At
  <2>9. Returned(r)' BY <1>0, <2>2, <2>3 DEF Returned
  <2>10. rest \in Nat /\ (rest > 0 => rest = approved'[r]) BY <1>0, <1>l, <2>2, <2>5
  <2>11. booking' = "CANCELLED" /\ request'[r] \in Decided BY <1>0, <2>2
  <2>12. PICK t \in Tasks : task' = [task EXCEPT ![h] = t] /\ Knows(t)' /\ t.pc # "init"
    BY <1>0, <2>1, <2>8, <2>9, <2>10, <2>11, <1>r, NextPayoutKnows
  <2>. QED BY <1>i, <2>2, <2>7, <2>12, Compose
<1>5. CASE RecordPayoutFailure(h)
  <2>1. MarkRetry(task[h].p) /\ NextPayout(h, task[h].todo, left, TRUE) /\ At(h, "payMark")
    BY <1>5, <1>n DEF RecordPayoutFailure
  <2>2. UNCHANGED <<booking, departed, payment, bank, request, approved, fresh, session, sent>>
    BY <1>5 DEF RecordPayoutFailure
  <2>3. RowTypes' /\ Shift /\ Rows' BY <1>0, <2>1, <2>2, MarkRows DEF At
  <2>4. \A q \in task[h].todo : payment'[q] \in Money BY <1>0, <2>1, <2>2 DEF At
  <2>n. PICK todo \in SUBSET Payments : todo = task[h].todo BY <1>0
  <2>f. PICK failed \in BOOLEAN : failed = TRUE OBVIOUS
  <2>m. /\ NextPayout(h, todo, left, failed)
        /\ booking' = "CANCELLED" /\ request'[r] \in Decided /\ left = approved'[r]
        /\ \A q \in todo : payment'[q] \in Money
    BY <1>0, <2>1, <2>2, <2>4, <2>f, <2>n DEF NextPayout
  <2>5. PICK t \in Tasks : task' = [task EXCEPT ![h] = t] /\ Knows(t)' /\ t.pc # "init"
    BY <1>0, <1>l, <1>r, <2>m, NextPayoutKnows
  <2>. QED BY <1>i, <2>2, <2>3, <2>5, Compose
<1>. QED BY <1>1, <1>2, <1>3, <1>4, <1>5

\* A request is closed only over money that was returned.
LEMMA CloseRequestRows ==
  ASSUME IInv, NEW r \in Requests, request[r] \in Decided, Returned(r), CloseRequest(r),
         UNCHANGED <<booking, departed, payment, marked, bank, approved, fresh, session, sent>>
  PROVE  RowTypes' /\ Shift /\ Rows'
<1>0. request \in [Requests -> RequestStatus \cup {None}] BY DEF IInv, TypeOK
<1>1. /\ request' \in [Requests -> RequestStatus \cup {None}]
      /\ request'[r] = "REFUNDED"
      /\ \A s \in Requests : s # r => request'[s] = request[s]
  BY <1>0 DEF CloseRequest, RequestStatus, Decided
<1>2. RowTypes' BY <1>1 DEF IInv, TypeOK, RowTypes
<1>3. Shift BY <1>1, ConstantTypes DEF IInv, TypeOK, Shift, Decided
<1>4. Rows'
  BY <1>1 DEF IInv, Rows, RefundsOnlyAfterCancel, RefundedMeansReturned, PaidHasMoney,
              ApprovalCancels, OneLiveApplication, RefundedRequestWasPaid, Returned, Live, Decided
<1>. QED BY <1>2, <1>3, <1>4

\* runPayout: the request is closed.
LEMMA ConcludeSafe ==
  ASSUME IInv, NEW h \in Handlers, Conclude(h)
  PROVE  IInv'
<1>1. /\ task[h].r \in Requests /\ request[task[h].r] \in Decided /\ Returned(task[h].r)
      /\ CloseRequest(task[h].r) /\ task' = [task EXCEPT ![h] = Idle]
      /\ UNCHANGED <<booking, departed, payment, marked, bank, approved, fresh, session, sent>>
  BY DEF IInv, Conclude, Knows, At, Done, Become, paymentVars, gatewayVars
<1>2. RowTypes' /\ Shift /\ Rows' BY <1>1, CloseRequestRows
<1>3. Knows(Idle)' /\ Idle.pc # "init" BY DEF Idle, PaymentTask, Knows, Cancelled
<1>4. \A g \in Handlers \ {h} : At(g, "init") => session'[task[g].p] = "none"
  BY <1>1 DEF IInv, Knows, At
<1>. QED BY <1>1, <1>2, <1>3, <1>4, IdleIsTask, Compose

\* Owed is the whole approval or, once a payment is REFUNDED, nothing.
LEMMA RetryOwedSafe ==
  ASSUME IInv, NEW h \in Handlers, RetryOwed(h)
  PROVE  IInv'
<1>. DEFINE r == task[h].r
            owed == approved[r] - UnitsIn("REFUNDED")
<1>0. /\ task[h] \in Tasks /\ r \in Requests /\ request[r] \in Decided
      /\ booking = "CANCELLED" /\ approved[r] \in 1..Price
  BY DEF IInv, TypeOK, Rows, RetryOwed, Knows, Cancelled, At
<1>1. UNCHANGED <<booking, departed, payment, marked, bank, approved, fresh, session, sent>>
  BY DEF RetryOwed, paymentVars, gatewayVars
<1>2. approved[r] \in Nat /\ approved[r] > 0 /\ approved[r] <= Price BY <1>0, ConstantTypes
<1>3. CASE owed <= 0
  <2>1. HasStatus("REFUNDED") # {} BY <1>2, <1>3, UnitsOfRows
  <2>2. Returned(r) BY <1>0, <2>1 DEF HasStatus, Returned, IInv, Rows
  <2>3. CloseRequest(r) /\ task' = [task EXCEPT ![h] = Idle]
    BY <1>3 DEF RetryOwed, NothingOwed, Done, Become
  <2>. HIDE DEF r, owed
  <2>4. RowTypes' /\ Shift /\ Rows' BY <1>0, <1>1, <2>2, <2>3, CloseRequestRows
  <2>5. Knows(Idle)' /\ Idle.pc # "init" BY DEF Idle, PaymentTask, Knows, Cancelled
  <2>6. \A g \in Handlers \ {h} : At(g, "init") => session'[task[g].p] = "none"
    BY <1>1 DEF IInv, Knows, At
  <2>. QED BY <2>3, <2>4, <2>5, <2>6, IdleIsTask, Compose
<1>4. CASE ~(owed <= 0)
  <2>1. owed = approved[r] BY <1>2, <1>4, UnitsOfRows, ConstantTypes
  <2>2. /\ task' = [task EXCEPT ![h] = RequestTask("allocate", r, owed)]
        /\ UNCHANGED <<rows, fresh>>
    BY <1>1, <1>4 DEF RetryOwed, NothingOwed, Become, rows
  <2>. HIDE DEF r, owed
  <2>3. PICK t \in Tasks : t = RequestTask("allocate", r, owed)
    BY <1>0, <1>2, <2>1, TaskTypes DEF Labels
  <2>4. Knows(t) /\ t.pc # "init" BY <1>0, <2>1, <2>3 DEF RequestTask, Knows, Cancelled
  <2>5. fresh' \in [Requests -> SUBSET Handlers] BY <2>2 DEF IInv, TypeOK
  <2>. QED BY <2>2, <2>3, <2>4, <2>5, LocalStep
<1>. QED BY <1>3, <1>4

\* refund.service.ts keeps the invariant.
LEMMA RefundSafe ==
  ASSUME IInv, NEW h \in Handlers, RefundStart(h) \/ RefundStep(h)
  PROVE  IInv'
BY RefundReadsSafe, ApplicationSafe, ApproveSafe, PayoutSafe, ConcludeSafe, RetryOwedSafe
DEF RefundStart, RefundStep

-----------------------------------------------------------------------------
(* The theorems.                                                           *)

\* A request may end at any step: the rows alone carry the invariant.
LEMMA CrashSafe ==
  ASSUME IInv, NEW h \in Handlers, Crash(h)
  PROVE  IInv'
<1>1. task' = [task EXCEPT ![h] = Idle] /\ UNCHANGED rows
  BY DEF Crash, Done, Become, rows, paymentVars, gatewayVars
<1>2. fresh' \in [Requests -> SUBSET Handlers] BY DEF IInv, TypeOK, Crash
<1>3. Idle.pc # "init" BY DEF Idle, PaymentTask
<1>. QED BY <1>1, <1>2, <1>3, IdleIsTask, LocalStep

\* The invariant holds initially,
LEMMA InitSafe == Init => IInv
<1>. SUFFICES ASSUME Init PROVE IInv OBVIOUS
<1>1. TypeOK
  <2>1. booking \in BookingStatus BY InitialBookingsOK DEF Init, BookingStatus
  <2>2. sent \in [Payments -> 0..MaxSent] BY ConstantTypes DEF Init
  <2>3. task \in [Handlers -> Tasks] BY IdleIsTask DEF Init
  <2>. QED BY <2>1, <2>2, <2>3 DEF Init, TypeOK, PaymentStatus, RequestStatus
<1>2. Rows
  <2>1. booking # "PENDING" => 1 \in Payments
    BY InitialBookingsOK, ConstantTypes DEF Init, Payments
  <2>2. booking # "CANCELLED" BY InitialBookingsOK DEF Init
  <2>. QED BY <2>1, <2>2
       DEF Init, Rows, RefundsOnlyAfterCancel, RefundedMeansReturned, PaidHasMoney,
           ApprovalCancels, OneLiveApplication, RefundedRequestWasPaid, Live, Money, Decided, None
<1>3. \A h \in Handlers : Knows(task[h]) BY IdleIsTask DEF Init
<1>4. OwnRow BY DEF Init, OwnRow, At, Idle, PaymentTask
<1>. QED BY <1>1, <1>2, <1>3, <1>4 DEF IInv

\* and every step of every request keeps it.
LEMMA NextSafe == IInv /\ [Next]_vars => IInv'
<1>. SUFFICES ASSUME IInv, [Next]_vars PROVE IInv' OBVIOUS
<1>1. CASE \E h \in Handlers : Start(h) \/ Step(h) \/ Crash(h)
  BY <1>1, BookingSafe, PaymentSafe, RefundSafe, CrashSafe DEF Start, Step
<1>2. CASE \E p \in Payments : ShopperPays(p) BY <1>2, ShopperPaysSafe
<1>3. CASE Depart BY <1>3, DepartSafe
<1>4. CASE UNCHANGED vars
  BY <1>4 DEF vars, IInv, TypeOK, Rows, Knows, OwnRow, At, RefundsOnlyAfterCancel,
              RefundedMeansReturned, PaidHasMoney, ApprovalCancels, OneLiveApplication,
              RefundedRequestWasPaid, Live, Returned
<1>. QED BY <1>1, <1>2, <1>3, <1>4 DEF Next

\* The strengthening is inductive: what the rows satisfy and what every request
\* in flight may rely on, over every interleaving of the three services.
THEOREM Inductive == Spec => []IInv
BY InitSafe, NextSafe, PTL DEF Spec

\* Every row and every local keeps the type of its column or declaration.
THEOREM TypeCorrect == Spec => []TypeOK
<1>1. IInv => TypeOK BY DEF IInv
<1>. QED BY <1>1, Inductive, PTL

\* updateBookingStatus, issueRefunds, runPayout: money is only sent back for a
\* cancelled booking, and only money a shopper paid.
THEOREM RefundsFollowCancellation == Spec => []RefundsOnlyAfterCancel
<1>1. IInv => RefundsOnlyAfterCancel BY DEF IInv, Rows
<1>. QED BY <1>1, Inductive, PTL

\* issueRefunds, runPayout: a row that says REFUNDED was sent back.
THEOREM RefundedRowsWereReturned == Spec => []RefundedMeansReturned
<1>1. IInv => RefundedMeansReturned BY DEF IInv, Rows
<1>. QED BY <1>1, Inductive, PTL

\* processGatewayResult, updateBookingStatus: a PAID booking has settled money.
THEOREM PaidBookingsHaveMoney == Spec => []PaidHasMoney
<1>1. IInv => PaidHasMoney BY DEF IInv, Rows
<1>. QED BY <1>1, Inductive, PTL

\* decideRefundRequest: approved and refunded requests sit on cancelled bookings.
THEOREM ApprovalsCancel == Spec => []ApprovalCancels
<1>1. IInv => ApprovalCancels BY DEF IInv, Rows
<1>. QED BY <1>1, Inductive, PTL

\* runPayout, retryRefundPayout: a REFUNDED request was paid its amount.
THEOREM RefundedRequestsWerePaid == Spec => []RefundedRequestWasPaid
<1>1. IInv => RefundedRequestWasPaid BY DEF IInv, Rows
<1>. QED BY <1>1, Inductive, PTL

-----------------------------------------------------------------------------
(* What no step does.                                                      *)

\* Every write to a payment row is one of these.
LEMMA PaymentWrites ==
  ASSUME IInv, [Next]_vars
  PROVE  \/ payment' = payment
         \/ AbandonSessions
         \/ \E p \in Payments : FlipRefunded(p)
         \/ \E h \in Handlers : CreateSession(h) \/ Settle(h)
         \/ \E p \in Payments, to \in {"CANCELLED", "FAILED"} : CloseIfInitiated(p, to)
<1>. USE DEF paymentVars, requestVars, gatewayVars
<1>0. \A h \in Handlers : Knows(task[h]) BY DEF IInv
<1>1. ASSUME NEW h \in Handlers, BookingStart(h) \/ PaymentStart(h) \/ RefundStart(h) \/ Crash(h)
      PROVE  payment' = payment
  BY <1>1 DEF BookingStart, PaymentStart, RefundStart, Crash, UpdateRead, RebookRead,
              CheckoutRead, CallbackRead, ApplyRead, DecideRead, RetryRead
<1>2. ASSUME NEW h \in Handlers, BookingStep(h)
      PROVE  payment' = payment \/ AbandonSessions \/ \E p \in Payments : FlipRefunded(p)
  BY <1>0, <1>2
  DEF BookingStep, CountSettled, WriteConflict, WriteStatus, ScanSettled,
      RefundWithoutBankId, CallRefund, RecordRefund, RecordFailure, RebookCancel, Knows, At
<1>3. ASSUME NEW h \in Handlers, PaymentStep(h)
      PROVE  \/ payment' = payment \/ CreateSession(h) \/ Settle(h)
             \/ \E p \in Payments, to \in {"CANCELLED", "FAILED"} : CloseIfInitiated(p, to)
  BY <1>0, <1>3
  DEF PaymentStep, Supersede, InitSession, InitFails, VerifyValid, VerifyInvalid,
      CloseSession, SettleLost, AfterSettle, Knows, At
<1>4. ASSUME NEW h \in Handlers, RefundStep(h)
      PROVE  payment' = payment \/ AbandonSessions \/ \E p \in Payments : FlipRefunded(p)
  BY <1>0, <1>4
  DEF RefundStep, ApplyEligible, InsertConflict, InsertRequest, Reject, PriceApproval,
      ApproveConflict, Approve, Allocate, PayoutWithoutBankId, CallPayout, RecordPayout,
      RecordPayoutFailure, Conclude, RetryClaim, RetryRefused, RetryOwed, Knows, At
<1>5. CASE UNCHANGED vars \/ Depart \/ \E p \in Payments : ShopperPays(p)
  BY <1>5 DEF vars, Depart, ShopperPays
<1>. QED BY <1>1, <1>2, <1>3, <1>4, <1>5 DEF Next, Start, Step

\* closeSession, Settle, the refund flips: no step takes a settled row anywhere
\* but to REFUNDED, or a refunded row anywhere.
THEOREM SettledRowsStay == Spec => SettledRowsAreFinal
<1>1. ASSUME IInv, [Next]_vars
      PROVE  \A p \in Payments :
               /\ payment[p] = "SUCCESS" => payment'[p] \in {"SUCCESS", "REFUNDED"}
               /\ payment[p] = "REFUNDED" => payment'[p] = "REFUNDED"
  <2>1. payment \in [Payments -> PaymentStatus \cup {None}] BY <1>1 DEF IInv, TypeOK
  <2>. QED BY <1>1, <2>1, PaymentWrites
       DEF AbandonSessions, FlipRefunded, CreateSession, Settle, CloseIfInitiated, HasStatus, None
<1>. QED BY <1>1, Inductive, PTL DEF Spec, SettledRowsAreFinal

\* Every write to the status or the amount of a request row is one of these.
LEMMA RequestWrites ==
  ASSUME IInv, [Next]_vars
  PROVE  \/ UNCHANGED <<request, approved>>
         \/ UNCHANGED approved /\ CloseApplications
         \/ UNCHANGED approved /\ \E r \in Requests : CloseRequest(r)
         \/ \E h \in Handlers : InsertRequest(h) \/ Reject(h) \/ Approve(h)
<1>. USE DEF paymentVars, requestVars, gatewayVars
<1>0. \A h \in Handlers : Knows(task[h]) BY DEF IInv
<1>1. ASSUME NEW h \in Handlers, BookingStart(h) \/ PaymentStart(h) \/ RefundStart(h) \/ Crash(h)
      PROVE  UNCHANGED <<request, approved>>
  BY <1>1 DEF BookingStart, PaymentStart, RefundStart, Crash, UpdateRead, RebookRead,
              CheckoutRead, CallbackRead, ApplyRead, DecideRead, RetryRead
<1>2. ASSUME NEW h \in Handlers, BookingStep(h)
      PROVE  UNCHANGED approved /\ (UNCHANGED request \/ CloseApplications)
  BY <1>2
  DEF BookingStep, CountSettled, WriteConflict, WriteStatus, ScanSettled,
      RefundWithoutBankId, CallRefund, RecordRefund, RecordFailure, RebookCancel
<1>3. ASSUME NEW h \in Handlers, PaymentStep(h)
      PROVE  UNCHANGED <<request, approved>>
  BY <1>3
  DEF PaymentStep, Supersede, CreateSession, InitSession, InitFails, VerifyValid,
      VerifyInvalid, CloseSession, SettleLost, Settle, AfterSettle
<1>4. ASSUME NEW h \in Handlers, RefundStep(h)
      PROVE  \/ UNCHANGED <<request, approved>>
             \/ UNCHANGED approved /\ \E r \in Requests : CloseRequest(r)
             \/ InsertRequest(h) \/ Reject(h) \/ Approve(h)
  BY <1>0, <1>4
  DEF RefundStep, ApplyEligible, InsertConflict, PriceApproval,
      ApproveConflict, Allocate, PayoutWithoutBankId, CallPayout, RecordPayout,
      RecordPayoutFailure, Conclude, RetryClaim, RetryRefused, RetryOwed, Knows, At
<1>5. CASE UNCHANGED vars \/ Depart \/ \E p \in Payments : ShopperPays(p)
  BY <1>5 DEF vars, Depart, ShopperPays
<1>. QED BY <1>1, <1>2, <1>3, <1>4, <1>5 DEF Next, Start, Step

\* decideRefundRequest: no admin, agency cancellation or retry overturns a
\* decision, or changes the amount of an approval.
THEOREM DecisionsStay == Spec => DecisionsAreFinal
<1>1. ASSUME IInv, [Next]_vars
      PROVE  \A r \in Requests :
               /\ request[r] = "REJECTED" => request'[r] = "REJECTED"
               /\ request[r] \in {"APPROVED", "REFUNDED"} =>
                    /\ request'[r] \in {"APPROVED", "REFUNDED"}
                    /\ approved'[r] = approved[r]
  <2>1. /\ request \in [Requests -> RequestStatus \cup {None}]
        /\ approved \in [Requests -> Nat]
    BY <1>1 DEF IInv, TypeOK
  <2>. QED BY <1>1, <2>1, RequestWrites
       DEF CloseApplications, CloseRequest, InsertRequest, Reject, Approve, MayApprove, None,
           requestVars, paymentVars, RejectPending
<1>. QED BY <1>1, Inductive, PTL DEF Spec, DecisionsAreFinal

-----------------------------------------------------------------------------
(* Without createBooking's blind write.                                    *)

\* Every write to the booking row is one of these.
LEMMA BookingWrites ==
  ASSUME IInv, [Next]_vars
  PROVE  \/ booking' = booking
         \/ \E h \in Handlers : WriteStatus(h) \/ Settle(h) \/ Approve(h) \/ RebookCancel(h)
<1>. USE DEF paymentVars, requestVars, gatewayVars
<1>1. ASSUME NEW h \in Handlers, BookingStart(h) \/ PaymentStart(h) \/ RefundStart(h) \/ Crash(h)
      PROVE  booking' = booking
  BY <1>1 DEF BookingStart, PaymentStart, RefundStart, Crash, UpdateRead, RebookRead,
              CheckoutRead, CallbackRead, ApplyRead, DecideRead, RetryRead
<1>2. ASSUME NEW h \in Handlers, BookingStep(h)
      PROVE  booking' = booking \/ WriteStatus(h) \/ RebookCancel(h)
  BY <1>2
  DEF BookingStep, CountSettled, WriteConflict, ScanSettled,
      RefundWithoutBankId, CallRefund, RecordRefund, RecordFailure
<1>3. ASSUME NEW h \in Handlers, PaymentStep(h)
      PROVE  booking' = booking \/ Settle(h)
  BY <1>3
  DEF PaymentStep, Supersede, CreateSession, InitSession, InitFails, VerifyValid,
      VerifyInvalid, CloseSession, SettleLost, AfterSettle
<1>4. ASSUME NEW h \in Handlers, RefundStep(h)
      PROVE  booking' = booking \/ Approve(h)
  BY <1>4
  DEF RefundStep, ApplyEligible, InsertConflict, InsertRequest, Reject, PriceApproval,
      ApproveConflict, Allocate, PayoutWithoutBankId, CallPayout, RecordPayout,
      RecordPayoutFailure, Conclude, RetryClaim, RetryRefused, RetryOwed
<1>5. CASE UNCHANGED vars \/ Depart \/ \E p \in Payments : ShopperPays(p)
  BY <1>5 DEF vars, Depart, ShopperPays
<1>. QED BY <1>1, <1>2, <1>3, <1>4, <1>5 DEF Next, Start, Step

\* A step of one request leaves what the others remember, and only RebookRead
\* takes a request to the blind write.
LEMMA TaskMoves ==
  ASSUME task \in [Handlers -> Tasks], NEW h \in Handlers, Start(h) \/ Step(h) \/ Crash(h)
  PROVE  /\ \A g \in Handlers \ {h} : task'[g] = task[g]
         /\ ~RebookRead(h) => ~At(h, "overwrite")'
<1>. USE DEF Begin, Become, Done, At, Idle, PaymentTask, UpdateTask, CallbackTask,
             RequestTask, PayoutTask, NextRefund, NextPayout
<1>1. CASE Crash(h) BY <1>1 DEF Crash
<1>2. CASE BookingStart(h) BY <1>2 DEF BookingStart, UpdateRead, RebookRead
<1>3. CASE PaymentStart(h) BY <1>3 DEF PaymentStart, CheckoutRead, CallbackRead
<1>4. CASE RefundStart(h) BY <1>4 DEF RefundStart, ApplyRead, DecideRead, RetryRead
<1>5. CASE BookingStep(h)
  BY <1>5
  DEF BookingStep, CountSettled, WriteConflict, WriteStatus, ScanSettled,
      RefundWithoutBankId, CallRefund, RecordRefund, RecordFailure, RebookCancel, RevertTarget, StatusUnchanged, Records
<1>6. CASE PaymentStep(h)
  BY <1>6
  DEF PaymentStep, Supersede, CreateSession, InitSession, InitFails, VerifyValid,
      VerifyInvalid, CloseSession, SettleLost, Settle, AfterSettle
<1>7. CASE RefundStep(h)
  BY <1>7
  DEF RefundStep, ApplyEligible, InsertConflict, InsertRequest, Reject, PriceApproval,
      ApproveConflict, Approve, Allocate, PayoutWithoutBankId, CallPayout, RecordPayout,
      RecordPayoutFailure, Conclude, RetryClaim, RetryRefused, RetryOwed
<1>. QED BY <1>1, <1>2, <1>3, <1>4, <1>5, <1>6, <1>7 DEF Start, Step

\* If createBooking's branch never starts, no request comes to its blind write,
LEMMA NobodyRebooksSafe ==
  ASSUME "rebook" \notin Ops, IInv, NobodyRebooks, [Next]_vars
  PROVE  NobodyRebooks'
<1>0. task \in [Handlers -> Tasks] BY DEF IInv, TypeOK
<1>1. ASSUME NEW h \in Handlers, Start(h) \/ Step(h) \/ Crash(h)
      PROVE  NobodyRebooks'
  <2>1. ~RebookRead(h) BY DEF RebookRead, Begin
  <2>. QED BY <1>0, <1>1, <2>1, TaskMoves DEF NobodyRebooks, At
<1>2. CASE UNCHANGED vars \/ Depart \/ \E p \in Payments : ShopperPays(p)
  BY <1>2 DEF vars, Depart, ShopperPays, NobodyRebooks, At
<1>. QED BY <1>1, <1>2 DEF Next

\* ever.
LEMMA NobodyRebooksAlways ==
  ASSUME "rebook" \notin Ops
  PROVE  Spec => [](IInv /\ NobodyRebooks)
<1>1. Init => NobodyRebooks BY DEF Init, NobodyRebooks, At, Idle, PaymentTask
<1>2. IInv /\ NobodyRebooks /\ [Next]_vars => NobodyRebooks' BY NobodyRebooksSafe
<1>. QED BY <1>1, <1>2, InitSafe, NextSafe, PTL DEF Spec

\* updateBookingStatus, decideRefundRequest, processGatewayResult: none of them
\* moves a COMPLETED or CANCELLED booking; only createBooking's write could.
THEOREM TerminalBookingsStay ==
  ASSUME "rebook" \notin Ops
  PROVE  Spec => TerminalBookings
<1>1. ASSUME IInv /\ NobodyRebooks, [Next]_vars
      PROVE  (booking \in {"COMPLETED", "CANCELLED"}) => booking' = booking
  BY <1>1, BookingWrites
  DEF WriteStatus, Settle, Approve, MayApprove, RebookCancel, NobodyRebooks, IInv, Knows, At, StatusUnchanged, PaidIfPending
<1>. QED BY <1>1, NobodyRebooksAlways, PTL DEF Spec, TerminalBookings

-----------------------------------------------------------------------------
(* Cancellation against settlement.                                        *)

\* The steps of a request in charge, and those that make one.
Charge(h) ==
    \/ WriteStatus(h) \/ Settle(h) \/ AfterSettle(h) \/ ScanSettled(h)
    \/ RefundWithoutBankId(h) \/ CallRefund(h) \/ RecordRefund(h) \/ RecordFailure(h)

\* Every other step is that of a request in charge of nothing; it settles no
\* row, clears no mark, and cancels only by an approval.
LEMMA Bystanders ==
  ASSUME IInv, NEW h \in Handlers, Start(h) \/ Step(h), ~RebookCancel(h), ~Charge(h),
         NEW p \in Payments, payment'[p] = "SUCCESS", ~marked'[p]
  PROVE  /\ ~InCharge(h, p)
         /\ payment[p] = "SUCCESS" /\ ~marked[p]
         /\ booking' = booking \/ Approve(h)
<1>. USE DEF paymentVars, requestVars, gatewayVars, At, InCharge
<1>0. /\ task \in [Handlers -> Tasks] /\ payment \in [Payments -> PaymentStatus \cup {None}]
      /\ marked \in [Payments -> BOOLEAN] /\ Knows(task[h])
  BY DEF IInv, TypeOK
<1>1. CASE BookingStart(h) BY <1>1 DEF BookingStart, UpdateRead, RebookRead, Begin
<1>2. CASE PaymentStart(h) BY <1>2 DEF PaymentStart, CheckoutRead, CallbackRead, Begin
<1>3. CASE RefundStart(h) BY <1>3 DEF RefundStart, ApplyRead, DecideRead, RetryRead, Begin
<1>4. CASE BookingStep(h)
  BY <1>0, <1>4 DEF Charge, BookingStep, CountSettled, WriteConflict
<1>5. CASE PaymentStep(h)
  BY <1>0, <1>5
  DEF Charge, PaymentStep, Supersede, CreateSession, InitSession, InitFails, VerifyValid,
      VerifyInvalid, CloseSession, CloseIfInitiated, SettleLost, HasStatus, Knows
<1>6. CASE RefundStep(h)
  BY <1>0, <1>6
  DEF RefundStep, ApplyEligible, InsertConflict, InsertRequest, Reject, PriceApproval,
      ApproveConflict, Approve, Allocate, PayoutWithoutBankId, CallPayout, RecordPayout,
      RecordPayoutFailure, Conclude, RetryClaim, RetryRefused, RetryOwed, AbandonSessions,
      FlipRefunded, MarkRetry, Oldest, Knows
<1>. QED BY <1>1, <1>2, <1>3, <1>4, <1>5, <1>6 DEF Start, Step

\* Each step of a request hands the charge of a settled payment on; only the
\* blind write of createBooking takes a payment that nobody is in charge of.
LEMMA ChargeHandedOn ==
  ASSUME IInv, NEW h \in Handlers, Start(h) \/ Step(h), ~RebookCancel(h),
         NEW p \in Payments, p \in Forgotten'
  PROVE  p \in Forgotten
<1>. SUFFICES ASSUME p \notin Forgotten, booking' = "CANCELLED", ~ApprovedOnce',
                     payment'[p] = "SUCCESS", ~marked'[p]
              PROVE  (\E g \in Handlers : InCharge(g, p))'
  BY DEF Forgotten, InCharge, At
<1>. USE DEF paymentVars, requestVars, gatewayVars
<1>0. /\ task \in [Handlers -> Tasks] /\ payment \in [Payments -> PaymentStatus \cup {None}]
      /\ marked \in [Payments -> BOOLEAN] /\ bank \in [Payments -> BOOLEAN]
      /\ request \in [Requests -> RequestStatus \cup {None}]
      /\ \A g \in Handlers : Knows(task[g])
  BY DEF IInv, TypeOK
<1>1. ~ApprovedOnce
  BY <1>0, RequestWrites
  DEF Next, ApprovedOnce, CloseApplications, CloseRequest, InsertRequest, Reject, Approve,
      MayApprove, None, RejectPending
<1>2. ASSUME booking = "CANCELLED", payment[p] = "SUCCESS", ~marked[p]
      PROVE  \E g \in Handlers : InCharge(g, p)
  BY <1>1, <1>2 DEF Forgotten
<1>3. (\E g \in Handlers : InCharge(g, p))'
  <2>1. \A g \in Handlers \ {h} : task'[g] = task[g] BY <1>0, TaskMoves
  <2>2. ASSUME NEW g \in Handlers, g # h, InCharge(g, p)
        PROVE  InCharge(g, p)'
    BY <2>1, <2>2 DEF InCharge, At
  <2>3. CASE WriteStatus(h)
    <3>1. At(h, "scan")' BY <1>0, <2>3 DEF WriteStatus, Become, Done, At, PaymentTask
    <3>. QED BY <3>1 DEF InCharge, At
  <2>4. CASE Settle(h)
    <3>1. CASE p = task[h].p
      <4>1. booking = "CANCELLED" BY <2>4 DEF Settle, PaidIfPending
      <4>2. At(h, "settled")' /\ task'[h].p = p
        BY <1>0, <2>4, <3>1, <4>1 DEF Settle, Become, At, CallbackTask
      <4>. QED BY <4>2 DEF InCharge, At
    <3>2. CASE p # task[h].p
      <4>1. booking = "CANCELLED" /\ payment[p] = "SUCCESS" /\ ~marked[p] /\ ~InCharge(h, p)
        BY <1>0, <2>4, <3>2 DEF Settle, InCharge, At, PaidIfPending
      <4>. QED BY <1>2, <2>2, <4>1
    <3>. QED BY <3>1, <3>2
  <2>5. CASE AfterSettle(h)
    <3>1. booking = "CANCELLED" /\ payment[p] = "SUCCESS" /\ ~marked[p] BY <2>5 DEF AfterSettle
    <3>2. At(h, "scan")' BY <1>0, <2>5, <3>1 DEF AfterSettle, Become, At, PaymentTask, TooLate
    <3>. QED BY <3>2 DEF InCharge, At
  <2>6. CASE ScanSettled(h)
    <3>1. p \in Settled BY <2>6 DEF ScanSettled, Settled, HasStatus
    <3>2. At(h, "refund")' /\ p \in task'[h].todo
      BY <1>0, <2>6, <3>1 DEF ScanSettled, Become, At, PaymentTask
    <3>. QED BY <3>2 DEF InCharge, At
  <2>7. CASE RefundWithoutBankId(h)
    <3>1. booking = "CANCELLED" /\ payment[p] = "SUCCESS" /\ ~marked[p]
      BY <1>0, <2>7 DEF RefundWithoutBankId, MarkRetry, Knows, Cancelled, At
    <3>2. ASSUME InCharge(h, p) PROVE InCharge(h, p)'
      <4>1. PICK q \in task[h].todo : MarkRetry(q) /\ NextRefund(h, task[h].todo \ {q})
        BY <2>7 DEF RefundWithoutBankId
      <4>2. p \in task[h].todo BY <2>7, <3>2 DEF RefundWithoutBankId, InCharge, At
      <4>3. payment[p] = "SUCCESS" /\ p # q BY <1>0, <3>1, <4>1 DEF MarkRetry
      <4>4. At(h, "refund")' /\ p \in task'[h].todo
        BY <1>0, <4>1, <4>2, <4>3 DEF NextRefund, Become, At, PaymentTask
      <4>. QED BY <4>4 DEF InCharge, At
    <3>. QED BY <1>2, <2>2, <3>1, <3>2
  <2>8. CASE CallRefund(h)
    <3>1. booking = "CANCELLED" /\ payment[p] = "SUCCESS" /\ ~marked[p] BY <2>8 DEF CallRefund
    <3>2. InCharge(h, p) => InCharge(h, p)'
      BY <1>0, <2>8, <3>1 DEF CallRefund, InCharge, At, Become, PaymentTask, Records
    <3>. QED BY <1>2, <2>2, <3>1, <3>2
  <2>9. CASE RecordRefund(h)
    <3>1. /\ booking = "CANCELLED" /\ payment[p] = "SUCCESS" /\ ~marked[p]
          /\ task[h].p # p
      BY <1>0, <2>9 DEF RecordRefund, FlipRefunded
    <3>2. InCharge(h, p) => InCharge(h, p)'
      BY <1>0, <2>9, <3>1 DEF RecordRefund, InCharge, At, NextRefund, Become, PaymentTask
    <3>. QED BY <1>2, <2>2, <3>1, <3>2
  <2>10. CASE RecordFailure(h)
    <3>1. /\ booking = "CANCELLED" /\ payment[p] = "SUCCESS" /\ ~marked[p]
          /\ task[h].p # p
      BY <1>0, <2>10 DEF RecordFailure, MarkRetry, Knows, At
    <3>2. InCharge(h, p) => InCharge(h, p)'
      BY <1>0, <2>10, <3>1 DEF RecordFailure, InCharge, At, NextRefund, Become, PaymentTask
    <3>. QED BY <1>2, <2>2, <3>1, <3>2
  <2>11. CASE ~Charge(h)
    <3>1. ~Approve(h)
      BY <1>0 DEF Approve, ApprovedOnce, Knows, At
    <3>2. /\ ~InCharge(h, p) /\ payment[p] = "SUCCESS" /\ ~marked[p] /\ booking = "CANCELLED"
      BY <2>11, <3>1, Bystanders
    <3>. QED BY <1>2, <2>2, <3>2
  <2>. QED BY <2>3, <2>4, <2>5, <2>6, <2>7, <2>8, <2>9, <2>10, <2>11 DEF Charge
<1>. QED BY <1>3

\* updateBookingStatus, issueRefunds, processGatewayResult: whatever was cut off
\* or overwritten before, and however many requests are in flight, no step of a
\* service loses sight of settled money, createBooking's blind write apart.
THEOREM StepsForgetNothing == Spec => OnlyFaultsForget
<1>1. ASSUME IInv, [Next]_vars
      PROVE  \/ Forgotten' \subseteq Forgotten
             \/ \A h \in Handlers : Start(h) \/ Step(h) => RebookCancel(h)
  <2>1. \A p \in Forgotten' : p \in Payments BY DEF Forgotten
  <2>. QED BY <1>1, <2>1, ChargeHandedOn
<1>. QED BY <1>1, Inductive, PTL DEF Spec, OnlyFaultsForget

\* Nothing is forgotten when nothing crashes and nobody rebooks.
LEMMA NoForgottenMoneySafe ==
  ASSUME "crash" \notin Ops, "rebook" \notin Ops, RaceInv, [Next]_vars
  PROVE  NoForgottenMoney'
<1>. SUFFICES ASSUME NEW p \in Payments, p \in Forgotten' PROVE FALSE
  BY DEF NoForgottenMoney, Forgotten, InCharge, At
<1>1. p \notin Forgotten BY DEF RaceInv, NoForgottenMoney, Forgotten
<1>2. ASSUME NEW h \in Handlers PROVE ~Crash(h) /\ ~RebookCancel(h)
  BY DEF Crash, RebookCancel, RaceInv, NobodyRebooks
<1>3. ASSUME NEW h \in Handlers, Start(h) \/ Step(h) PROVE FALSE
  BY <1>1, <1>2, <1>3, ChargeHandedOn DEF RaceInv
<1>4. CASE UNCHANGED vars \/ Depart \/ \E q \in Payments : ShopperPays(q)
  <2>1. UNCHANGED <<booking, payment, marked, request, task>>
    BY <1>4 DEF vars, Depart, ShopperPays, paymentVars, requestVars
  <2>. QED BY <1>1, <2>1 DEF Forgotten, ApprovedOnce, InCharge, At
<1>. QED BY <1>2, <1>3, <1>4 DEF Next

\* updateBookingStatus against processGatewayResult: for any number of
\* cancellations, settlements and refunds in flight, settled money of a booking
\* that was cancelled directly is being returned or is marked for a retry.
THEOREM MoneyIsNeverForgotten ==
  ASSUME "crash" \notin Ops, "rebook" \notin Ops
  PROVE  Spec => []NoForgottenMoney
<1>1. Init => RaceInv
  BY InitSafe, InitialBookingsOK
  DEF RaceInv, Init, NobodyRebooks, NoForgottenMoney, At, Idle, PaymentTask
<1>2. RaceInv /\ [Next]_vars => RaceInv'
  BY NextSafe, NobodyRebooksSafe, NoForgottenMoneySafe DEF RaceInv
<1>3. RaceInv => NoForgottenMoney BY DEF RaceInv
<1>. QED BY <1>1, <1>2, <1>3, PTL DEF Spec

=============================================================================
