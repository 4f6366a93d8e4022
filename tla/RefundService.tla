--------------------------- MODULE RefundService ----------------------------
(***************************************************************************)
(* refund.service.ts on the same booking: the customer's application, the  *)
(* admin's decision, the payout of an approval and its retry.              *)
(***************************************************************************)
EXTENDS Ledger

MAX_APPLICATIONS == 2

-----------------------------------------------------------------------------
(* createRefundRequest.                                                    *)

\* The booking is read, and read again in the transaction: the second read
\* decides, so the two are one step.
ApplyRead(h) ==
    /\ booking \in {"PAID", "CONFIRMED"}
    /\ RoomForRequest
    /\ Begin(h, "apply", RequestTask("eligible", 0, 0))
    /\ UNCHANGED <<booking, departed, paymentVars, requestVars, gatewayVars>>

\* The latest row is REJECTED (or there is none), and not too many are.  The
\* two reads are one step: rejections are final, so what the second read
\* accepts was acceptable when the first one ran.
Rejections == Cardinality({r \in Requests : request[r] = "REJECTED"})

MayApply ==
    /\ \A r \in Requests :
         (request[r] # None /\ \A s \in Requests : s > r => request[s] = None)
            => request[r] = "REJECTED"
    /\ Rejections < MAX_APPLICATIONS

ApplyEligible(h) ==
    /\ At(h, "eligible")
    /\ IF MayApply THEN Become(h, RequestTask("insert", 0, 0)) ELSE Done(h)
    /\ UNCHANGED <<booking, departed, paymentVars, requestVars, gatewayVars>>

\* P2002: the partial unique index admits one row that is not REJECTED.
InsertConflict(h) ==
    /\ At(h, "insert")
    /\ \E r \in Requests : Live(r)
    /\ Done(h)
    /\ UNCHANGED <<booking, departed, paymentVars, requestVars, gatewayVars>>

InsertRequest(h) ==
    /\ At(h, "insert")
    /\ \A r \in Requests : ~Live(r)
    /\ \E r \in Requests :
        /\ request[r] = None
        /\ \A s \in 1..(r - 1) : request[s] # None
        /\ request' = [request EXCEPT ![r] = "PENDING"]
    /\ Done(h)
    /\ UNCHANGED <<booking, departed, paymentVars, approved, fresh, gatewayVars>>

-----------------------------------------------------------------------------
(* decideRefundRequest.                                                    *)

DecideRead(h) ==
    \E r \in Requests :
        /\ request[r] = "PENDING"
        /\ \/ Begin(h, "decide", RequestTask("reject", r, 0))
           \/ \E share \in Shares :
                Begin(h, "decide", RequestTask("price", r, share))
        /\ UNCHANGED <<booking, departed, paymentVars, requestVars, gatewayVars>>

\* updateMany({id, status: PENDING}, {status: REJECTED})
RejectPending(r) == request' = [request EXCEPT ![r] = IF @ = "PENDING" THEN "REJECTED" ELSE @]

Reject(h) ==
    /\ At(h, "reject")
    /\ RejectPending(task[h].r)
    /\ Done(h)
    /\ UNCHANGED <<booking, departed, paymentVars, approved, fresh, gatewayVars>>

\* Never more than the settled money; nothing to refund is refused.
PriceApproval(h) ==
    /\ At(h, "price")
    /\ LET amount == Smaller(task[h].left, UnitsIn("SUCCESS"))
       IN  IF amount > 0
             THEN Become(h, RequestTask("approve", task[h].r, amount))
             ELSE Done(h)
    /\ UNCHANGED <<booking, departed, paymentVars, requestVars, gatewayVars>>

\* Mutant: the transaction relies on the booking read before it.
MayApproveStale(h) == request[task[h].r] = "PENDING"

MayApprove(h) ==
    /\ request[task[h].r] = "PENDING"
    /\ booking \in {"PAID", "CONFIRMED"}

ApproveConflict(h) ==
    /\ At(h, "approve")
    /\ ~MayApprove(h)
    /\ Done(h)
    /\ UNCHANGED <<booking, departed, paymentVars, requestVars, gatewayVars>>

\* One transaction: the approval, the cancellation, the open sessions.
Approve(h) ==
    /\ At(h, "approve")
    /\ MayApprove(h)
    /\ request' = [request EXCEPT ![task[h].r] = "APPROVED"]
    /\ approved' = [approved EXCEPT ![task[h].r] = task[h].left]
    /\ booking' = "CANCELLED"
    /\ AbandonSessions
    /\ Become(h, RequestTask("allocate", task[h].r, task[h].left))
    /\ UNCHANGED <<departed, marked, bank, fresh, gatewayVars>>

-----------------------------------------------------------------------------
(* runPayout: pays task[h].left out of the settled payments, oldest first. *)

\* The next payment of the allocation, or the end of it: only a payout with
\* no failure and nothing left concludes the request.
NextPayout(h, todo, left, failed) ==
    Become(h, IF todo # {} /\ left > 0
                THEN PayoutTask("payout", task[h].r, 0, todo, left, failed)
              ELSE IF ~failed /\ left = 0
                THEN RequestTask("conclude", task[h].r, 0)
              ELSE Idle)

Allocate(h) ==
    /\ At(h, "allocate")
    /\ NextPayout(h, Settled, task[h].left, FALSE)
    /\ UNCHANGED <<booking, departed, paymentVars, requestVars, gatewayVars>>

Oldest(todo) == {p \in todo : \A q \in todo : p <= q}

PayoutWithoutBankId(h) ==
    /\ At(h, "payout")
    /\ \E p \in Oldest(task[h].todo) :
        /\ ~bank[p]
        /\ MarkRetry(p)
        /\ NextPayout(h, task[h].todo \ {p}, task[h].left, TRUE)
    /\ UNCHANGED <<booking, departed, payment, bank, requestVars, gatewayVars>>

Slice(h) == Smaller(task[h].left, Price)

CallPayout(h) ==
    /\ At(h, "payout")
    /\ \E p \in Oldest(task[h].todo), outcome \in Outcomes :
        /\ bank[p]
        /\ GatewayRefund(p, Slice(h), outcome)
        /\ Become(h, PayoutTask(IF outcome = "done" THEN "payFlip" ELSE "payMark",
                                task[h].r, p, task[h].todo \ {p}, task[h].left,
                                task[h].failed))
    /\ UNCHANGED <<booking, departed, paymentVars, requestVars, session>>

\* A row another refund flipped first does not count towards the amount.
RecordPayout(h) ==
    /\ At(h, "payFlip")
    /\ FlipRefunded(task[h].p)
    /\ NextPayout(h, task[h].todo,
                  IF payment[task[h].p] = "SUCCESS" THEN task[h].left - Slice(h)
                                                    ELSE task[h].left,
                  task[h].failed)
    /\ UNCHANGED <<booking, departed, marked, bank, requestVars, gatewayVars>>

RecordPayoutFailure(h) ==
    /\ At(h, "payMark")
    /\ MarkRetry(task[h].p)
    /\ NextPayout(h, task[h].todo, task[h].left, TRUE)
    /\ UNCHANGED <<booking, departed, payment, bank, requestVars, gatewayVars>>

\* updateMany({id, status: APPROVED}, {status: REFUNDED})
CloseRequest(r) ==
    request' = [request EXCEPT ![r] = IF @ = "APPROVED" THEN "REFUNDED" ELSE @]

Conclude(h) ==
    /\ At(h, "conclude")
    /\ CloseRequest(task[h].r)
    /\ Done(h)
    /\ UNCHANGED <<booking, departed, paymentVars, approved, fresh, gatewayVars>>

-----------------------------------------------------------------------------
(* retryRefundPayout.                                                      *)

RetryRead(h) ==
    \E r \in Requests :
        /\ request[r] = "APPROVED"
        /\ approved[r] > 0
        /\ Begin(h, "retry", RequestTask("claim", r, 0))
        /\ fresh' = [fresh EXCEPT ![r] = @ \cup {h}]
        /\ UNCHANGED <<booking, departed, paymentVars, request, approved, gatewayVars>>

\* The claim is a compare-and-set on updatedAt, and moves it.
Claims(h) == request[task[h].r] = "APPROVED" /\ h \in fresh[task[h].r]

RetryClaim(h) ==
    /\ At(h, "claim")
    /\ Claims(h)
    /\ fresh' = [fresh EXCEPT ![task[h].r] = {}]
    /\ Become(h, RequestTask("owed", task[h].r, 0))
    /\ UNCHANGED <<booking, departed, paymentVars, request, approved, gatewayVars>>

RetryRefused(h) ==
    /\ At(h, "claim")
    /\ ~Claims(h)
    /\ fresh' = [fresh EXCEPT ![task[h].r] = @ \ {h}]
    /\ Done(h)
    /\ UNCHANGED <<booking, departed, paymentVars, request, approved, gatewayVars>>

NothingOwed(owed) == owed <= 0

\* Owed: the approved amount less every REFUNDED row at its full amount.
RetryOwed(h) ==
    /\ At(h, "owed")
    /\ LET owed == approved[task[h].r] - UnitsIn("REFUNDED")
       IN  IF NothingOwed(owed)
             THEN CloseRequest(task[h].r) /\ Done(h)
             ELSE /\ Become(h, RequestTask("allocate", task[h].r, owed))
                  /\ UNCHANGED request
    /\ UNCHANGED <<booking, departed, paymentVars, approved, fresh, gatewayVars>>

RefundStart(h) == ApplyRead(h) \/ DecideRead(h) \/ RetryRead(h)
RefundStep(h) ==
    \/ ApplyEligible(h) \/ InsertConflict(h) \/ InsertRequest(h)
    \/ Reject(h) \/ PriceApproval(h) \/ ApproveConflict(h) \/ Approve(h)
    \/ Allocate(h) \/ PayoutWithoutBankId(h) \/ CallPayout(h)
    \/ RecordPayout(h) \/ RecordPayoutFailure(h) \/ Conclude(h)
    \/ RetryClaim(h) \/ RetryRefused(h) \/ RetryOwed(h)

=============================================================================
