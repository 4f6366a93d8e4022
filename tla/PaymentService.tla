--------------------------- MODULE PaymentService ---------------------------
(***************************************************************************)
(* payment.service.ts on the same booking: opening a checkout session,     *)
(* and the gateway's success / fail / cancel redirects and IPN, which      *)
(* share processGatewayResult.  The shopper and the gateway are outside    *)
(* the program: a session once opened can be paid at any later time, and   *)
(* callbacks come late, twice, in any order, or never.                     *)
(***************************************************************************)
EXTENDS BookingService

-----------------------------------------------------------------------------
(* createPaymentSession.  The transaction's updateMany sees the INITIATED  *)
(* rows of its own snapshot: a row another checkout inserts before the     *)
(* commit escapes it, hence two steps.                                     *)

CheckoutRead(h) ==
    /\ booking = "PENDING"
    /\ RoomForPayment
    /\ Begin(h, "checkout", PaymentTask("supersede", 0, {}))
    /\ UNCHANGED <<booking, departed, paymentVars, requestVars, gatewayVars>>

Supersede(h) ==
    /\ At(h, "supersede")
    /\ Become(h, PaymentTask("create", 0, HasStatus("INITIATED")))
    /\ UNCHANGED <<booking, departed, paymentVars, requestVars, gatewayVars>>

\* The commit: the rows seen INITIATED are abandoned, the new row exists.
CreateSession(h) ==
    /\ At(h, "create")
    /\ \E p \in HasStatus(None) :
        /\ \A q \in 1..(p - 1) : payment[q] # None
        /\ payment' = [q \in Payments |->
                         IF q = p THEN "INITIATED"
                         ELSE IF q \in task[h].todo /\ payment[q] = "INITIATED" THEN "CANCELLED"
                         ELSE payment[q]]
        /\ Become(h, PaymentTask("init", p, {}))
    /\ UNCHANGED <<booking, departed, marked, bank, requestVars, gatewayVars>>

\* Mutant: the row is closed whatever it has become.
CloseAnyway(p, to) == payment' = [payment EXCEPT ![p] = to]

\* Moves a row only while it is still INITIATED.
CloseIfInitiated(p, to) ==
    payment' = [payment EXCEPT ![p] = IF @ = "INITIATED" THEN to ELSE @]

\* The page URL goes to the shopper whether or not the row is still live.
InitSession(h) ==
    /\ At(h, "init")
    /\ session' = [session EXCEPT ![task[h].p] = "open"]
    /\ Done(h)
    /\ UNCHANGED <<booking, departed, paymentVars, requestVars, sent>>

InitFails(h) ==
    /\ At(h, "init")
    /\ CloseIfInitiated(task[h].p, "FAILED")
    /\ Done(h)
    /\ UNCHANGED <<booking, departed, marked, bank, requestVars, gatewayVars>>

\* The shopper pays on the gateway's page.
ShopperPays(p) ==
    /\ session[p] = "open"
    /\ session' = [session EXCEPT ![p] = "paid"]
    /\ UNCHANGED <<booking, departed, paymentVars, requestVars, sent, task>>

-----------------------------------------------------------------------------
(* processGatewayResult.                                                   *)

\* A row already SUCCESS or REFUNDED short-circuits.  A callback with val_id
\* goes to verification, a cancel or fail callback closes the session.
CallbackRead(h) ==
    \E p \in Payments :
        /\ session[p] # "none"
        /\ payment[p] \notin {"SUCCESS", "REFUNDED"}
        /\ \/ Begin(h, "callback", CallbackTask("verify", p, None))
           \/ \E to \in {"CANCELLED", "FAILED"} :
                Begin(h, "callback", CallbackTask("close", p, to))
        /\ UNCHANGED <<booking, departed, paymentVars, requestVars, gatewayVars>>

\* verifySuccess awaits the validator: valid only for money really paid.
VerifyValid(h) ==
    /\ At(h, "verify")
    /\ session[task[h].p] = "paid"
    /\ Become(h, CallbackTask("settle", task[h].p, None))
    /\ UNCHANGED <<booking, departed, paymentVars, requestVars, gatewayVars>>

\* Invalid, or the validator is unreachable.
VerifyInvalid(h) ==
    /\ At(h, "verify")
    /\ Become(h, CallbackTask("close", task[h].p, "FAILED"))
    /\ UNCHANGED <<booking, departed, paymentVars, requestVars, gatewayVars>>

CloseSession(h) ==
    /\ At(h, "close")
    /\ CloseIfInitiated(task[h].p, task[h].to)
    /\ Done(h)
    /\ UNCHANGED <<booking, departed, marked, bank, requestVars, gatewayVars>>

\* The other callback settled first.
SettleLost(h) ==
    /\ At(h, "settle")
    /\ payment[task[h].p] \notin {"INITIATED", "CANCELLED", "FAILED"}
    /\ Done(h)
    /\ UNCHANGED <<booking, departed, paymentVars, requestVars, gatewayVars>>

\* Mutant: the booking update of the settlement names the row only.
PaidAnyway == "PAID"

\* updateMany({id, status: PENDING}, {status: PAID})
PaidIfPending == IF booking = "PENDING" THEN "PAID" ELSE booking

\* One transaction: the payment becomes SUCCESS, a PENDING booking PAID.
Settle(h) ==
    /\ At(h, "settle")
    /\ payment[task[h].p] \in {"INITIATED", "CANCELLED", "FAILED"}
    /\ payment' = [payment EXCEPT ![task[h].p] = "SUCCESS"]
    /\ \E named \in BankIds : bank' = [bank EXCEPT ![task[h].p] = named]
    /\ booking' = PaidIfPending
    /\ Become(h, IF booking = "PENDING" THEN Idle ELSE CallbackTask("settled", task[h].p, None))
    /\ UNCHANGED <<departed, marked, requestVars, gatewayVars>>

\* Mutants: the booking is not read again after the commit, or not looked at.
NeverLate == FALSE
AlwaysLate == TRUE

\* Money for a booking that reads CANCELLED after the commit is given back.
TooLate == booking = "CANCELLED"

AfterSettle(h) ==
    /\ At(h, "settled")
    /\ IF TooLate
         THEN Become(h, PaymentTask("scan", 0, {}))
         ELSE Done(h)
    /\ UNCHANGED <<booking, departed, paymentVars, requestVars, gatewayVars>>

PaymentStart(h) == CheckoutRead(h) \/ CallbackRead(h)
PaymentStep(h) ==
    \/ Supersede(h) \/ CreateSession(h) \/ InitSession(h) \/ InitFails(h)
    \/ VerifyValid(h) \/ VerifyInvalid(h) \/ CloseSession(h)
    \/ SettleLost(h) \/ Settle(h) \/ AfterSettle(h)

=============================================================================
