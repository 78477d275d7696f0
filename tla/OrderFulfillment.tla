-------------------------- MODULE OrderFulfillment --------------------------
(***************************************************************************)
(* One instance of bpmn/order-fulfillment.bpmn: validation, manual review of *)
(* orders from 1000 dollars on, payment, shipping.                           *)
(***************************************************************************)
EXTENDS ServiceTasks

CONSTANT Starts          \* variables an instance may be started with

ASSUME StartsAreNew == Starts \subseteq StartType

Type == [validate |-> "validate-order",
         payment  |-> "process-payment",
         ship     |-> "ship-order",
         notify   |-> "notify-customer-failure"]
Caught(t) == IF t = "payment" THEN {"ERR_PAYMENT_DECLINED"} ELSE {}
Service == DOMAIN Type
Tasks == Service \cup {"review"}

Init == \E v \in Starts : Begin(v, "validate")

-----------------------------------------------------------------------------
\* Mutants of ReviewRoute: the boundary itself needs no review; the gateway is
\* inclusive, and the payment does not wait for the review.
ReviewRouteAbove(v) == IF v.totalAmount > 1000 THEN {"review"} ELSE {"payment"}
ReviewRouteBoth(v) == {"payment"} \cup IF v.totalAmount >= 1000 THEN {"review"} ELSE {}

\* Gateway_ReviewNeeded
ReviewRoute(v) == IF v.requiresManualReview \/ v.totalAmount >= 1000 THEN {"review"} ELSE {"payment"}

ValidateDone(r) == Succeed(r, Type["validate"]) /\ Move("validate", ReviewRoute(var'), {})

\* Gateway_IsApproved
ReviewDone(approved) == /\ Decision("review", approved)
                        /\ IF approved THEN Move("review", {"payment"}, {})
                                       ELSE Move("review", {}, {"Order Rejected"})

PaymentDone(r) == Succeed(r, Type["payment"]) /\ Move("payment", {"ship"}, {})

\* Mutant of PaymentDeclined: a declined payment is tried again.
PaymentTriedAgain(r) == /\ Throw(r, Type["payment"], "ERR_PAYMENT_DECLINED")
                        /\ Move("payment", {"payment"}, {}) /\ UNCHANGED stuck

PaymentDeclined(r) == /\ Throw(r, Type["payment"], "ERR_PAYMENT_DECLINED")
                      /\ Move("payment", {"notify"}, {}) /\ UNCHANGED stuck

ShipDone(r)   == Succeed(r, Type["ship"]) /\ Move("ship", {}, {"Order Completed"})
NotifyDone(r) == Succeed(r, Type["notify"]) /\ Move("notify", {}, {"Order Cancelled"})

Done(r) == \/ r.task = "validate" /\ ValidateDone(r)
           \/ r.task = "payment"  /\ (PaymentDone(r) \/ PaymentDeclined(r))
           \/ r.task = "ship"     /\ ShipDone(r)
           \/ r.task = "notify"   /\ NotifyDone(r)

Next == \/ \E approved \in BOOLEAN : ReviewDone(approved)
        \/ \E t \in Service : Activate(t)
        \/ \E r \in runs : Done(r) \/ Attempt(r, Type[r.task], Caught(r.task))

Spec == Init /\ [][Next]_taskVars

\* As in OrderRiskProcess; the error of an invalid order is raised as well.
Fairness == /\ WF_taskVars(\E approved \in BOOLEAN : ReviewDone(approved))
            /\ \A t \in Service : /\ WF_taskVars(Activate(t))
                                  /\ SF_taskVars(\E r \in runs : r.task = t /\ r.locked /\ Done(r))
                                  /\ SF_taskVars(\E r \in runs : r.task = t /\ r.locked /\ Uncaught(r, Type[t], Caught(t)))

FairSpec == Spec /\ Fairness

-----------------------------------------------------------------------------
(* Properties                                                               *)

\* The instance is sequential: one token, handed out or stuck at most once.
TypeOK == /\ active \subseteq Tasks
          /\ \A t, u \in active : t = u
          /\ RunsOK(Service)
          /\ stuck \subseteq active \X {"retries", "unhandled error"}
          /\ ledger.charges \in 0..MaxCharges

\* An amount from 1000 dollars on is charged only after approval, even when the
\* amount the client declared differs from the sum of the items.
LargeChargeApproved == ledger.charges > 0 /\ ledger.amount >= 1000 => var.orderApproved

\* The gateway is never asked for another amount than the items add up to, and
\* an order is cancelled only after the gateway has declined it.
ChargedAsOrdered ==
    /\ ledger.charges > 0 => ledger.amount = var.order.worth /\ var.order.customer # ""
    /\ "Order Cancelled" \in ended => ledger.declined

\* The order as OrderLifecycle sees it.
StageNow == IF "notify" \in active \/ ended \ {"Order Completed"} # {} THEN "refused"
            ELSE IF var.order.tracked THEN "shipped" ELSE IF var.order.paid THEN "paid"
            ELSE IF "payment" \in active THEN "cleared" ELSE "open"

Lifecycle == INSTANCE OrderLifecycle WITH stage <- StageNow, charged <- ledger.charges > 0

\* The process keeps the order of an order's life, although executions that lost
\* their lock may still charge the customer after the process has moved on.
ImplementsLifecycle == Lifecycle!Spec

\* Every valid order comes to an end event, unless a job runs out of retries.
ValidOrderEnds ==
    [](stuck = {} /\ var.order.customer # "transient") => <>(active = {} /\ ended # {})

\* "so Zeebe catches it with a BPMN Boundary Error Event" (AGENT.md): business
\* errors are caught.
BusinessErrorsCaught == \A s \in stuck : s[2] # "unhandled error"
=============================================================================
