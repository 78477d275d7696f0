-------------------------- MODULE OrderRiskProcess --------------------------
(***************************************************************************)
(* One instance of bpmn/order-risk-fulfillment.bpmn: decision table, manager *)
(* review, discount and inventory in parallel, payment, shipping.  Gateways  *)
(* and end events are passed in the step that completes the task before them. *)
(***************************************************************************)
EXTENDS ServiceTasks, RiskDecision, FiniteSets

CONSTANT Starts          \* variables an instance may be started with

ASSUME StartsAreNew == Starts \subseteq StartType

VARIABLE joined          \* tokens waiting in Gateway_ParallelJoin, by branch

vars == <<taskVars, joined>>

\* Service tasks, the job type of each, and the errors their boundary events catch.
Type == [notifyFraud   |-> "notify-customer-failure",
         discount      |-> "apply-discount",
         inventory     |-> "reserve-inventory",
         notifyStock   |-> "notify-customer-failure",
         payment       |-> "process-payment",
         notifyPayment |-> "notify-customer-failure",
         ship          |-> "ship-order"]
Caught(t) == CASE t = "inventory" -> {"ERR_OUT_OF_STOCK"}
               [] t = "payment"   -> {"ERR_PAYMENT_DECLINED"}
               [] OTHER           -> {}
Service == DOMAIN Type
Tasks == Service \cup {"decide", "review"}

Init == /\ \E v \in Starts : Begin(v, "decide")
        /\ joined = {}

-----------------------------------------------------------------------------
\* Gateway_ParallelFork
Fork == {"discount", "inventory"}

\* Mutant of RiskRoute: the gateway does not know the high risk.
RiskRouteLax(decision) == IF decision.risk = "CRITICAL" THEN {"notifyFraud"} ELSE Fork

\* Gateway_RiskRoute, its conditions in the order of its outgoing flows.
RiskRoute(decision) ==
    IF decision.risk = "HIGH" \/ decision.approval THEN {"review"}
    ELSE IF decision.risk = "CRITICAL" THEN {"notifyFraud"}
    ELSE Fork

\* The business rule task is evaluated by the broker itself.
Decide1 ==
    /\ "decide" \in active
    /\ LET d == Decide(var.customerTier, var.totalAmount, var.fraudScore)
       IN  /\ var' = [var EXCEPT !.decision = d]
           /\ Move("decide", RiskRoute(d), {})
    /\ UNCHANGED <<runs, stuck, ledger, joined>>

\* Gateway_ManagerDecision
ManagerDecides(approved) ==
    /\ Decision("review", approved)
    /\ IF approved THEN Move("review", Fork, {})
                   ELSE Move("review", {}, {"Order Rejected by Manager"})
    /\ UNCHANGED joined

\* Mutants of Join: either branch is enough; an arrival is forgotten.
JoinEither(branch) == Move(branch, {"payment"}, {}) /\ joined' = {}
JoinForgets(branch) ==
    /\ Move(branch, IF joined \cup {branch} = Fork THEN {"payment"} ELSE {}, {})
    /\ UNCHANGED joined

\* A branch reaches Gateway_ParallelJoin, which waits for the other one.
Join(branch) ==
    \/ /\ joined \cup {branch} = Fork
       /\ Move(branch, {"payment"}, {}) /\ joined' = {}
    \/ /\ joined \cup {branch} # Fork
       /\ Move(branch, {}, {}) /\ joined' = joined \cup {branch}

ApplyDiscountDone(r)    == Succeed(r, Type["discount"]) /\ Join("discount")
ReserveInventoryDone(r) == Succeed(r, Type["inventory"]) /\ Join("inventory")

OutOfStock(r) == /\ Throw(r, Type["inventory"], "ERR_OUT_OF_STOCK")
                 /\ Move("inventory", {"notifyStock"}, {}) /\ UNCHANGED <<joined, stuck>>

PaymentDone(r) == /\ Succeed(r, Type["payment"])
                  /\ Move("payment", {"ship"}, {}) /\ UNCHANGED joined

PaymentDeclined(r) == /\ Throw(r, Type["payment"], "ERR_PAYMENT_DECLINED")
                      /\ Move("payment", {"notifyPayment"}, {}) /\ UNCHANGED <<joined, stuck>>

\* A task whose only outgoing flow leads to an end event.
Last(r, end) == Succeed(r, Type[r.task]) /\ Move(r.task, {}, {end}) /\ UNCHANGED joined

ShipDone(r)          == Last(r, "Order Completed")
NotifyFraudDone(r)   == Last(r, "Order Rejected (Fraud)")
NotifyStockDone(r)   == Last(r, "Order Cancelled (No Stock)")
NotifyPaymentDone(r) == Last(r, "Order Cancelled (Payment Failed)")

\* Execution r is reported, and is the one that settles its job.
Done(r) == \/ r.task = "discount"      /\ ApplyDiscountDone(r)
           \/ r.task = "inventory"     /\ (ReserveInventoryDone(r) \/ OutOfStock(r))
           \/ r.task = "payment"       /\ (PaymentDone(r) \/ PaymentDeclined(r))
           \/ r.task = "ship"          /\ ShipDone(r)
           \/ r.task = "notifyFraud"   /\ NotifyFraudDone(r)
           \/ r.task = "notifyStock"   /\ NotifyStockDone(r)
           \/ r.task = "notifyPayment" /\ NotifyPaymentDone(r)

Next == \/ Decide1
        \/ \E approved \in BOOLEAN : ManagerDecides(approved)
        \/ \E t \in Service : Activate(t) /\ UNCHANGED joined
        \/ \E r \in runs : Done(r)
        \/ \E r \in runs : Attempt(r, Type[r.task], Caught(r.task)) /\ UNCHANGED joined

Spec == Init /\ [][Next]_vars

\* The broker moves tokens, jobs are handed out, reviewers decide, and a job
\* that is handed out again and again is in the end reported in time.
Fairness == /\ WF_vars(Decide1)
            /\ WF_vars(\E approved \in BOOLEAN : ManagerDecides(approved))
            /\ \A t \in Service : /\ WF_vars(Activate(t) /\ UNCHANGED joined)
                                  /\ SF_vars(\E r \in runs : r.task = t /\ r.locked /\ Done(r))

FairSpec == Spec /\ Fairness

-----------------------------------------------------------------------------
(* Properties                                                               *)

\* Tokens, executions and incidents are where they can be: only active service
\* tasks hold a lock or are stuck, never both.
TypeOK == /\ active \subseteq Tasks
          /\ RunsOK(Service)
          /\ stuck \subseteq active \X {"retries", "unhandled error"}
          /\ joined \subseteq Fork
          /\ ledger.charges \in 0..MaxCharges

\* Nobody is charged for an order that the decision table calls fraud, that a
\* manager had to approve and did not, or whose stock is not reserved: whatever
\* executions were repeated and in whatever order the branches finished.
ChargedOnlyIfCleared ==
    ledger.charges > 0 => /\ var.fraudScore < 80
                          /\ var.decision.approval => var.managerApproved
                          /\ var.inventoryReserved

\* The order as OrderLifecycle sees it: refused from the step on that takes one of
\* the four ways out, cleared while the payment holds the token.
RefusedNow == \/ active \cap {"notifyFraud", "notifyStock", "notifyPayment"} # {}
              \/ ended \ {"Order Completed"} # {}
StageNow == IF RefusedNow THEN "refused" ELSE IF var.order.tracked THEN "shipped"
            ELSE IF var.order.paid THEN "paid" ELSE IF "payment" \in active THEN "cleared" ELSE "open"

Lifecycle == INSTANCE OrderLifecycle WITH stage <- StageNow, charged <- ledger.charges > 0

\* The process keeps the order of an order's life: nobody is charged before the
\* branches have joined, or for an order that is refused, be it by an execution that
\* lost its lock long ago; goods leave only paid for.
ImplementsLifecycle == Lifecycle!Spec

\* Payment and shipping run alone: the join leaves no branch behind it, so no
\* late result of a branch can overwrite the paid order.
JoinWaitsForBoth ==
    active \cap {"payment", "ship", "notifyPayment"} # {} =>
        Cardinality(active) = 1 /\ joined = {}

\* The parallel branches both write the order, and the later one wins; what each
\* of them also returns in a variable of its own survives the other.
BranchesKept ==
    "payment" \in active =>
        /\ var.inventoryReserved
        /\ var.totalAmount = Discounted(var.order.total, var.decision.percent)

\* The table of README.md (DMN Decision Table Logic) as a classification, without the
\* order of its rules: which orders are stopped and which reviewed, and every discount.
TierPercent(tier) == CASE tier = "PLATINUM" -> 20 [] tier = "GOLD" -> 15
                       [] tier = "SILVER" -> 10 [] OTHER -> 0
Classified(d, tier, amount, fraud) ==
    /\ d.risk \in {"CRITICAL", "HIGH", "MEDIUM", "LOW"}
    /\ d.risk = "CRITICAL" <=> fraud >= 80
    /\ d.risk = "HIGH" <=> amount >= 5000 /\ fraud \in 40..79
    /\ d.risk = "LOW" <=> fraud < 40 /\ tier \in {"PLATINUM", "GOLD"}
    /\ d.approval <=> d.risk = "HIGH"
    /\ d.percent = IF d.risk = "HIGH" THEN 5 ELSE IF fraud < 40 THEN TierPercent(tier) ELSE 0

\* An order is decided about once, as that table says of its tier, amount and fraud
\* score at that moment; no execution that reports late brings another decision back.
DecisionIsTheTable ==
    [][var'.decision # var.decision =>
          /\ var.decision = NoDecision
          /\ Classified(var'.decision, var.customerTier, var.totalAmount, var.fraudScore)]_vars

OverNow == active = {} /\ joined = {}

\* An order whose items are in stock comes to one of its end events when its jobs
\* do not run out of retries, however often they have to be repeated: neither
\* branch is waited for in vain, and none is lost.
InStockEnds == [](stuck = {} /\ var.order.items # "scarce" /\ var.order.customer # "transient")
                  => <>(OverNow /\ ended # {})

\* Two claims of the documents that the process does not keep.

\* "Order Cancelled (No Stock)" (bpmn) and "graceful compensation" (README.md):
\* an order that is out of stock comes to an end.
OutOfStockEnds == [](stuck = {}) => []("Order Cancelled (No Stock)" \in ended => <>OverNow)

\* "used for payment step" (apply_discount.go): the customer pays the discounted total.
ChargesDiscounted == ledger.charges > 0 => ledger.amount = Discounted(var.order.total, var.decision.percent)
=============================================================================
