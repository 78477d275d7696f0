---------------------------- MODULE TaskHandlers ----------------------------
(***************************************************************************)
(* The job handlers of internal/worker as functions from the variables of a  *)
(* job to a result.  Amounts are whole dollars, multiples of 100, so that a   *)
(* percentage of one is exact.  What identifies customers, items and times    *)
(* is reduced to what the handlers tell apart: how the payment gateway        *)
(* answers the customer, and whether the items are valid and in stock.        *)
(***************************************************************************)
EXTENDS Integers

Customers == {"", "regular", "decline", "transient"}  \* prefixes of customerId
Items     == {"none", "malformed", "fine", "scarce"}

\* model.OrderPayload; `worth` is the sum over its items.
OrderOf(customer, items, worth, total) ==
    [customer |-> customer, items |-> items, worth |-> worth, total |-> total,
     percent |-> 0, discounted |-> 0, reserved |-> FALSE,
     paid |-> FALSE, tracked |-> FALSE, status |-> "CREATED", reason |-> ""]

\* Variables of a new instance: what the server and the starter send, and the
\* variables that later steps add.
NoDecision == [risk |-> "", percent |-> 0, approval |-> FALSE]
StartVars(order, tier, total, fraud) ==
    [order |-> order, customerTier |-> tier, totalAmount |-> total, fraudScore |-> fraud,
     decision |-> NoDecision, requiresManualReview |-> FALSE,
     orderApproved |-> FALSE, managerApproved |-> FALSE, inventoryReserved |-> FALSE,
     orderStatus |-> "", failureReason |-> ""]

\* What an instance may be started with: an order nobody has worked on yet.
NewOrder == [customer : Customers, items : Items, worth : Int, total : Int,
             percent : Int, discounted : Int, reserved : BOOLEAN,
             paid : {FALSE}, tracked : {FALSE}, status : STRING, reason : STRING]
StartType == [order : NewOrder, customerTier : STRING, totalAmount : Int, fraudScore : Int,
              decision : {NoDecision}, requiresManualReview : BOOLEAN,
              orderApproved : BOOLEAN, managerApproved : BOOLEAN, inventoryReserved : BOOLEAN,
              orderStatus : STRING, failureReason : STRING]

\* Completing a job sets the variables of its result, all at once.
Merge(vars, update) ==
    [v \in DOMAIN vars |-> IF v \in DOMAIN update THEN update[v] ELSE vars[v]]

Ok(update)     == [end |-> "ok", set |-> update, code |-> ""]
Business(code) == [end |-> "business", set |-> <<>>, code |-> code]
Technical      == [end |-> "technical", set |-> <<>>, code |-> ""]

-----------------------------------------------------------------------------
\* Mutant of ValidateOrder: the declared total of the order is trusted.
ValidateOrderTrusts(v) ==
    IF v.order.customer = "" \/ v.order.items \in {"none", "malformed"}
    THEN Business("ERR_INVALID_ORDER")
    ELSE Ok([order |-> [v.order EXCEPT !.status = "VALIDATED"], orderStatus |-> "VALIDATED",
             totalAmount |-> v.order.worth, requiresManualReview |-> v.order.worth >= 1000])

ValidateOrder(v) ==
    IF v.order.customer = "" \/ v.order.items \in {"none", "malformed"}
    THEN Business("ERR_INVALID_ORDER")
    ELSE LET review == v.order.worth >= 1000
         IN  Ok([order |-> [v.order EXCEPT !.total = v.order.worth, !.status = "VALIDATED"],
                 orderStatus |-> "VALIDATED",
                 totalAmount |-> v.order.worth,
                 requiresManualReview |-> review])

\* The discount of the decision table, or else one already in the order.
DiscountPercent(v) ==
    IF v.decision # NoDecision THEN v.decision.percent
    ELSE IF v.order.percent > 0 THEN v.order.percent ELSE 0

Discounted(amount, percent) ==
    LET left == amount - (amount * percent) \div 100 IN IF left < 0 THEN 0 ELSE left

ApplyDiscount(v) ==
    LET left == Discounted(v.order.total, DiscountPercent(v))
    IN  Ok([order |-> [v.order EXCEPT !.percent = DiscountPercent(v), !.discounted = left],
            totalAmount |-> left])

\* Mutant of ReserveInventory: the variables of the job are returned as well.
ReserveInventoryEchoes(v) ==
    IF v.order.items = "scarce" THEN Business("ERR_OUT_OF_STOCK")
    ELSE Ok([v EXCEPT !.order.reserved = TRUE, !.inventoryReserved = TRUE])

ReserveInventory(v) ==
    IF v.order.items = "scarce" THEN Business("ERR_OUT_OF_STOCK")
    ELSE Ok([order |-> [v.order EXCEPT !.reserved = TRUE], inventoryReserved |-> TRUE])

\* The amount ProcessPayment asks the gateway for, and DefaultPaymentService's answer.
ChargeAmount(v) == v.order.total
Charge(customer, amount) == IF customer = "decline" \/ amount > 100000 THEN "declined"
                            ELSE IF customer = "transient" THEN "unavailable" ELSE "captured"

ProcessPayment(v) ==
    CASE Charge(v.order.customer, ChargeAmount(v)) = "declined"    -> Business("ERR_PAYMENT_DECLINED")
      [] Charge(v.order.customer, ChargeAmount(v)) = "unavailable" -> Technical
      [] OTHER -> Ok([order |-> [v.order EXCEPT !.paid = TRUE, !.status = "PAID"],
                      orderStatus |-> "PAID"])

ShipOrder(v) == Ok([order |-> [v.order EXCEPT !.tracked = TRUE, !.status = "SHIPPED"],
                    orderStatus |-> "SHIPPED"])

NotifyCustomerFailure(v) ==
    Ok([order |-> [v.order EXCEPT !.status = "FAILED", !.reason = "Payment Declined"],
        orderStatus |-> "FAILED", failureReason |-> "Payment Declined"])

\* The six job types of RegisterWorkers and the handler each is served by.
Handle(type, v) == CASE type = "validate-order"          -> ValidateOrder(v)
                     [] type = "process-payment"         -> ProcessPayment(v)
                     [] type = "ship-order"              -> ShipOrder(v)
                     [] type = "notify-customer-failure" -> NotifyCustomerFailure(v)
                     [] type = "apply-discount"          -> ApplyDiscount(v)
                     [] type = "reserve-inventory"       -> ReserveInventory(v)
=============================================================================
