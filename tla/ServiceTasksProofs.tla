------------------------- MODULE ServiceTasksProofs -------------------------
(***************************************************************************)
(* What the proofs about both processes need of their service tasks: which    *)
(* variables each handler leaves as they were, what running it does to the    *)
(* payment gateway, and that an execution stays what it was when it was       *)
(* handed out.                                                               *)
(***************************************************************************)
EXTENDS ServiceTasks, TLAPS

VarNames == {"order", "customerTier", "totalAmount", "fraudScore", "decision",
             "requiresManualReview", "orderApproved", "managerApproved", "inventoryReserved",
             "orderStatus", "failureReason"}
OrderNames == {"customer", "items", "worth", "total", "percent", "discounted", "reserved",
               "paid", "tracked", "status", "reason"}
Known(v) == DOMAIN v = VarNames /\ DOMAIN v.order = OrderNames

LEMMA StartKnown == ASSUME NEW v \in StartType
                    PROVE  /\ Known(v) /\ v.decision = NoDecision
                           /\ v.order.paid = FALSE /\ v.order.tracked = FALSE
BY DEF StartType, NewOrder, Known, VarNames, OrderNames

-----------------------------------------------------------------------------
(* Handlers                                                                 *)

\* No handler sets what the decision table and the reviewers answer.
Beside(u, w) == /\ u.customerTier = w.customerTier /\ u.fraudScore = w.fraudScore
                /\ u.decision = w.decision /\ u.orderApproved = w.orderApproved
                /\ u.managerApproved = w.managerApproved

\* No handler changes who ordered what.
SameOrder(o, p) == o.customer = p.customer /\ o.items = p.items /\ o.worth = p.worth

Named(o) == o.customer # ""

LEMMA NamedSame == ASSUME NEW o, NEW p, SameOrder(o, p), Named(p) PROVE Named(o)
BY DEF SameOrder, Named

LEMMA ValidateMerged ==
    ASSUME NEW v, NEW w, NEW u, Known(v), Known(w), ValidateOrder(v).end = "ok",
           u = Merge(w, ValidateOrder(v).set)
    PROVE  /\ Known(u) /\ Beside(u, w) /\ SameOrder(u.order, v.order)
           /\ Named(v.order) /\ u.order.total = v.order.worth
           /\ u.totalAmount = v.order.worth
           /\ u.order.paid = v.order.paid /\ u.order.tracked = v.order.tracked
<1> DEFINE o  == [v.order EXCEPT !.total = v.order.worth, !.status = "VALIDATED"]
           up == [order |-> o, orderStatus |-> "VALIDATED", totalAmount |-> v.order.worth,
                  requiresManualReview |-> v.order.worth >= 1000]
<1>1. Named(v.order) /\ ValidateOrder(v).set = up
    BY DEF ValidateOrder, Ok, Business, Named
<1>2. /\ DOMAIN o = OrderNames /\ SameOrder(o, v.order) /\ o.total = v.order.worth
      /\ o.paid = v.order.paid /\ o.tracked = v.order.tracked
    BY DEF Known, OrderNames, SameOrder
<1> HIDE DEF o
<1>3. u = Merge(w, up)
    BY <1>1
<1>4. DOMAIN u = VarNames /\ u.order = o /\ u.totalAmount = v.order.worth /\ Beside(u, w)
    BY <1>3 DEF Merge, Known, VarNames, Beside
<1> HIDE DEF up
<1> QED BY <1>1, <1>2, <1>4 DEF Known

\* The order v is given has been worked on, and nothing else of w has changed.
OnlyOrder(u, v, w) ==
    /\ Known(u) /\ Beside(u, w) /\ SameOrder(u.order, v.order)
    /\ u.order.total = v.order.total /\ u.totalAmount = w.totalAmount
    /\ u.inventoryReserved = w.inventoryReserved

\* What the gateway answers to a payment.
AnswerTo(v) == Charge(v.order.customer, v.order.total)

Paid(u, v, w) == /\ OnlyOrder(u, v, w) /\ AnswerTo(v) = "captured"
                 /\ u.order.paid = TRUE /\ u.order.tracked = v.order.tracked

LEMMA PaymentMerged ==
    ASSUME NEW v, NEW w, NEW u, Known(v), Known(w), ProcessPayment(v).end = "ok",
           u = Merge(w, ProcessPayment(v).set)
    PROVE  Paid(u, v, w)
<1> DEFINE o  == [v.order EXCEPT !.paid = TRUE, !.status = "PAID"]
           up == [order |-> o, orderStatus |-> "PAID"]
<1>1. AnswerTo(v) = "captured" /\ ProcessPayment(v).set = up
    BY DEF ProcessPayment, AnswerTo, Charge, ChargeAmount, Ok, Business, Technical
<1>2. /\ DOMAIN o = OrderNames /\ SameOrder(o, v.order) /\ o.total = v.order.total
      /\ o.paid = TRUE /\ o.tracked = v.order.tracked
    BY DEF Known, OrderNames, SameOrder
<1> HIDE DEF o
<1>3. u = Merge(w, up)
    BY <1>1
<1>4. /\ DOMAIN u = VarNames /\ u.order = o /\ Beside(u, w)
      /\ u.totalAmount = w.totalAmount /\ u.inventoryReserved = w.inventoryReserved
    BY <1>3 DEF Merge, Known, VarNames, Beside
<1> QED BY <1>1, <1>2, <1>4 DEF Known, OnlyOrder, Paid

Shipped(u, v, w) == /\ OnlyOrder(u, v, w)
                    /\ u.order.paid = v.order.paid /\ u.order.tracked = TRUE

LEMMA ShipMerged ==
    ASSUME NEW v, NEW w, NEW u, Known(v), Known(w),
           u = Merge(w, ShipOrder(v).set)
    PROVE  Shipped(u, v, w)
<1> DEFINE o  == [v.order EXCEPT !.tracked = TRUE, !.status = "SHIPPED"]
           up == [order |-> o, orderStatus |-> "SHIPPED"]
<1>1. ShipOrder(v).set = up
    BY DEF ShipOrder, Ok
<1>2. /\ DOMAIN o = OrderNames /\ SameOrder(o, v.order) /\ o.total = v.order.total
      /\ o.paid = v.order.paid /\ o.tracked = TRUE
    BY DEF Known, OrderNames, SameOrder
<1> HIDE DEF o
<1>3. u = Merge(w, up)
    BY <1>1
<1>4. /\ DOMAIN u = VarNames /\ u.order = o /\ Beside(u, w)
      /\ u.totalAmount = w.totalAmount /\ u.inventoryReserved = w.inventoryReserved
    BY <1>3 DEF Merge, Known, VarNames, Beside
<1> QED BY <1>1, <1>2, <1>4 DEF Known, OnlyOrder, Shipped

LEMMA NotifyMerged ==
    ASSUME NEW v, NEW w, NEW u, Known(v), Known(w),
           u = Merge(w, NotifyCustomerFailure(v).set)
    PROVE  /\ OnlyOrder(u, v, w)
           /\ u.order.paid = v.order.paid /\ u.order.tracked = v.order.tracked
<1> DEFINE o  == [v.order EXCEPT !.status = "FAILED", !.reason = "Payment Declined"]
           up == [order |-> o, orderStatus |-> "FAILED", failureReason |-> "Payment Declined"]
<1>1. NotifyCustomerFailure(v).set = up
    BY DEF NotifyCustomerFailure, Ok
<1>2. /\ DOMAIN o = OrderNames /\ SameOrder(o, v.order) /\ o.total = v.order.total
      /\ o.paid = v.order.paid /\ o.tracked = v.order.tracked
    BY DEF Known, OrderNames, SameOrder
<1> HIDE DEF o
<1>3. u = Merge(w, up)
    BY <1>1
<1>4. /\ DOMAIN u = VarNames /\ u.order = o /\ Beside(u, w)
      /\ u.totalAmount = w.totalAmount /\ u.inventoryReserved = w.inventoryReserved
    BY <1>3 DEF Merge, Known, VarNames, Beside
<1> QED BY <1>1, <1>2, <1>4 DEF Known, OnlyOrder

\* The same with the discount of the decision v was given.
Discount(u, v, w) ==
    /\ Known(u) /\ Beside(u, w) /\ SameOrder(u.order, v.order)
    /\ u.order.total = v.order.total
    /\ u.totalAmount = Discounted(v.order.total, DiscountPercent(v))
    /\ u.inventoryReserved = w.inventoryReserved
    /\ u.order.paid = v.order.paid /\ u.order.tracked = v.order.tracked

LEMMA DiscountMerged ==
    ASSUME NEW v, NEW w, NEW u, Known(v), Known(w),
           u = Merge(w, ApplyDiscount(v).set)
    PROVE  Discount(u, v, w)
<1> DEFINE left == Discounted(v.order.total, DiscountPercent(v))
           o  == [v.order EXCEPT !.percent = DiscountPercent(v), !.discounted = left]
           up == [order |-> o, totalAmount |-> left]
<1>1. ApplyDiscount(v).set = up
    BY DEF ApplyDiscount, Ok
<1> HIDE DEF left
<1>2. /\ DOMAIN o = OrderNames /\ SameOrder(o, v.order) /\ o.total = v.order.total
      /\ o.paid = v.order.paid /\ o.tracked = v.order.tracked
    BY DEF Known, OrderNames, SameOrder
<1> HIDE DEF o
<1>3. u = Merge(w, up)
    BY <1>1
<1>4. /\ DOMAIN u = VarNames /\ u.order = o /\ Beside(u, w)
      /\ u.totalAmount = left /\ u.inventoryReserved = w.inventoryReserved
    BY <1>3 DEF Merge, Known, VarNames, Beside
<1> QED BY <1>1, <1>2, <1>4 DEF Known, left, Discount

\* The same with the stock reserved.
Reserve(u, v, w) ==
    /\ Known(u) /\ Beside(u, w) /\ SameOrder(u.order, v.order)
    /\ u.order.total = v.order.total /\ u.totalAmount = w.totalAmount
    /\ u.inventoryReserved = TRUE
    /\ u.order.paid = v.order.paid /\ u.order.tracked = v.order.tracked

LEMMA InventoryMerged ==
    ASSUME NEW v, NEW w, NEW u, Known(v), Known(w), ReserveInventory(v).end = "ok",
           u = Merge(w, ReserveInventory(v).set)
    PROVE  Reserve(u, v, w)
<1> DEFINE o  == [v.order EXCEPT !.reserved = TRUE]
           up == [order |-> o, inventoryReserved |-> TRUE]
<1>1. ReserveInventory(v).set = up
    BY DEF ReserveInventory, Ok, Business
<1>2. /\ DOMAIN o = OrderNames /\ SameOrder(o, v.order) /\ o.total = v.order.total
      /\ o.paid = v.order.paid /\ o.tracked = v.order.tracked
    BY DEF Known, OrderNames, SameOrder
<1> HIDE DEF o
<1>3. u = Merge(w, up)
    BY <1>1
<1>4. /\ DOMAIN u = VarNames /\ u.order = o /\ Beside(u, w)
      /\ u.totalAmount = w.totalAmount /\ u.inventoryReserved = TRUE
    BY <1>3 DEF Merge, Known, VarNames, Beside
<1> QED BY <1>1, <1>2, <1>4 DEF Known, Reserve

-----------------------------------------------------------------------------
(* The payment gateway                                                      *)

LedgerOK == /\ DOMAIN ledger = {"charges", "amount", "declined"}
            /\ ledger.charges \in 0..MaxCharges

\* Only payments reach the gateway; what it answers depends on customer and amount.
LEMMA LedgerMoves ==
    ASSUME LedgerOK, NEW type, NEW v, SideEffect(type, v)
    PROVE  /\ LedgerOK'
           /\ type # "process-payment" => ledger' = ledger
           /\ type = "process-payment" =>
                \/ /\ AnswerTo(v) = "captured" /\ ledger'.charges > 0
                   /\ ledger'.amount = v.order.total /\ ledger'.declined = ledger.declined
                \/ /\ AnswerTo(v) = "declined" /\ ledger'.declined = TRUE
                   /\ ledger'.charges = ledger.charges /\ ledger'.amount = ledger.amount
                \/ AnswerTo(v) = "unavailable" /\ ledger' = ledger
<1>1. AnswerTo(v) \in {"captured", "declined", "unavailable"}
    BY DEF AnswerTo, Charge
<1>2. CASE type # "process-payment"
    BY <1>2 DEF SideEffect, LedgerOK
<1> DEFINE more == IF ledger.charges < MaxCharges THEN ledger.charges + 1 ELSE ledger.charges
<1>3. CASE type = "process-payment" /\ AnswerTo(v) = "captured"
    <2>1. ledger' = [ledger EXCEPT !.charges = more, !.amount = v.order.total]
        BY <1>3 DEF SideEffect, ChargeAmount, AnswerTo
    <2>2. more \in 1..MaxCharges
        BY MaxChargesIsPositive DEF LedgerOK
    <2> HIDE DEF more
    <2> QED BY <1>3, <2>1, <2>2 DEF LedgerOK
<1>4. CASE type = "process-payment" /\ AnswerTo(v) = "declined"
    <2>1. ledger' = [ledger EXCEPT !.declined = TRUE]
        BY <1>4 DEF SideEffect, ChargeAmount, AnswerTo
    <2> QED BY <1>4, <2>1 DEF LedgerOK
<1>5. CASE type = "process-payment" /\ AnswerTo(v) = "unavailable"
    BY <1>5 DEF SideEffect, LedgerOK, ChargeAmount, AnswerTo
<1> QED BY <1>1, <1>2, <1>3, <1>4, <1>5

-----------------------------------------------------------------------------
(* Executions                                                               *)

RunForm(r) == DOMAIN r = {"task", "given", "locked"} /\ r.locked \in BOOLEAN

\* Executions as they are recorded; of one task one holds the lock, one may be late.
RunsForm == /\ \A r \in runs : RunForm(r)
            /\ \A r, q \in runs : r.task = q.task /\ r.locked = q.locked => r = q

LEMMA LateForm ==
    ASSUME NEW r, RunForm(r)
    PROVE  LET late == [r EXCEPT !.locked = FALSE] IN
           RunForm(late) /\ late.task = r.task /\ late.given = r.given /\ late.locked = FALSE
BY DEF RunForm

\* An execution stays what it was when it was handed out, and gains no lock.
NoneNew(r) == \E q \in runs : r.task = q.task /\ r.given = q.given /\ (r.locked => q = r)

\* An execution whose lock expires, or that ends, leaves the others as they are.
LEMMA DropMoves ==
    ASSUME RunsForm, NEW r \in runs, Drop(r)
    PROVE  RunsForm' /\ \A q \in runs' : NoneNew(q)
BY DEF RunsForm, RunForm, Drop, NoneNew

LEMMA OverrunMoves ==
    ASSUME RunsForm, NEW r \in runs, Overrun(r)
    PROVE  RunsForm' /\ \A q \in runs' : NoneNew(q)
<1> DEFINE late == [r EXCEPT !.locked = FALSE]
<1>1. runs' = (runs \ {r}) \cup {late}
    BY DEF Overrun
<1>2. RunForm(late) /\ late.task = r.task /\ late.given = r.given /\ late.locked = FALSE
    BY LateForm DEF RunsForm
<1>3. \A q \in runs : q.task = r.task => q.locked
    BY DEF Overrun, Late
<1> HIDE DEF late
<1>4. \A q \in runs' : q = late \/ (q \in runs /\ q # r)
    BY <1>1
<1>5. RunsForm'
    BY <1>2, <1>3, <1>4 DEF RunsForm, RunForm
<1>6. \A q \in runs' : NoneNew(q)
    BY <1>2, <1>4 DEF NoneNew
<1> QED BY <1>5, <1>6

\* A settled job is locked by nobody any more.
LEMMA SettleMoves ==
    ASSUME RunsForm, NEW r \in runs, Settle(r)
    PROVE  /\ RunsForm' /\ \A q \in runs' : NoneNew(q)
           /\ \A q \in runs' : q.locked => q.task # r.task
<1> DEFINE late(q) == [q EXCEPT !.locked = FALSE]
<1>1. \A q \in runs : RunForm(late(q)) /\ late(q).task = q.task /\ late(q).given = q.given /\ late(q).locked = FALSE
    BY LateForm DEF RunsForm
<1>2. runs' = {IF q.task = r.task THEN late(q) ELSE q : q \in runs \ {r}}
    BY DEF Settle
<1> HIDE DEF late
<1>3. \A p \in runs' : \E q \in runs : q # r /\ p = IF q.task = r.task THEN late(q) ELSE q
    BY <1>2
<1>4. \A p \in runs' : NoneNew(p) /\ (p.locked => p.task # r.task)
    BY <1>1, <1>3 DEF NoneNew
<1>5. \A p \in runs' : RunForm(p)
    BY <1>1, <1>3 DEF RunsForm
<1>6. ASSUME NEW p1 \in runs', NEW p2 \in runs', p1.task = p2.task, p1.locked = p2.locked PROVE p1 = p2
    <2>1. PICK q1 \in runs : q1 # r /\ p1 = IF q1.task = r.task THEN late(q1) ELSE q1
        BY <1>3
    <2>2. PICK q2 \in runs : q2 # r /\ p2 = IF q2.task = r.task THEN late(q2) ELSE q2
        BY <1>3
    <2>3. q1.task = q2.task
        BY <1>1, <1>6, <2>1, <2>2
    <2>4. CASE q1.task # r.task
        BY <1>6, <2>1, <2>2, <2>3, <2>4 DEF RunsForm
    <2>5. CASE q1.task = r.task
        BY <2>1, <2>2, <2>3, <2>5 DEF RunsForm, RunForm
    <2> QED BY <2>4, <2>5
<1> QED BY <1>4, <1>5, <1>6 DEF RunsForm

\* The job of a task is handed out: one new execution, of the variables as they are.
LEMMA ActivateMoves ==
    ASSUME RunsForm, NEW t, Activate(t)
    PROVE  /\ RunsForm'
           /\ \A q \in runs' : q \in runs \/ (q.task = t /\ q.given = var /\ q.locked)
<1> DEFINE new == [task |-> t, given |-> var, locked |-> TRUE]
<1>1. runs' = runs \cup {new} /\ RunForm(new) /\ new.task = t /\ new.given = var /\ new.locked = TRUE
    BY DEF Activate, RunForm
<1>2. \A q \in runs : q.task = t => ~q.locked
    BY DEF Activate, Held
<1> HIDE DEF new
<1>3. \A q \in runs' : q \in runs \/ q = new
    BY <1>1
<1> QED BY <1>1, <1>2, <1>3 DEF RunsForm, RunForm
=============================================================================
