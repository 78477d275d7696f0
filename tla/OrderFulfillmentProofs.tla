----------------------- MODULE OrderFulfillmentProofs -----------------------
(***************************************************************************)
(* Proofs about OrderFulfillment, for every order it may be started with and  *)
(* any number of repeated executions.  The invariant says where the token is, *)
(* what each place says of the variables and of the gateway, and that an       *)
(* execution of the task the token is in was given the variables as they are. *)
(***************************************************************************)
EXTENDS OrderFulfillment, ServiceTasksProofs

Ends == {"Order Completed", "Order Rejected", "Order Cancelled"}
At(t)   == active = {t} /\ ended = {}
Over(e) == active = {} /\ ended = {e}

\* The token has passed validation and, if it had to, review.
Forward == active \cap {"validate", "review"} = {} /\ "Order Rejected" \notin ended

Validated == var.order.total = var.order.worth /\ Named(var.order)
Answer == Charge(var.order.customer, var.order.worth)

Shape == /\ Known(var) /\ RunsForm /\ LedgerOK
         /\ (\E t \in Tasks : At(t)) \/ (\E e \in Ends : Over(e))
         /\ stuck \subseteq (active \cap Service) \X {"retries", "unhandled error"}

RunFits(r) ==
    /\ r.task \in Service /\ DOMAIN r.given = VarNames
    /\ r.locked => Open(r.task)
    /\ r.task \in active => r.given = var
    /\ r.task = "payment" => /\ Forward /\ r.given.order.total = var.order.worth
                             /\ r.given.order.customer = var.order.customer
    /\ r.task = "ship"    => At("ship") \/ Over("Order Completed")
    /\ r.task = "notify"  => At("notify") \/ Over("Order Cancelled")

\* What the variables say at each place of the token.
Reviewed == /\ At("review") => Validated /\ var.totalAmount = var.order.worth
            /\ Forward => Validated
Approved == Forward => (var.order.worth >= 1000 => var.orderApproved = TRUE)
Worked == /\ At("validate") \/ At("review") \/ At("payment") => var.order.paid = FALSE /\ var.order.tracked = FALSE
          /\ At("ship") => var.order.paid = TRUE /\ var.order.tracked = FALSE
          /\ Over("Order Completed") => var.order.tracked = TRUE

\* What the gateway has done.
Captured == ledger.charges > 0 => Forward /\ ledger.amount = var.order.worth /\ Answer = "captured"
Charged == At("ship") \/ Over("Order Completed") => ledger.charges > 0
Declined == At("notify") \/ Over("Order Cancelled") => ledger.declined /\ Answer = "declined"

VarFits == Reviewed /\ Approved /\ Worked
LedgerFits == Captured /\ Charged /\ Declined

FInv == Shape /\ (\A r \in runs : RunFits(r)) /\ VarFits /\ LedgerFits

LEMMA InitFInv == Init => FInv
<1> SUFFICES ASSUME NEW v \in Starts, Begin(v, "validate") PROVE FInv
    BY DEF Init
<1>1. Known(var) /\ var.order.paid = FALSE /\ var.order.tracked = FALSE
    BY StartsAreNew, StartKnown DEF Begin
<1>2. At("validate") /\ ~Forward /\ runs = {} /\ stuck = {}
    BY DEF Begin, At, Forward
<1>3. LedgerOK /\ ledger.charges = 0
    BY MaxChargesIsPositive DEF Begin, LedgerOK
<1>4. Shape
    BY <1>1, <1>2, <1>3 DEF Shape, RunsForm, Tasks, Service, Type
<1>5. Reviewed /\ Approved
    BY <1>2 DEF Reviewed, Approved, At
<1>6. Worked
    BY <1>1, <1>2 DEF Worked, At, Over
<1>7. LedgerFits
    <2>1. Captured
        BY <1>3 DEF Captured
    <2>2. Charged /\ Declined
        BY <1>2 DEF Charged, Declined, At, Over
    <2> QED BY <2>1, <2>2 DEF LedgerFits
<1> QED BY <1>2, <1>4, <1>5, <1>6, <1>7 DEF FInv, VarFits

-----------------------------------------------------------------------------
(* What a step may do                                                       *)

\* An execution whose job is open is of the task the token is in.
LEMMA RunIsHere ==
    ASSUME FInv, NEW r \in runs, Open(r.task)
    PROVE  At(r.task) /\ r.given = var /\ stuck = {} /\ r.task \in Service
<1>1. r.task \in active /\ r.given = var /\ r.task \in Service
    BY DEF FInv, RunFits, Open
<1>2. At(r.task)
    BY <1>1 DEF FInv, Shape, At, Over
<1>3. stuck = {}
    BY <1>2 DEF FInv, Shape, At, Open, IsStuck
<1> QED BY <1>1, <1>2, <1>3

\* The gateway is asked for what the items add up to, after validation and review.
LEMMA GatewayAsked ==
    ASSUME FInv, NEW r \in runs, SideEffect(Type[r.task], r.given)
    PROVE  /\ LedgerOK'
           /\ r.task # "payment" => ledger' = ledger
           /\ r.task = "payment" =>
                /\ Forward
                /\ \/ /\ Answer = "captured" /\ ledger'.charges > 0
                      /\ ledger'.amount = var.order.worth /\ ledger'.declined = ledger.declined
                   \/ /\ Answer = "declined" /\ ledger'.declined = TRUE
                      /\ ledger'.charges = ledger.charges /\ ledger'.amount = ledger.amount
                   \/ Answer = "unavailable" /\ ledger' = ledger
<1>1. r.task \in Service /\ RunFits(r)
    BY DEF FInv, RunFits
<1>2. Type[r.task] = "process-payment" <=> r.task = "payment"
    BY <1>1 DEF Service, Type
<1>3. r.task = "payment" => /\ Forward
                            /\ AnswerTo(r.given) = Answer
                            /\ r.given.order.total = var.order.worth
    BY <1>1 DEF RunFits, Answer, AnswerTo
<1> QED BY <1>2, <1>3, LedgerMoves DEF FInv, Shape

LEMMA VarStays ==
    ASSUME VarFits, UNCHANGED <<var, active, ended>> PROVE VarFits'
<1>1. Reviewed'
    BY DEF VarFits, Reviewed, At, Forward, Validated
<1>2. Approved'
    BY DEF VarFits, Approved, Forward
<1>3. Worked'
    BY DEF VarFits, Worked, At, Over
<1> QED BY <1>1, <1>2, <1>3 DEF VarFits

\* The token stays where it is.
LEMMA StaysPut ==
    ASSUME FInv, UNCHANGED <<var, active, ended>>, RunsForm', LedgerOK',
           \A q \in runs' : NoneNew(q) /\ (q.locked => Open(q.task)'),
           stuck' \subseteq (active \cap Service) \X {"retries", "unhandled error"},
           \/ ledger' = ledger
           \/ /\ Forward
              /\ \/ /\ Answer = "captured" /\ ledger'.charges > 0
                    /\ ledger'.amount = var.order.worth /\ ledger'.declined = ledger.declined
                 \/ /\ Answer = "declined" /\ ledger'.declined = TRUE
                    /\ ledger'.charges = ledger.charges /\ ledger'.amount = ledger.amount
    PROVE  FInv'
<1>1. Shape'
    BY DEF FInv, Shape, Known, At, Over
<1>2. VarFits'
    BY VarStays DEF FInv
<1>3. LedgerFits'
    BY DEF FInv, LedgerFits, Captured, Charged, Declined, At, Over, Forward, Answer
<1>4. ASSUME NEW q \in runs' PROVE RunFits(q)'
    <2>1. PICK p \in runs : q.task = p.task /\ q.given = p.given
        BY DEF NoneNew
    <2>2. RunFits(p)
        BY DEF FInv
    <2> QED BY <2>1, <2>2 DEF RunFits, At, Over, Forward
<1> QED BY <1>1, <1>2, <1>3, <1>4 DEF FInv

-----------------------------------------------------------------------------
(* The token stays                                                          *)

LEMMA AttemptKeeps ==
    ASSUME FInv, NEW r \in runs, Attempt(r, Type[r.task], Caught(r.task)) PROVE FInv'
<1>1. RunsForm /\ LedgerOK /\ stuck \subseteq (active \cap Service) \X {"retries", "unhandled error"}
    BY DEF FInv, Shape
<1>2. \A q \in runs : q.locked => Open(q.task)
    BY DEF FInv, RunFits
<1>3. CASE Overrun(r)
    <2>1. RunsForm' /\ \A q \in runs' : NoneNew(q)
        BY <1>1, <1>3, OverrunMoves
    <2>2. UNCHANGED <<var, active, ended, stuck, ledger>>
        BY <1>3 DEF Overrun
    <2>3. LedgerOK' /\ \A q \in runs' : q.locked => Open(q.task)'
        BY <1>1, <1>2, <2>1, <2>2 DEF LedgerOK, NoneNew, Open, IsStuck
    <2> QED BY <1>1, <2>1, <2>2, <2>3, StaysPut
<1>4. CASE Retry(r) \/ Redo(r, Type[r.task])
    <2>1. RunsForm' /\ \A q \in runs' : NoneNew(q)
        BY <1>1, <1>4, DropMoves DEF Retry, Redo
    <2>2. UNCHANGED <<var, active, ended, stuck>>
        BY <1>4 DEF Retry, Redo
    <2>3. \A q \in runs' : q.locked => Open(q.task)'
        BY <1>2, <2>1, <2>2 DEF NoneNew, Open, IsStuck
    <2>4. CASE Retry(r)
        BY <1>1, <2>1, <2>2, <2>3, <2>4, StaysPut DEF Retry, LedgerOK
    <2>5. CASE Redo(r, Type[r.task])
        BY <1>1, <2>1, <2>2, <2>3, <2>5, StaysPut, GatewayAsked DEF Redo
    <2> QED BY <1>4, <2>4, <2>5
<1>5. CASE GiveUp(r) \/ Uncaught(r, Type[r.task], Caught(r.task))
    <2>1. Open(r.task) /\ Settle(r) /\ UNCHANGED <<var, active, ended>>
        BY <1>5 DEF GiveUp, Uncaught
    <2>2. At(r.task)
        BY <2>1, RunIsHere
    <2>3. RunsForm' /\ \A q \in runs' : NoneNew(q) /\ (q.locked => q.task # r.task)
        BY <1>1, <2>1, SettleMoves
    <2>4. \A q \in runs' : ~q.locked
        BY <1>2, <2>2, <2>3 DEF NoneNew, Open, At
    <2>5. stuck' \subseteq (active \cap Service) \X {"retries", "unhandled error"}
        <3>1. stuck' = stuck \cup {<<r.task, "retries">>} \/ stuck' = stuck \cup {<<r.task, "unhandled error">>}
            BY <1>5 DEF GiveUp, Uncaught
        <3>2. r.task \in active \cap Service
            BY <2>1, RunIsHere DEF At
        <3>3. <<r.task, "retries">> \in (active \cap Service) \X {"retries", "unhandled error"}
            BY <3>2
        <3>4. <<r.task, "unhandled error">> \in (active \cap Service) \X {"retries", "unhandled error"}
            BY <3>2
        <3> QED BY <1>1, <3>1, <3>3, <3>4
    <2>6. CASE GiveUp(r)
        BY <1>1, <2>1, <2>3, <2>4, <2>5, <2>6, StaysPut DEF GiveUp, LedgerOK
    <2>7. CASE Uncaught(r, Type[r.task], Caught(r.task))
        BY <2>1, <2>3, <2>4, <2>5, <2>7, StaysPut, GatewayAsked DEF Uncaught
    <2> QED BY <1>5, <2>6, <2>7
<1> QED BY <1>3, <1>4, <1>5 DEF Attempt

LEMMA ActivateKeeps ==
    ASSUME FInv, NEW t \in Service, Activate(t) PROVE FInv'
<1>1. UNCHANGED <<var, active, ended, stuck, ledger>> /\ Open(t)
    BY DEF Activate, Open
<1>2. At(t)
    BY <1>1 DEF FInv, Shape, At, Over, Open
<1>3. RunsForm' /\ \A q \in runs' : q \in runs \/ (q.task = t /\ q.given = var /\ q.locked)
    BY ActivateMoves DEF FInv, Shape
<1>4. Shape'
    BY <1>1, <1>3 DEF FInv, Shape, Known, LedgerOK, At, Over
<1>5. VarFits'
    BY <1>1, VarStays DEF FInv
<1>6. LedgerFits'
    BY <1>1 DEF FInv, LedgerFits, Captured, Charged, Declined, At, Over, Forward, Answer
<1>7. ASSUME NEW q \in runs' PROVE RunFits(q)'
    <2>1. CASE q \in runs
        BY <1>1, <2>1 DEF FInv, RunFits, Open, IsStuck, At, Over, Forward
    <2>2. CASE q.task = t /\ q.given = var /\ q.locked
        <3>1. t = "payment" => Forward /\ Validated
            BY <1>2 DEF FInv, VarFits, Reviewed, At, Forward
        <3>2. RunFits(q)
            BY <1>1, <1>2, <2>2, <3>1 DEF FInv, Shape, Known, RunFits, Validated
        <3> QED BY <1>1, <3>2 DEF RunFits, Open, IsStuck, At, Over, Forward
    <2> QED BY <1>3, <2>1, <2>2
<1> QED BY <1>4, <1>5, <1>6, <1>7 DEF FInv

-----------------------------------------------------------------------------
(* The token moves                                                          *)

\* Executions that are left behind hold no lock and are of tasks that are over.
LEMMA RunsMoveOn ==
    ASSUME FInv, NEW r \in runs, Open(r.task), Settle(r),
           var'.order.worth = var.order.worth, var'.order.customer = var.order.customer,
           \/ r.task = "validate" /\ active' \in {{"review"}, {"payment"}} /\ ended' = {}
           \/ r.task = "payment" /\ active' \in {{"ship"}, {"notify"}} /\ ended' = {}
           \/ r.task = "ship" /\ active' = {} /\ ended' = {"Order Completed"}
           \/ r.task = "notify" /\ active' = {} /\ ended' = {"Order Cancelled"}
    PROVE  RunsForm' /\ \A q \in runs' : RunFits(q)'
<1>1. At(r.task)
    BY RunIsHere
<1>2. RunsForm' /\ \A q \in runs' : NoneNew(q) /\ (q.locked => q.task # r.task)
    BY SettleMoves DEF FInv, Shape
<1>3. ASSUME NEW q \in runs' PROVE RunFits(q)'
    <2>1. PICK p \in runs : q.task = p.task /\ q.given = p.given /\ (q.locked => p = q)
        BY <1>2 DEF NoneNew
    <2>2. RunFits(p)
        BY DEF FInv
    <2>3. ~q.locked
        BY <1>1, <1>2, <2>1, <2>2 DEF RunFits, Open, At
    <2>4. /\ q.task = "payment" => Forward /\ Forward'
          /\ q.task = "ship"    => r.task = "ship"
          /\ q.task = "notify"  => r.task = "notify"
        BY <1>1, <2>1, <2>2 DEF RunFits, At, Over, Forward
    <2>5. q.task \in Service /\ q.task \notin active'
        BY <1>1, <2>1, <2>2, <2>4 DEF RunFits, Service, Type, At, Forward
    <2> QED BY <2>1, <2>2, <2>3, <2>4, <2>5 DEF RunFits, At, Over
<1> QED BY <1>2, <1>3

\* The ways of the token.
Travels ==
    \/ UNCHANGED <<var, active, ended>> /\ (ledger'.charges = ledger.charges \/ ledger'.charges > 0)
    \/ At("validate") /\ (At("review")' \/ At("payment")') /\ ledger' = ledger
    \/ At("review") /\ (At("payment")' \/ Over("Order Rejected")') /\ ledger' = ledger
    \/ At("payment") /\ At("ship")'
    \/ At("payment") /\ At("notify")' /\ var' = var
    \/ At("ship") /\ Over("Order Completed")'
    \/ At("notify") /\ Over("Order Cancelled")'

LEMMA ValidateKeeps ==
    ASSUME FInv, NEW r \in runs, r.task = "validate", ValidateDone(r) PROVE FInv' /\ Travels
<1>1. /\ Open(r.task) /\ Settle(r) /\ SideEffect(Type[r.task], r.given) /\ stuck' = stuck
      /\ ValidateOrder(r.given).end = "ok" /\ var' = Merge(var, ValidateOrder(r.given).set)
    BY DEF ValidateDone, Succeed, Type, Handle
<1>2. At("validate") /\ r.given = var /\ stuck = {} /\ Known(var)
    BY <1>1, RunIsHere DEF FInv, Shape
<1>3. /\ Known(var') /\ Beside(var', var) /\ SameOrder(var'.order, var.order)
      /\ Named(var'.order) /\ var'.order.total = var.order.worth
      /\ var'.totalAmount = var.order.worth
      /\ var'.order.paid = var.order.paid /\ var'.order.tracked = var.order.tracked
    BY <1>1, <1>2, ValidateMerged, NamedSame DEF SameOrder
<1>4. ledger' = ledger /\ LedgerOK'
    BY <1>1, GatewayAsked
<1>5. ended' = {} /\ active' = ReviewRoute(var')
    BY <1>2 DEF ValidateDone, Move, At
<1>6. \/ active' = {"review"}
      \/ active' = {"payment"} /\ ~(var.order.worth >= 1000)
    BY <1>3, <1>5 DEF ReviewRoute
<1>7. RunsForm' /\ \A q \in runs' : RunFits(q)'
    BY <1>1, <1>3, <1>5, <1>6, RunsMoveOn DEF SameOrder
<1>8. At("review")' \/ At("payment")'
    BY <1>5, <1>6 DEF At
<1>9. Shape'
    BY <1>1, <1>2, <1>3, <1>4, <1>7, <1>8 DEF Shape, Tasks, Service, Type
<1>10. Reviewed' /\ Approved'
    <2>1. Reviewed'
        BY <1>3 DEF Reviewed, Validated, SameOrder
    <2>2. Forward' => ~(var.order.worth >= 1000)
        BY <1>6 DEF Forward
    <2>3. Approved'
        BY <1>3, <2>2 DEF Approved, SameOrder
    <2> QED BY <2>1, <2>3
<1>11. Worked'
    <2>1. var.order.paid = FALSE /\ var.order.tracked = FALSE
        BY <1>2 DEF FInv, VarFits, Worked
    <2>2. var'.order.paid = FALSE /\ var'.order.tracked = FALSE
        BY <1>3, <2>1
    <2>3. ~At("ship")' /\ ~Over("Order Completed")'
        BY <1>5, <1>6 DEF At, Over
    <2> QED BY <2>2, <2>3 DEF Worked
<1>12. ~(ledger.charges > 0)
    BY <1>2 DEF FInv, LedgerFits, Captured, At, Forward
<1>13. LedgerFits'
    BY <1>4, <1>5, <1>6, <1>12 DEF LedgerFits, Captured, Charged, Declined, At, Over
<1> QED BY <1>2, <1>4, <1>7, <1>8, <1>9, <1>10, <1>11, <1>13 DEF FInv, VarFits, Travels

LEMMA ReviewKeeps ==
    ASSUME FInv, NEW approved \in BOOLEAN, ReviewDone(approved) PROVE FInv' /\ Travels
<1>1. At("review") /\ UNCHANGED <<runs, stuck, ledger>>
    BY DEF ReviewDone, Decision, FInv, Shape, At, Over
<1>2. /\ Known(var') /\ var'.order = var.order /\ var'.totalAmount = var.totalAmount
      /\ var'.orderApproved = approved
    BY DEF ReviewDone, Decision, FInv, Shape, Known, VarNames
<1>3. \/ approved /\ active' = {"payment"} /\ ended' = {}
      \/ active' = {} /\ ended' = {"Order Rejected"}
    BY <1>1 DEF ReviewDone, Move, At
<1>4. At("payment")' \/ Over("Order Rejected")'
    BY <1>3 DEF At, Over
<1>5. ~(ledger.charges > 0)
    BY <1>1 DEF FInv, LedgerFits, Captured, At, Forward
<1>6. stuck = {}
    BY <1>1 DEF FInv, Shape, At, Service, Type
<1>7. Shape'
    BY <1>1, <1>2, <1>4, <1>6 DEF FInv, Shape, RunsForm, LedgerOK, Ends, Tasks, Service, Type
<1>8. Reviewed' /\ Approved'
    BY <1>1, <1>2, <1>3 DEF FInv, VarFits, Reviewed, Approved, Validated, At, Forward
<1>9. Worked'
    BY <1>1, <1>2, <1>3 DEF FInv, VarFits, Worked, At, Over
<1>10. LedgerFits'
    BY <1>1, <1>3, <1>5 DEF LedgerFits, Captured, Charged, Declined, At, Over
<1>11. ASSUME NEW q \in runs' PROVE RunFits(q)'
    <2>1. q \in runs /\ RunFits(q)
        BY <1>1 DEF FInv
    <2>2. q.task = "validate"
        BY <1>1, <2>1 DEF RunFits, Service, Type, At, Over, Forward
    <2>3. ~q.locked
        BY <1>1, <2>1, <2>2 DEF RunFits, Open, At
    <2> QED BY <1>3, <2>1, <2>2, <2>3 DEF RunFits
<1> QED BY <1>1, <1>4, <1>7, <1>8, <1>9, <1>10, <1>11 DEF FInv, VarFits, Travels

LEMMA PaymentKeeps ==
    ASSUME FInv, NEW r \in runs, r.task = "payment", PaymentDone(r) PROVE FInv' /\ Travels
<1>1. /\ Open(r.task) /\ Settle(r) /\ SideEffect(Type[r.task], r.given) /\ stuck' = stuck
      /\ ProcessPayment(r.given).end = "ok" /\ var' = Merge(var, ProcessPayment(r.given).set)
    BY DEF PaymentDone, Succeed, Type, Handle
<1>2. At("payment") /\ r.given = var /\ stuck = {} /\ Known(var)
    BY <1>1, RunIsHere DEF FInv, Shape
<1>3. /\ Known(var') /\ Beside(var', var) /\ SameOrder(var'.order, var.order)
      /\ AnswerTo(var) = "captured"
      /\ var'.order.total = var.order.total /\ var'.totalAmount = var.totalAmount
      /\ var'.order.paid = TRUE /\ var'.order.tracked = var.order.tracked
    <2>1. Paid(var', var, var)
        BY <1>1, <1>2, PaymentMerged
    <2> QED BY <2>1 DEF Paid, OnlyOrder
<1>4. Forward /\ Validated /\ Approved /\ Answer = "captured"
    BY <1>2, <1>3 DEF FInv, VarFits, Reviewed, At, Forward, Validated, Answer, AnswerTo
<1>5. ended' = {} /\ active' = {"ship"}
    BY <1>2 DEF PaymentDone, Move, At
<1>6. /\ LedgerOK' /\ ledger'.charges > 0 /\ ledger'.amount = var.order.worth
    BY <1>1, <1>4, GatewayAsked
<1>7. RunsForm' /\ \A q \in runs' : RunFits(q)'
    BY <1>1, <1>3, <1>5, RunsMoveOn DEF SameOrder
<1>8. At("ship")'
    BY <1>5 DEF At
<1>9. Shape'
    BY <1>1, <1>2, <1>3, <1>6, <1>7, <1>8 DEF Shape, Tasks, Service, Type
<1>10. Forward' /\ Validated' /\ Answer' = Answer
    BY <1>3, <1>4, <1>5, NamedSame DEF Forward, Validated, SameOrder, Answer
<1>11. Reviewed' /\ Approved'
    BY <1>3, <1>4, <1>5, <1>10 DEF Reviewed, Approved, At, SameOrder, Beside
<1>12. Worked'
    <2>1. var'.order.paid = TRUE /\ var'.order.tracked = FALSE
        BY <1>2, <1>3 DEF FInv, VarFits, Worked
    <2>2. ~At("validate")' /\ ~At("review")' /\ ~At("payment")' /\ ~Over("Order Completed")'
        BY <1>5 DEF At, Over
    <2> QED BY <2>1, <2>2 DEF Worked
<1>13. LedgerFits'
    BY <1>3, <1>4, <1>5, <1>6, <1>10 DEF LedgerFits, Captured, Charged, Declined, At, Over, SameOrder
<1> QED BY <1>2, <1>7, <1>8, <1>9, <1>11, <1>12, <1>13 DEF FInv, VarFits, Travels

LEMMA DeclinedKeeps ==
    ASSUME FInv, NEW r \in runs, r.task = "payment", PaymentDeclined(r) PROVE FInv' /\ Travels
<1>1. /\ Open(r.task) /\ Settle(r) /\ SideEffect(Type[r.task], r.given)
      /\ ProcessPayment(r.given).end = "business" /\ UNCHANGED <<var, stuck>>
    BY DEF PaymentDeclined, Throw, Type, Handle
<1>2. At("payment") /\ r.given = var /\ stuck = {} /\ Known(var)
    BY <1>1, RunIsHere DEF FInv, Shape
<1>3. Forward /\ Validated
    BY <1>2 DEF FInv, VarFits, Reviewed, At, Forward
<1>4. Answer = "declined"
    <2>1. Charge(var.order.customer, var.order.total) = "declined"
        BY <1>1, <1>2 DEF ProcessPayment, ChargeAmount, Ok, Technical
    <2> QED BY <1>3, <2>1 DEF Answer, Validated
<1>5. ended' = {} /\ active' = {"notify"}
    BY <1>2 DEF PaymentDeclined, Move, At
<1>6. LedgerOK' /\ ledger'.charges = ledger.charges /\ ledger'.declined = TRUE
    BY <1>1, <1>4, GatewayAsked
<1>7. RunsForm' /\ \A q \in runs' : RunFits(q)'
    BY <1>1, <1>5, RunsMoveOn
<1>8. At("notify")'
    BY <1>5 DEF At
<1>9. Shape'
    BY <1>1, <1>2, <1>6, <1>7, <1>8 DEF Shape, Known, Tasks, Service, Type
<1>10. Forward' /\ Validated' /\ Answer' = Answer
    BY <1>1, <1>3, <1>5 DEF Forward, Validated, Answer
<1>11. Reviewed' /\ Approved'
    BY <1>1, <1>2, <1>5, <1>10 DEF FInv, VarFits, Reviewed, Approved, At, Forward
<1>12. Worked'
    BY <1>5 DEF Worked, At, Over
<1>13. ~(ledger.charges > 0)
    BY <1>4 DEF FInv, LedgerFits, Captured
<1>14. LedgerFits'
    BY <1>4, <1>5, <1>6, <1>10, <1>13 DEF LedgerFits, Captured, Charged, Declined, At, Over
<1> QED BY <1>1, <1>2, <1>7, <1>8, <1>9, <1>11, <1>12, <1>14 DEF FInv, VarFits, Travels

LEMMA ShipKeeps ==
    ASSUME FInv, NEW r \in runs, r.task = "ship", ShipDone(r) PROVE FInv' /\ Travels
<1>1. /\ Open(r.task) /\ Settle(r) /\ SideEffect(Type[r.task], r.given) /\ stuck' = stuck
      /\ var' = Merge(var, ShipOrder(r.given).set)
    BY DEF ShipDone, Succeed, Type, Handle
<1>2. At("ship") /\ r.given = var /\ stuck = {} /\ Known(var)
    BY <1>1, RunIsHere DEF FInv, Shape
<1>3. /\ Known(var') /\ Beside(var', var) /\ SameOrder(var'.order, var.order)
      /\ var'.order.total = var.order.total /\ var'.order.tracked = TRUE
    <2>1. Shipped(var', var, var)
        BY <1>1, <1>2, ShipMerged
    <2> QED BY <2>1 DEF Shipped, OnlyOrder
<1>4. Forward /\ Validated /\ Approved /\ ledger.charges > 0 /\ Captured
    BY <1>2 DEF FInv, VarFits, LedgerFits, Reviewed, Charged, At, Forward
<1>5. ended' = {"Order Completed"} /\ active' = {}
    BY <1>2 DEF ShipDone, Move, At
<1>6. LedgerOK' /\ ledger' = ledger
    BY <1>1, GatewayAsked
<1>7. RunsForm' /\ \A q \in runs' : RunFits(q)'
    BY <1>1, <1>3, <1>5, RunsMoveOn DEF SameOrder
<1>8. Over("Order Completed")'
    BY <1>5 DEF Over
<1>9. Shape'
    BY <1>1, <1>2, <1>3, <1>6, <1>7, <1>8 DEF Shape, Ends
<1>10. Forward' /\ Validated' /\ Answer' = Answer
    BY <1>3, <1>4, <1>5, NamedSame DEF Forward, Validated, SameOrder, Answer
<1>11. Reviewed' /\ Approved'
    BY <1>3, <1>4, <1>5, <1>10 DEF Reviewed, Approved, At, SameOrder, Beside
<1>12. Worked'
    BY <1>3, <1>5 DEF Worked, At, Over
<1>13. LedgerFits'
    BY <1>3, <1>4, <1>5, <1>6, <1>10 DEF LedgerFits, Captured, Charged, Declined, At, Over, SameOrder
<1> QED BY <1>2, <1>7, <1>8, <1>9, <1>11, <1>12, <1>13 DEF FInv, VarFits, Travels

LEMMA NotifyKeeps ==
    ASSUME FInv, NEW r \in runs, r.task = "notify", NotifyDone(r) PROVE FInv' /\ Travels
<1>1. /\ Open(r.task) /\ Settle(r) /\ SideEffect(Type[r.task], r.given) /\ stuck' = stuck
      /\ var' = Merge(var, NotifyCustomerFailure(r.given).set)
    BY DEF NotifyDone, Succeed, Type, Handle
<1>2. At("notify") /\ r.given = var /\ stuck = {} /\ Known(var)
    BY <1>1, RunIsHere DEF FInv, Shape
<1>3. /\ Known(var') /\ Beside(var', var) /\ SameOrder(var'.order, var.order)
      /\ var'.order.total = var.order.total
    <2>1. OnlyOrder(var', var, var)
        BY <1>1, <1>2, NotifyMerged
    <2> QED BY <2>1 DEF OnlyOrder
<1>4. Forward /\ Validated /\ Approved /\ ledger.declined /\ Answer = "declined" /\ Captured
    BY <1>2 DEF FInv, VarFits, LedgerFits, Reviewed, Declined, At, Forward
<1>5. ended' = {"Order Cancelled"} /\ active' = {}
    BY <1>2 DEF NotifyDone, Move, At
<1>6. LedgerOK' /\ ledger' = ledger
    BY <1>1, GatewayAsked
<1>7. RunsForm' /\ \A q \in runs' : RunFits(q)'
    BY <1>1, <1>3, <1>5, RunsMoveOn DEF SameOrder
<1>8. Over("Order Cancelled")'
    BY <1>5 DEF Over
<1>9. Shape'
    BY <1>1, <1>2, <1>3, <1>6, <1>7, <1>8 DEF Shape, Ends
<1>10. Forward' /\ Validated' /\ Answer' = Answer
    BY <1>3, <1>4, <1>5, NamedSame DEF Forward, Validated, SameOrder, Answer
<1>11. Reviewed' /\ Approved'
    BY <1>3, <1>4, <1>5, <1>10 DEF Reviewed, Approved, At, SameOrder, Beside
<1>12. Worked'
    BY <1>5 DEF Worked, At, Over
<1>13. LedgerFits'
    BY <1>3, <1>4, <1>5, <1>6, <1>10 DEF LedgerFits, Captured, Charged, Declined, At, Over, SameOrder
<1> QED BY <1>2, <1>7, <1>8, <1>9, <1>11, <1>12, <1>13 DEF FInv, VarFits, Travels

-----------------------------------------------------------------------------
(* Every step                                                               *)

LEMMA StepFInv == FInv /\ [Next]_taskVars => FInv' /\ Travels
<1> SUFFICES ASSUME FInv, [Next]_taskVars PROVE FInv' /\ Travels
    OBVIOUS
<1>1. ASSUME NEW approved \in BOOLEAN, ReviewDone(approved) PROVE FInv' /\ Travels
    BY <1>1, ReviewKeeps
<1>2. ASSUME NEW t \in Service, Activate(t) PROVE FInv' /\ Travels
    <2>1. UNCHANGED <<var, active, ended, ledger>>
        BY <1>2 DEF Activate
    <2> QED BY <1>2, <2>1, ActivateKeeps DEF Travels
<1>3. ASSUME NEW r \in runs, Done(r) PROVE FInv' /\ Travels
    <2>1. CASE r.task = "validate" /\ ValidateDone(r)
        BY <2>1, ValidateKeeps
    <2>2. CASE r.task = "payment" /\ PaymentDone(r)
        BY <2>2, PaymentKeeps
    <2>3. CASE r.task = "payment" /\ PaymentDeclined(r)
        BY <2>3, DeclinedKeeps
    <2>4. CASE r.task = "ship" /\ ShipDone(r)
        BY <2>4, ShipKeeps
    <2>5. CASE r.task = "notify" /\ NotifyDone(r)
        BY <2>5, NotifyKeeps
    <2> QED BY <1>3, <2>1, <2>2, <2>3, <2>4, <2>5 DEF Done
<1>4. ASSUME NEW r \in runs, Attempt(r, Type[r.task], Caught(r.task)) PROVE FInv' /\ Travels
    <2>1. FInv'
        BY <1>4, AttemptKeeps
    <2>2. UNCHANGED <<var, active, ended>>
        BY <1>4 DEF Attempt, Overrun, Retry, Redo, GiveUp, Uncaught
    <2>3. ledger' = ledger \/ SideEffect(Type[r.task], r.given)
        BY <1>4 DEF Attempt, Overrun, Retry, Redo, GiveUp, Uncaught
    <2>4. ledger'.charges = ledger.charges \/ ledger'.charges > 0
        BY <2>3, GatewayAsked
    <2> QED BY <2>1, <2>2, <2>4 DEF Travels
<1>5. CASE UNCHANGED taskVars
    <2>1. UNCHANGED <<var, active, ended, runs, stuck, ledger>>
        BY <1>5 DEF taskVars
    <2>2. FInv'
        BY <2>1, StaysPut DEF FInv, Shape, RunFits, RunsForm, LedgerOK, NoneNew, Open, IsStuck
    <2> QED BY <2>1, <2>2 DEF Travels
<1> QED BY <1>1, <1>2, <1>3, <1>4, <1>5 DEF Next

LEMMA Invariant == Spec => []FInv
BY InitFInv, StepFInv, PTL DEF Spec

-----------------------------------------------------------------------------
(* Theorems                                                                 *)

LEMMA Implied == FInv => TypeOK /\ LargeChargeApproved /\ ChargedAsOrdered
<1> SUFFICES ASSUME FInv PROVE TypeOK /\ LargeChargeApproved /\ ChargedAsOrdered
    OBVIOUS
<1>1. TypeOK
    <2>1. active \subseteq Tasks /\ \A t, u \in active : t = u
        BY DEF FInv, Shape, At, Over
    <2>2. RunsOK(Service)
        BY DEF FInv, Shape, Known, RunFits, RunsForm, RunsOK
    <2>3. stuck \subseteq active \X {"retries", "unhandled error"} /\ ledger.charges \in 0..MaxCharges
        BY DEF FInv, Shape, LedgerOK
    <2> QED BY <2>1, <2>2, <2>3 DEF TypeOK
<1>2. LargeChargeApproved
    BY DEF FInv, VarFits, Approved, LedgerFits, Captured, LargeChargeApproved
<1>3. ChargedAsOrdered
    <2>1. ledger.charges > 0 => ledger.amount = var.order.worth /\ Named(var.order)
        BY DEF FInv, VarFits, Reviewed, LedgerFits, Captured, Validated
    <2>2. ASSUME "Order Cancelled" \in ended PROVE ledger.declined
        <3>1. Over("Order Cancelled")
            BY <2>2 DEF FInv, Shape, At, Over
        <3> QED BY <3>1 DEF FInv, LedgerFits, Declined
    <2> QED BY <2>1, <2>2 DEF ChargedAsOrdered, Named
<1> QED BY <1>1, <1>2, <1>3

\* One token, handed out or stuck at most once, whatever the order.
THEOREM FulfillmentTypes == Spec => []TypeOK
BY Invariant, Implied, PTL

\* No customer is charged 1000 dollars or more without approval, whatever amount
\* the order declared, and however often and late payments are executed.
THEOREM LargeChargesApproved == Spec => []LargeChargeApproved
BY Invariant, Implied, PTL

\* What is charged is what the items add up to, and only a declined payment
\* cancels an order.
THEOREM ChargesAsOrdered == Spec => []ChargedAsOrdered
BY Invariant, Implied, PTL

-----------------------------------------------------------------------------
(* The life of the order                                                    *)

Paying == ledger.charges > 0

\* What OrderLifecycle sees at each place of the token.
Staged ==
    /\ At("validate") \/ At("review") => StageNow = "open" /\ ~Paying
    /\ At("payment") => StageNow = "cleared"
    /\ At("ship") => StageNow = "paid" /\ Paying
    /\ At("notify") => StageNow = "refused" /\ ~Paying
    /\ Over("Order Completed") => StageNow = "shipped" /\ Paying
    /\ Over("Order Rejected") \/ Over("Order Cancelled") => StageNow = "refused" /\ ~Paying

Placed == (\E t \in Tasks : At(t)) \/ (\E e \in Ends : Over(e))

LEMMA StageAt == FInv => Staged /\ Placed
<1> SUFFICES ASSUME FInv PROVE Staged /\ Placed
    OBVIOUS
<1>1. ASSUME At("validate") \/ At("review") PROVE StageNow = "open" /\ ~Paying
    BY <1>1 DEF FInv, VarFits, Worked, LedgerFits, Captured, Forward, At, StageNow, Paying
<1>2. ASSUME At("payment") PROVE StageNow = "cleared"
    BY <1>2 DEF FInv, VarFits, Worked, At, StageNow
<1>3. ASSUME At("ship") PROVE StageNow = "paid" /\ Paying
    BY <1>3 DEF FInv, VarFits, Worked, LedgerFits, Charged, At, StageNow, Paying
<1>4. ASSUME At("notify") PROVE StageNow = "refused" /\ ~Paying
    BY <1>4 DEF FInv, LedgerFits, Captured, Declined, At, StageNow, Paying
<1>5. ASSUME Over("Order Completed") PROVE StageNow = "shipped" /\ Paying
    BY <1>5 DEF FInv, VarFits, Worked, LedgerFits, Charged, Over, StageNow, Paying
<1>6. ASSUME Over("Order Rejected") \/ Over("Order Cancelled") PROVE StageNow = "refused" /\ ~Paying
    BY <1>6 DEF FInv, LedgerFits, Captured, Declined, Forward, Over, StageNow, Paying
<1>7. Placed
    BY DEF FInv, Shape, Placed
<1> QED BY <1>1, <1>2, <1>3, <1>4, <1>5, <1>6, <1>7 DEF Staged

LEMMA LifeInit == Init => Lifecycle!Init
<1> SUFFICES ASSUME Init PROVE Lifecycle!Init
    OBVIOUS
<1>1. Staged /\ At("validate")
    BY InitFInv, StageAt DEF Init, Begin, At
<1>2. StageNow = "open" /\ ~(ledger.charges > 0)
    BY <1>1 DEF Staged, Paying
<1>3. (ledger.charges > 0) = FALSE
    BY <1>2
<1> QED BY <1>2, <1>3 DEF Lifecycle!Init

LEMMA LifeStep == FInv /\ FInv' /\ Travels => [Lifecycle!Next]_(Lifecycle!lifeVars)
<1> SUFFICES ASSUME FInv, FInv', Travels PROVE [Lifecycle!Next]_(Lifecycle!lifeVars)
    OBVIOUS
<1> DEFINE same == (ledger'.charges > 0) = (ledger.charges > 0)
           now  == (ledger'.charges > 0) = TRUE
<1>1. Staged /\ Staged' /\ Placed
    BY StageAt, PTL
<1>2. CASE UNCHANGED <<var, active, ended>> /\ (ledger'.charges = ledger.charges \/ ledger'.charges > 0)
    <2>1. StageNow' = StageNow
        BY <1>2 DEF StageNow
    <2>2. CASE same
        BY <2>1, <2>2 DEF Lifecycle!lifeVars
    <2>3. CASE ledger'.charges > 0 /\ ~(ledger.charges > 0)
        <3>1. At("payment")
            <4>1. active' = active /\ ended' = ended
                BY <1>2
            <4>2. CASE At("validate") \/ At("review") \/ At("notify")
                BY <1>1, <2>3, <4>1, <4>2 DEF Staged, Paying, At
            <4>3. CASE At("ship")
                BY <1>1, <2>3, <4>3 DEF Staged, Paying
            <4>4. CASE Over("Order Completed")
                BY <1>1, <2>3, <4>4 DEF Staged, Paying
            <4>5. CASE Over("Order Rejected") \/ Over("Order Cancelled")
                BY <1>1, <2>3, <4>1, <4>5 DEF Staged, Paying, Over
            <4> QED BY <1>1, <4>2, <4>3, <4>4, <4>5 DEF Placed, Tasks, Service, Type, Ends
        <3>2. StageNow = "cleared" /\ now
            BY <1>1, <2>3, <3>1 DEF Staged
        <3> QED BY <2>1, <3>2 DEF Lifecycle!Next, Lifecycle!Charge
    <2> QED BY <1>2, <2>2, <2>3
<1>3. CASE At("validate") /\ (At("review")' \/ At("payment")') /\ ledger' = ledger
    <2>1. StageNow = "open" /\ StageNow' \in {"open", "cleared"} /\ same
        BY <1>1, <1>3 DEF Staged
    <2> QED BY <2>1 DEF Lifecycle!Next, Lifecycle!Clear, Lifecycle!lifeVars
<1>4. CASE At("review") /\ (At("payment")' \/ Over("Order Rejected")') /\ ledger' = ledger
    <2>1. StageNow = "open" /\ StageNow' \in {"cleared", "refused"} /\ same /\ ~(ledger.charges > 0)
        BY <1>1, <1>4 DEF Staged, Paying
    <2> QED BY <2>1 DEF Lifecycle!Next, Lifecycle!Clear, Lifecycle!Refuse
<1>5. CASE At("payment") /\ At("ship")'
    <2>1. StageNow = "cleared" /\ StageNow' = "paid" /\ ledger'.charges > 0
        BY <1>1, <1>5 DEF Staged, Paying
    <2>2. now
        BY <2>1
    <2> QED BY <2>1, <2>2 DEF Lifecycle!Next, Lifecycle!Pay
<1>6. CASE At("payment") /\ At("notify")' /\ var' = var
    <2>1. ~(ledger.charges > 0)
        <3>1. Answer' = Answer
            BY <1>6 DEF Answer
        <3>2. Answer' = "declined"
            BY <1>6 DEF FInv, LedgerFits, Declined
        <3> QED BY <3>1, <3>2 DEF FInv, LedgerFits, Captured
    <2>2. StageNow = "cleared" /\ StageNow' = "refused" /\ ~(ledger'.charges > 0)
        BY <1>1, <1>6 DEF Staged, Paying
    <2>3. same
        BY <2>1, <2>2
    <2> QED BY <2>1, <2>2, <2>3 DEF Lifecycle!Next, Lifecycle!Refuse
<1>7. CASE At("ship") /\ Over("Order Completed")'
    <2>1. StageNow = "paid" /\ StageNow' = "shipped" /\ ledger.charges > 0 /\ ledger'.charges > 0
        BY <1>1, <1>7 DEF Staged, Paying
    <2>2. same
        BY <2>1
    <2> QED BY <2>1, <2>2 DEF Lifecycle!Next, Lifecycle!Ship
<1>8. CASE At("notify") /\ Over("Order Cancelled")'
    <2>1. StageNow = "refused" /\ StageNow' = "refused" /\ ~(ledger.charges > 0) /\ ~(ledger'.charges > 0)
        BY <1>1, <1>8 DEF Staged, Paying
    <2>2. same
        BY <2>1
    <2> QED BY <2>1, <2>2 DEF Lifecycle!lifeVars
<1> QED BY <1>2, <1>3, <1>4, <1>5, <1>6, <1>7, <1>8 DEF Travels

\* An order is cleared, charged, paid and shipped in this order, or refused and
\* never charged: the process implements OrderLifecycle.
THEOREM ProcessImplementsLifecycle == Spec => ImplementsLifecycle
<1>1. FInv /\ [Next]_taskVars => [Lifecycle!Next]_(Lifecycle!lifeVars)
    BY StepFInv, LifeStep
<1> QED BY <1>1, Invariant, LifeInit, PTL DEF Spec, ImplementsLifecycle, Lifecycle!Spec
=============================================================================
