--------------------------- MODULE OrderRiskProofs ---------------------------
(***************************************************************************)
(* Proofs about OrderRiskProcess, for every order it may be started with and  *)
(* any number of repeated executions.  The invariant says where the tokens of  *)
(* the two branches can be, what each place says of the variables and of the   *)
(* gateway, and that an execution of a task that holds a token was given the   *)
(* order, the decision and the amount as they still are, although the other    *)
(* branch may have written the order since.                                  *)
(***************************************************************************)
EXTENDS OrderRiskProcess, ServiceTasksProofs, FiniteSetTheorems

Stopped   == "Order Rejected (Fraud)"
Rejected  == "Order Rejected by Manager"
NoStock   == "Order Cancelled (No Stock)"
Unpaid    == "Order Cancelled (Payment Failed)"
Completed == "Order Completed"

-----------------------------------------------------------------------------
(* Where the tokens are                                                     *)

Alone(t) == active = {t} /\ joined = {} /\ ended = {}
Over(e)  == active = {} /\ joined = {} /\ ended = {e}

Early == \/ Alone("decide") \/ Alone("review") \/ Alone("notifyFraud")
         \/ Over(Stopped) \/ Over(Rejected)

\* Between fork and join: the stock branch is at its task, at the join, or on its
\* way out, and the discount branch at its task or at the join.
StockAt(tokens, waiting, over) ==
    active \ {"discount"} = tokens /\ joined \ {"discount"} = waiting /\ ended = over

Forked == /\ "discount" \in active <=> "discount" \notin joined
          /\ \/ StockAt({"inventory"}, {}, {})
             \/ StockAt({}, {"inventory"}, {}) /\ "discount" \in active
             \/ StockAt({"notifyStock"}, {}, {})
             \/ StockAt({}, {}, {NoStock})

\* Both branches have joined.
Passed == \/ Alone("payment") \/ Alone("ship") \/ Alone("notifyPayment")
          \/ Over(Completed) \/ Over(Unpaid)

Shape == /\ Known(var) /\ RunsForm /\ LedgerOK
         /\ Early \/ Forked \/ Passed
         /\ stuck \subseteq (active \cap Service) \X {"retries", "unhandled error"}

-----------------------------------------------------------------------------
(* What the executions were given                                           *)

\* The token has been in task t.
Begun(t) == /\ t = "notifyFraud"   => Alone("notifyFraud") \/ Over(Stopped)
            /\ t \in Fork          => Forked \/ Passed
            /\ t = "notifyStock"   => "notifyStock" \in active \/ NoStock \in ended
            /\ t = "payment"       => Passed
            /\ t = "ship"          => Alone("ship") \/ Over(Completed)
            /\ t = "notifyPayment" => Alone("notifyPayment") \/ Over(Unpaid)

\* What the gateway is asked: by whom the order is, and how much.
SamePrice(v, w) == v.order.customer = w.order.customer /\ v.order.total = w.order.total
SameWork(v, w) == v.order.paid = w.order.paid /\ v.order.tracked = w.order.tracked

RunFits(r) == /\ r.task \in Service /\ Known(r.given) /\ Begun(r.task)
              /\ r.locked => Open(r.task)
              /\ r.task \in active => /\ SamePrice(r.given, var) /\ SameWork(r.given, var)
                                      /\ r.given.decision = var.decision
              /\ r.task = "payment" => SamePrice(r.given, var)

-----------------------------------------------------------------------------
(* What the variables and the gateway say                                   *)

\* A decision that the table can have answered to a tier and a fraud score.
FromTable(d, tier, fraud) ==
    /\ d.risk \in {"CRITICAL", "HIGH", "MEDIUM", "LOW"} /\ d.approval \in BOOLEAN
    /\ d.risk = "CRITICAL" <=> fraud >= 80
    /\ d.approval <=> d.risk = "HIGH"
    /\ d.percent > 5 => fraud < 40
    /\ d.risk = "LOW" <=> fraud < 40 /\ tier \in {"PLATINUM", "GOLD"}

Tabled == /\ var.fraudScore \in Int
          /\ Alone("decide") => var.decision = NoDecision /\ var.totalAmount \in Int
          /\ ~Alone("decide") => FromTable(var.decision, var.customerTier, var.fraudScore)

Allowed == /\ Alone("review") => var.fraudScore < 80
           /\ Forked \/ Passed => /\ var.fraudScore < 80
                                  /\ var.decision.approval => var.managerApproved = TRUE
Stocked == "inventory" \in joined \/ Passed => var.inventoryReserved = TRUE
Priced == "discount" \in joined \/ Alone("payment") =>
              var.totalAmount = Discounted(var.order.total, var.decision.percent)
Worked == /\ Early \/ Forked \/ Alone("payment") => var.order.paid = FALSE /\ var.order.tracked = FALSE
          /\ Alone("ship") => var.order.paid = TRUE /\ var.order.tracked = FALSE
          /\ Over(Completed) => var.order.tracked = TRUE

Reply == AnswerTo(var)

Captured == ledger.charges > 0 => Passed /\ Reply = "captured"
Charged  == Alone("ship") \/ Over(Completed) => ledger.charges > 0
Declined == Alone("notifyPayment") \/ Over(Unpaid) => Reply = "declined"

VarFits == Tabled /\ Allowed /\ Stocked /\ Priced /\ Worked
LedgerFits == Captured /\ Charged /\ Declined

RInv == Shape /\ (\A r \in runs : RunFits(r)) /\ VarFits /\ LedgerFits

-----------------------------------------------------------------------------
(* The decision table                                                       *)

\* The first rule that applies answers.
LEMMA FirstHit ==
    ASSUME NEW tier, NEW amount, NEW fraud, NEW k \in 1..6, Applies(k, tier, amount, fraud),
           \A q \in 1..6 : q < k => ~Applies(q, tier, amount, fraud)
    PROVE  Decide(tier, amount, fraud) = Answer(k)
<1> DEFINE hits == {r \in 1..6 : Applies(r, tier, amount, fraud)}
<1>1. k \in hits /\ \A q \in hits : q \in Int /\ k <= q
    OBVIOUS
<1>2. Decide(tier, amount, fraud) = Answer(CHOOSE r \in hits : \A q \in hits : r <= q)
    BY DEF Decide
<1> HIDE DEF hits
<1>3. \A r \in hits : (\A q \in hits : r <= q) => r = k
    BY <1>1
<1>4. (CHOOSE r \in hits : \A q \in hits : r <= q) = k
    BY <1>1, <1>3
<1> QED BY <1>2, <1>4

\* Whatever it is asked, the table answers as the classification says.
LEMMA TableAnswers ==
    ASSUME NEW tier, NEW amount \in Int, NEW fraud \in Int
    PROVE  /\ Classified(Decide(tier, amount, fraud), tier, amount, fraud)
           /\ Decide(tier, amount, fraud).approval \in BOOLEAN
<1> DEFINE A(k) == Applies(k, tier, amount, fraud)
<1>1. /\ A(1) <=> fraud >= 80
      /\ A(2) <=> amount >= 5000 /\ fraud >= 40
      /\ A(3) <=> tier = "PLATINUM" /\ fraud < 40
      /\ A(4) <=> tier = "GOLD" /\ fraud < 40
      /\ A(5) <=> tier = "SILVER" /\ fraud < 40
      /\ A(6)
    BY DEF Applies, HighValueRisk
<1> HIDE DEF A
<1>2. ASSUME NEW k \in 1..6, A(k), \A q \in 1..6 : q < k => ~A(q)
      PROVE  Decide(tier, amount, fraud) = Answer(k)
    BY <1>2, FirstHit DEF A
<1>3. CASE A(1)
    <2>1. Decide(tier, amount, fraud) = Output("CRITICAL", 0, FALSE)
        BY <1>2, <1>3 DEF Answer
    <2> QED BY <1>1, <1>3, <2>1 DEF Classified, TierPercent, Output
<1>4. CASE ~A(1) /\ A(2)
    <2>1. Decide(tier, amount, fraud) = Output("HIGH", 5, TRUE)
        BY <1>2, <1>4 DEF Answer
    <2> QED BY <1>1, <1>4, <2>1 DEF Classified, TierPercent, Output
<1>5. CASE ~A(1) /\ ~A(2) /\ A(3)
    <2>1. Decide(tier, amount, fraud) = Output("LOW", 20, FALSE)
        BY <1>2, <1>5 DEF Answer
    <2> QED BY <1>1, <1>5, <2>1 DEF Classified, TierPercent, Output
<1>6. CASE ~A(1) /\ ~A(2) /\ ~A(3) /\ A(4)
    <2>1. Decide(tier, amount, fraud) = Output("LOW", 15, FALSE)
        BY <1>2, <1>6 DEF Answer
    <2> QED BY <1>1, <1>6, <2>1 DEF Classified, TierPercent, Output
<1>7. CASE ~A(1) /\ ~A(2) /\ ~A(3) /\ ~A(4) /\ A(5)
    <2>1. Decide(tier, amount, fraud) = Output("MEDIUM", 10, FALSE)
        BY <1>2, <1>7 DEF Answer
    <2> QED BY <1>1, <1>7, <2>1 DEF Classified, TierPercent, Output
<1>8. CASE ~A(1) /\ ~A(2) /\ ~A(3) /\ ~A(4) /\ ~A(5)
    <2>1. Decide(tier, amount, fraud) = Output("MEDIUM", 0, FALSE)
        BY <1>1, <1>2, <1>8 DEF Answer
    <2> QED BY <1>1, <1>8, <2>1 DEF Classified, TierPercent, Output
<1> QED BY <1>3, <1>4, <1>5, <1>6, <1>7, <1>8

LEMMA ClassifiedFromTable ==
    ASSUME NEW d, NEW tier, NEW amount, NEW fraud \in Int, d.approval \in BOOLEAN,
           Classified(d, tier, amount, fraud)
    PROVE  FromTable(d, tier, fraud)
BY DEF Classified, FromTable, TierPercent

\* An order nobody has decided about has no decision of the table.
LEMMA DecidedIsSome ==
    ASSUME NEW d, NEW tier, NEW fraud, FromTable(d, tier, fraud) PROVE d # NoDecision
<1>1. NoDecision.risk \notin {"CRITICAL", "HIGH", "MEDIUM", "LOW"}
    BY DEF NoDecision
<1> QED BY <1>1 DEF FromTable

-----------------------------------------------------------------------------
(* Initially                                                                *)

LEMMA InitRInv == Init => RInv /\ Alone("decide")
<1> SUFFICES ASSUME NEW v \in Starts, Begin(v, "decide"), joined = {} PROVE RInv /\ Alone("decide")
    BY DEF Init
<1>1. /\ Known(var) /\ var.decision = NoDecision
      /\ var.order.paid = FALSE /\ var.order.tracked = FALSE
    BY StartsAreNew, StartKnown DEF Begin
<1>2. var.fraudScore \in Int /\ var.totalAmount \in Int
    BY StartsAreNew DEF Begin, StartType
<1>3. active = {"decide"} /\ ended = {} /\ runs = {} /\ stuck = {}
    BY DEF Begin
<1>4. LedgerOK /\ ledger.charges = 0
    BY MaxChargesIsPositive DEF Begin, LedgerOK
<1>5. Alone("decide")
    BY <1>3 DEF Alone
<1>6. ~Forked /\ ~Passed
    BY <1>3 DEF Forked, StockAt, Passed, Alone, Over
<1>7. Shape
    BY <1>1, <1>3, <1>4, <1>5 DEF Shape, RunsForm, Early
<1>8. Tabled
    BY <1>1, <1>2, <1>5 DEF Tabled
<1>9. Allowed /\ Stocked /\ Priced
    BY <1>3, <1>6 DEF Allowed, Stocked, Priced, Alone
<1>10. Worked
    BY <1>1, <1>3 DEF Worked, Alone, Over
<1>11. LedgerFits
    BY <1>3, <1>4 DEF LedgerFits, Captured, Charged, Declined, Alone, Over
<1> QED BY <1>3, <1>5, <1>7, <1>8, <1>9, <1>10, <1>11 DEF RInv, VarFits

-----------------------------------------------------------------------------
(* What a step may do                                                       *)

\* An execution whose job is open is of a task that holds a token, and was given
\* what matters of the variables as they are.
LEMMA RunIsHere ==
    ASSUME RInv, NEW r \in runs, Open(r.task)
    PROVE  /\ r.task \in active /\ r.task \in Service /\ ~IsStuck(r.task)
           /\ Known(r.given) /\ Known(var) /\ Begun(r.task)
           /\ SamePrice(r.given, var) /\ SameWork(r.given, var) /\ r.given.decision = var.decision
BY DEF RInv, Shape, RunFits, Open

\* The gateway is only asked after both branches have joined, and always for the
\* same amount.
LEMMA GatewayAsked ==
    ASSUME RInv, NEW r \in runs, SideEffect(Type[r.task], r.given)
    PROVE  /\ LedgerOK'
           /\ r.task # "payment" => ledger' = ledger
           /\ r.task = "payment" =>
                /\ Passed
                /\ \/ Reply = "captured" /\ ledger'.charges > 0
                   \/ Reply = "declined" /\ ledger'.charges = ledger.charges
                   \/ Reply = "unavailable" /\ ledger' = ledger
<1>1. r.task \in Service /\ RunFits(r)
    BY DEF RInv, RunFits
<1>2. Type[r.task] = "process-payment" <=> r.task = "payment"
    BY <1>1 DEF Service, Type
<1>3. r.task = "payment" => Passed /\ AnswerTo(r.given) = Reply
    BY <1>1 DEF RunFits, Begun, SamePrice, Reply, AnswerTo
<1> QED BY <1>2, <1>3, LedgerMoves DEF RInv, Shape

\* The places are read off the tokens.
LEMMA PlacesStay ==
    ASSUME UNCHANGED <<active, joined, ended>>
    PROVE  /\ Early' = Early /\ Forked' = Forked /\ Passed' = Passed
           /\ \A t : Alone(t)' = Alone(t) /\ Over(t)' = Over(t) /\ Begun(t)' = Begun(t)
BY DEF Early, Forked, StockAt, Passed, Alone, Over, Begun

LEMMA VarStays ==
    ASSUME VarFits, UNCHANGED <<var, active, joined, ended>> PROVE VarFits'
<1> USE PlacesStay DEF VarFits
<1>1. Tabled'
    BY DEF Tabled
<1>2. Allowed'
    BY DEF Allowed
<1>3. Stocked' /\ Priced'
    BY DEF Stocked, Priced
<1>4. Worked'
    BY DEF Worked
<1> QED BY <1>1, <1>2, <1>3, <1>4

\* The tokens stay where they are.
LEMMA StaysPut ==
    ASSUME RInv, UNCHANGED <<var, active, joined, ended>>, RunsForm', LedgerOK',
           \A q \in runs' : NoneNew(q) /\ (q.locked => Open(q.task)'),
           stuck' \subseteq (active \cap Service) \X {"retries", "unhandled error"},
           \/ ledger' = ledger
           \/ /\ Passed
              /\ \/ Reply = "captured" /\ ledger'.charges > 0
                 \/ Reply = "declined" /\ ledger'.charges = ledger.charges
    PROVE  RInv'
<1>1. Shape'
    BY PlacesStay DEF RInv, Shape, Known
<1>2. VarFits'
    BY VarStays DEF RInv
<1>3. LedgerFits'
    BY PlacesStay DEF RInv, LedgerFits, Captured, Charged, Declined, Reply
<1>4. ASSUME NEW q \in runs' PROVE RunFits(q)'
    <2>1. PICK p \in runs : q.task = p.task /\ q.given = p.given
        BY DEF NoneNew
    <2>2. RunFits(p)
        BY DEF RInv
    <2> QED BY <2>1, <2>2, PlacesStay DEF RunFits, SamePrice, SameWork
<1> QED BY <1>1, <1>2, <1>3, <1>4 DEF RInv

-----------------------------------------------------------------------------
(* The tokens stay                                                          *)

LEMMA AttemptKeeps ==
    ASSUME RInv, NEW r \in runs, Attempt(r, Type[r.task], Caught(r.task)), UNCHANGED joined
    PROVE  RInv'
<1>1. RunsForm /\ LedgerOK /\ stuck \subseteq (active \cap Service) \X {"retries", "unhandled error"}
    BY DEF RInv, Shape
<1>2. \A q \in runs : q.locked => Open(q.task)
    BY DEF RInv, RunFits
<1>3. CASE Overrun(r)
    <2>1. RunsForm' /\ \A q \in runs' : NoneNew(q)
        BY <1>1, <1>3, OverrunMoves
    <2>2. UNCHANGED <<var, active, ended, stuck, ledger>>
        BY <1>3 DEF Overrun
    <2>3. LedgerOK' /\ \A q \in runs' : q.locked => Open(q.task)'
        BY <1>1, <1>2, <2>1, <2>2 DEF LedgerOK, NoneNew, Open, IsStuck
    <2> QED BY <1>1, <2>1, <2>2, <2>3, StaysPut
<1>4. CASE Retry(r) \/ Redo(r, Type[r.task])
    <2>1. RunsForm' /\ \A q \in runs' : NoneNew(q)
        BY <1>1, <1>4, DropMoves DEF Retry, Redo
    <2>2. UNCHANGED <<var, active, ended, stuck>>
        BY <1>4 DEF Retry, Redo
    <2>3. \A q \in runs' : q.locked => Open(q.task)'
        BY <1>2, <2>1, <2>2 DEF NoneNew, Open, IsStuck
    <2>4. CASE Retry(r)
        BY <1>1, <2>1, <2>2, <2>3, <2>4, StaysPut DEF Retry, LedgerOK
    <2>5. CASE Redo(r, Type[r.task])
        BY <1>1, <2>1, <2>2, <2>3, <2>5, StaysPut, GatewayAsked DEF Redo
    <2> QED BY <1>4, <2>4, <2>5
<1>5. CASE GiveUp(r) \/ Uncaught(r, Type[r.task], Caught(r.task))
    <2>1. Open(r.task) /\ Settle(r) /\ UNCHANGED <<var, active, ended>>
        BY <1>5 DEF GiveUp, Uncaught
    <2>2. RunsForm' /\ \A q \in runs' : NoneNew(q) /\ (q.locked => q.task # r.task)
        BY <1>1, <2>1, SettleMoves
    <2>3. stuck' = stuck \cup {<<r.task, "retries">>} \/ stuck' = stuck \cup {<<r.task, "unhandled error">>}
        BY <1>5 DEF GiveUp, Uncaught
    <2>4. ASSUME NEW t, t # r.task, Open(t) PROVE Open(t)'
        <3>1. <<r.task, "retries">>[1] = r.task /\ <<r.task, "unhandled error">>[1] = r.task
            OBVIOUS
        <3>2. \A s \in stuck' : s \in stuck \/ s = <<r.task, "retries">> \/ s = <<r.task, "unhandled error">>
            BY <2>3
        <3>3. \A s \in stuck' : s \in stuck \/ s[1] = r.task
            BY <3>1, <3>2, Zenon
        <3> QED BY <2>1, <2>4, <3>3 DEF Open, IsStuck
    <2>5. \A q \in runs' : q.locked => Open(q.task)'
        BY <1>2, <2>2, <2>4 DEF NoneNew
    <2>6. stuck' \subseteq (active \cap Service) \X {"retries", "unhandled error"}
        <3>1. r.task \in active \cap Service
            BY <2>1, RunIsHere
        <3>2. <<r.task, "retries">> \in (active \cap Service) \X {"retries", "unhandled error"}
            BY <3>1
        <3>3. <<r.task, "unhandled error">> \in (active \cap Service) \X {"retries", "unhandled error"}
            BY <3>1
        <3> QED BY <1>1, <2>3, <3>2, <3>3
    <2>7. CASE GiveUp(r)
        BY <1>1, <2>1, <2>2, <2>5, <2>6, <2>7, StaysPut DEF GiveUp, LedgerOK
    <2>8. CASE Uncaught(r, Type[r.task], Caught(r.task))
        BY <2>1, <2>2, <2>5, <2>6, <2>8, StaysPut, GatewayAsked DEF Uncaught
    <2> QED BY <1>5, <2>7, <2>8
<1> QED BY <1>3, <1>4, <1>5 DEF Attempt

\* A service task that holds a token is where the token has been.
LEMMA ActiveBegun == ASSUME Early \/ Forked \/ Passed, NEW t \in active PROVE Begun(t)
<1>1. CASE Early
    BY <1>1 DEF Early, Alone, Over, Begun, Fork
<1>2. CASE Forked
    BY <1>2 DEF Forked, StockAt, Begun, Fork
<1>3. CASE Passed
    BY <1>3 DEF Passed, Alone, Over, Begun, Fork
<1> QED BY <1>1, <1>2, <1>3

\* Only the branches are active beside each other.
LEMMA WhereActive ==
    ASSUME Early \/ Forked \/ Passed, NEW t \in active
    PROVE  IF t \in {"discount", "inventory", "notifyStock"} THEN Forked ELSE Alone(t)
<1>1. CASE Early
    BY <1>1 DEF Early, Alone, Over
<1>2. CASE Forked
    BY <1>2 DEF Forked, StockAt
<1>3. CASE Passed
    BY <1>3 DEF Passed, Alone, Over
<1> QED BY <1>1, <1>2, <1>3

LEMMA ActivateKeeps ==
    ASSUME RInv, NEW t \in Service, Activate(t), UNCHANGED joined PROVE RInv'
<1>1. UNCHANGED <<var, active, ended, stuck, ledger>> /\ Open(t)
    BY DEF Activate, Open
<1>2. RunsForm' /\ \A q \in runs' : q \in runs \/ (q.task = t /\ q.given = var /\ q.locked)
    BY ActivateMoves DEF RInv, Shape
<1>3. Shape'
    BY <1>1, <1>2, PlacesStay DEF RInv, Shape, Known, LedgerOK
<1>4. VarFits'
    BY <1>1, VarStays DEF RInv
<1>5. LedgerFits'
    BY <1>1, PlacesStay DEF RInv, LedgerFits, Captured, Charged, Declined, Reply
<1>6. ASSUME NEW q \in runs' PROVE RunFits(q)'
    <2>1. CASE q \in runs
        BY <1>1, <2>1, PlacesStay DEF RInv, RunFits, Open, IsStuck, SamePrice, SameWork
    <2>2. CASE q.task = t /\ q.given = var /\ q.locked
        <3>1. Begun(t)
            BY <1>1, ActiveBegun DEF RInv, Shape, Open
        <3>2. RunFits(q)
            BY <1>1, <2>2, <3>1 DEF RInv, Shape, RunFits, SamePrice, SameWork
        <3> QED BY <1>1, <3>2, PlacesStay DEF RunFits, Open, IsStuck, SamePrice, SameWork
    <2> QED BY <1>2, <2>1, <2>2
<1> QED BY <1>3, <1>4, <1>5, <1>6 DEF RInv

-----------------------------------------------------------------------------
(* The tokens move                                                          *)

\* The stock branch is on its way out.
Cancelling == "notifyStock" \in active \/ NoStock \in ended

\* The ways of the tokens.
Travels ==
    \/ UNCHANGED <<var, active, joined, ended>> /\ (ledger'.charges = ledger.charges \/ ledger'.charges > 0)
    \/ /\ ledger' = ledger
       /\ \/ Alone("decide") /\ (Alone("review")' \/ Alone("notifyFraud")' \/ (Forked' /\ ~Cancelling'))
          \/ Alone("review") /\ ((Forked' /\ ~Cancelling') \/ Over(Rejected)')
          \/ Alone("notifyFraud") /\ Over(Stopped)'
          \/ Forked /\ Forked' /\ (Cancelling => Cancelling')
          \/ Forked /\ ~Cancelling /\ Alone("payment")'
    \/ Alone("payment") /\ Alone("ship")'
    \/ Alone("payment") /\ Alone("notifyPayment")' /\ var' = var
    \/ Alone("ship") /\ Over(Completed)'
    \/ Alone("notifyPayment") /\ Over(Unpaid)'

LEMMA Apart == ~(Early /\ Passed) /\ ~(Early /\ Forked) /\ ~(Forked /\ Passed)
<1>1. Early => ~Passed
    BY DEF Early, Passed, Alone, Over, Stopped, Rejected, Completed, Unpaid
<1>2. Early => ~Forked
    BY DEF Early, Forked, StockAt, Alone, Over, Stopped, Rejected, NoStock
<1>3. Passed => ~Forked
    BY DEF Passed, Forked, StockAt, Alone, Over, NoStock, Completed, Unpaid
<1> QED BY <1>1, <1>2, <1>3

\* Before the branches have joined nobody has been charged.
LEMMA Uncharged ==
    ASSUME RInv, ~Passed, ledger' = ledger, Early' \/ Forked' \/ Alone("payment")'
    PROVE  /\ LedgerOK' /\ LedgerFits' /\ ~(ledger.charges > 0)
<1>1. ~(ledger.charges > 0)
    BY DEF RInv, LedgerFits, Captured
<1>2. ~(Alone("ship") \/ Over(Completed) \/ Alone("notifyPayment") \/ Over(Unpaid))'
    <2>1. CASE Alone("payment")'
        BY <2>1 DEF Alone, Over
    <2>2. CASE (Early \/ Forked)'
        <3>1. ~Passed'
            BY <2>2, Apart, PTL
        <3> QED BY <3>1 DEF Passed
    <2> QED BY <2>1, <2>2
<1>3. Captured' /\ Charged' /\ Declined'
    BY <1>1, <1>2 DEF Captured, Charged, Declined
<1> QED BY <1>1, <1>3 DEF RInv, Shape, LedgerOK, LedgerFits

\* No job exists before the decision.
LEMMA NoJobsYet ==
    ASSUME RInv, Alone("decide") \/ Alone("review") PROVE runs = {} /\ stuck = {}
<1>1. ~Forked /\ ~Passed
    BY Apart DEF Early
<1>2. \A t \in Service : ~Begun(t)
    BY <1>1 DEF Begun, Service, Type, Fork, Alone, Over
<1>3. active \cap Service = {}
    BY DEF Alone, Service, Type
<1> QED BY <1>2, <1>3 DEF RInv, RunFits, Shape

LEMMA DecideKeeps == ASSUME RInv, Decide1 PROVE RInv' /\ Travels
<1> DEFINE d == Decide(var.customerTier, var.totalAmount, var.fraudScore)
<1>1. /\ Alone("decide") /\ Known(var) /\ var.fraudScore \in Int
      /\ FromTable(d, var.customerTier, var.fraudScore)
    <2>1. Alone("decide") /\ Known(var)
        BY WhereActive DEF Decide1, RInv, Shape
    <2>2. var.fraudScore \in Int /\ var.totalAmount \in Int
        BY <2>1 DEF RInv, VarFits, Tabled
    <2> QED BY <2>1, <2>2, TableAnswers, ClassifiedFromTable
<1>2. runs = {} /\ stuck = {} /\ ~Passed
    BY <1>1, NoJobsYet, Apart DEF Early
<1>3. var' = [var EXCEPT !.decision = d] /\ UNCHANGED <<runs, stuck, ledger, joined>>
    BY DEF Decide1
<1>4. active' = RiskRoute(d) /\ ended' = {} /\ joined' = {}
    BY <1>1 DEF Decide1, Move, Alone
<1> HIDE DEF d
<1>5. /\ Known(var') /\ var'.order = var.order /\ var'.decision = d
      /\ var'.customerTier = var.customerTier /\ var'.fraudScore = var.fraudScore
    BY <1>1, <1>3 DEF Known, VarNames
<1>6. \/ Alone("review")' /\ var.fraudScore < 80
      \/ Alone("notifyFraud")'
      \/ active' = Fork /\ var.fraudScore < 80 /\ ~d.approval
    <2>1. CASE d.risk = "HIGH" \/ d.approval
        BY <1>1, <1>4, <2>1 DEF RiskRoute, FromTable, Alone
    <2>2. CASE ~(d.risk = "HIGH" \/ d.approval) /\ d.risk = "CRITICAL"
        BY <1>4, <2>2 DEF RiskRoute, Alone
    <2>3. CASE ~(d.risk = "HIGH" \/ d.approval) /\ d.risk # "CRITICAL"
        BY <1>1, <1>4, <2>3 DEF RiskRoute, FromTable
    <2> QED BY <2>1, <2>2, <2>3
<1>7. active' = Fork => Forked' /\ ~Cancelling'
    BY <1>4 DEF Fork, Forked, StockAt, Cancelling
<1>8. (Early \/ Forked)' /\ ~Passed'
    <2>1. (Early \/ Forked)'
        BY <1>6, <1>7 DEF Early
    <2> QED BY <2>1, Apart, PTL
<1>9. LedgerOK' /\ LedgerFits'
    BY <1>2, <1>3, <1>8, Uncharged
<1>10. Shape' /\ \A q \in runs' : RunFits(q)'
    BY <1>2, <1>3, <1>5, <1>8, <1>9 DEF Shape, RunsForm
<1>11. Tabled'
    <2>1. ~Alone("decide")'
        BY <1>6 DEF Alone, Fork
    <2> QED BY <1>1, <1>5, <2>1 DEF Tabled
<1>12. Allowed'
    <2>1. Forked' => active' = Fork
        BY <1>6 DEF Forked, StockAt, Alone
    <2>2. Alone("review")' \/ active' = Fork => var.fraudScore < 80
        BY <1>6 DEF Alone, Fork
    <2>3. active' = Fork => ~d.approval
        BY <1>6 DEF Alone, Fork
    <2> QED BY <1>5, <1>8, <2>1, <2>2, <2>3 DEF Allowed
<1>13. Stocked' /\ Priced'
    BY <1>4, <1>6, <1>8 DEF Stocked, Priced, Alone, Fork
<1>14. Worked'
    <2>1. var.order.paid = FALSE /\ var.order.tracked = FALSE
        BY <1>1 DEF RInv, VarFits, Worked, Early
    <2> QED BY <1>5, <1>8, <2>1 DEF Worked, Passed
<1>15. Travels
    BY <1>1, <1>3, <1>6, <1>7 DEF Travels
<1> QED BY <1>9, <1>10, <1>11, <1>12, <1>13, <1>14, <1>15 DEF RInv, VarFits

LEMMA ReviewKeeps ==
    ASSUME RInv, NEW approved \in BOOLEAN, ManagerDecides(approved) PROVE RInv' /\ Travels
<1>1. Alone("review") /\ Known(var)
    BY WhereActive DEF ManagerDecides, Decision, RInv, Shape
<1>2. runs = {} /\ stuck = {} /\ ~Passed
    BY <1>1, NoJobsYet, Apart DEF Early
<1>3. UNCHANGED <<runs, stuck, ledger, joined>>
    BY DEF ManagerDecides, Decision
<1>4. /\ Known(var') /\ var'.order = var.order /\ var'.decision = var.decision
      /\ var'.customerTier = var.customerTier /\ var'.fraudScore = var.fraudScore
      /\ var'.managerApproved = approved
    BY <1>1 DEF ManagerDecides, Decision, Known, VarNames
<1>5. \/ approved /\ active' = Fork /\ ended' = {} /\ joined' = {}
      \/ active' = {} /\ ended' = {Rejected} /\ joined' = {}
    BY <1>1 DEF ManagerDecides, Move, Alone, Rejected
<1>6. (approved /\ Forked' /\ ~Cancelling') \/ Over(Rejected)'
    <2>1. CASE active' = Fork
        BY <1>5, <2>1 DEF Fork, Forked, StockAt, Cancelling
    <2>2. CASE active' # Fork
        BY <1>5, <2>2 DEF Over
    <2> QED BY <2>1, <2>2
<1>7. (Early \/ Forked)' /\ ~Passed'
    <2>1. (Early \/ Forked)'
        BY <1>6 DEF Early
    <2> QED BY <2>1, Apart, PTL
<1>8. LedgerOK' /\ LedgerFits'
    BY <1>2, <1>3, <1>7, Uncharged
<1>9. Shape' /\ \A q \in runs' : RunFits(q)'
    BY <1>2, <1>3, <1>4, <1>7, <1>8 DEF Shape, RunsForm
<1>10. ~Alone("decide")' /\ ~Alone("review")' /\ ~Alone("payment")' /\ ~Alone("decide")
    BY <1>1, <1>5 DEF Alone, Fork
<1>11. Tabled'
    BY <1>4, <1>10 DEF RInv, VarFits, Tabled
<1>12. Allowed'
    <2>1. Forked' => approved
        <3>1. ~(Over(Rejected)' /\ Forked')
            BY DEF Over, Forked, StockAt, Rejected, NoStock
        <3> QED BY <1>6, <3>1
    <2> QED BY <1>1, <1>4, <1>7, <1>10, <2>1 DEF RInv, VarFits, Allowed
<1>13. Stocked' /\ Priced'
    BY <1>5, <1>7, <1>10 DEF Stocked, Priced
<1>14. Worked'
    <2>1. var.order.paid = FALSE /\ var.order.tracked = FALSE
        BY <1>1 DEF RInv, VarFits, Worked, Early
    <2> QED BY <1>4, <1>7, <2>1 DEF Worked, Passed
<1>15. Travels
    BY <1>1, <1>3, <1>6 DEF Travels
<1> QED BY <1>8, <1>9, <1>11, <1>12, <1>13, <1>14, <1>15 DEF RInv, VarFits

\* The job of execution r is done: the executions left behind hold no lock, and
\* those of the other branch still have what matters of the variables.
LEMMA JobsMoveOn ==
    ASSUME RInv, NEW r \in runs, Open(r.task), Settle(r), stuck' = stuck,
           r.task \notin active', active \ {r.task} \subseteq active',
           \A t \in active' : t \in active \/ ~Begun(t),
           \A t : Begun(t) => Begun(t)',
           SamePrice(var', var), var'.decision = var.decision,
           SameWork(var', var) \/ active \cap active' = {}
    PROVE  /\ RunsForm' /\ \A q \in runs' : RunFits(q)'
           /\ stuck' \subseteq (active' \cap Service) \X {"retries", "unhandled error"}
<1>1. RunsForm' /\ \A q \in runs' : NoneNew(q) /\ (q.locked => q.task # r.task)
    BY SettleMoves DEF RInv, Shape
<1>2. ASSUME NEW q \in runs' PROVE RunFits(q)'
    <2>1. PICK p \in runs : q.task = p.task /\ q.given = p.given /\ (q.locked => p = q)
        BY <1>1 DEF NoneNew
    <2>2. RunFits(p)
        BY DEF RInv
    <2>3. q.task \in Service /\ Known(q.given)' /\ Begun(q.task)'
        BY <2>1, <2>2 DEF RunFits, Known
    <2>4. q.locked => Open(q.task)'
        <3>1. q.locked => Open(q.task) /\ q.task # r.task
            BY <1>1, <2>1, <2>2 DEF RunFits
        <3> QED BY <3>1 DEF Open, IsStuck
    <2>5. q.task \in active' => q.task \in active \cap active'
        BY <2>1, <2>2 DEF RunFits
    <2>6. /\ q.task \in active' => /\ SamePrice(q.given, var)' /\ SameWork(q.given, var)'
                                   /\ q.given.decision = var'.decision
          /\ q.task = "payment" => SamePrice(q.given, var)'
        BY <2>1, <2>2, <2>5 DEF RunFits, SamePrice, SameWork
    <2> QED BY <2>3, <2>4, <2>6 DEF RunFits
<1>3. ASSUME NEW s \in stuck PROVE s[1] \in active' /\ s \in (active \cap Service) \X {"retries", "unhandled error"}
    <2>1. s \in (active \cap Service) \X {"retries", "unhandled error"} /\ s[1] # r.task
        BY RunIsHere DEF RInv, Shape, IsStuck
    <2> QED BY <2>1
<1>4. stuck' \subseteq (active' \cap Service) \X {"retries", "unhandled error"}
    BY <1>3
<1> QED BY <1>1, <1>2, <1>4

\* What an execution of a branch may change of the variables.
Branched(u, w) == /\ Known(u) /\ Beside(u, w) /\ SamePrice(u, w) /\ SameWork(u, w)

LEMMA BranchedVar ==
    ASSUME VarFits, Branched(var', var),
           \/ Forked /\ (Forked' \/ Alone("payment")')
           \/ Alone("notifyFraud") /\ Over(Stopped)'
    PROVE  Tabled' /\ Allowed' /\ Worked'
<1>0. /\ ~Alone("decide") /\ ~Alone("decide")' /\ ~Alone("review")'
      /\ ~Alone("ship")' /\ ~Over(Completed)'
      /\ (Forked \/ Early) /\ (Forked' \/ Passed' => Forked)
    <2>1. CASE Forked /\ Forked'
        BY <2>1 DEF Forked, StockAt, Alone, Over, NoStock, Completed
    <2>2. CASE Forked /\ Alone("payment")'
        BY <2>2 DEF Forked, StockAt, Alone, Over
    <2>3. CASE Alone("notifyFraud") /\ Over(Stopped)'
        <3>1. Early /\ Early'
            BY <2>3 DEF Early
        <3>2. ~Forked' /\ ~Passed'
            BY <3>1, Apart, PTL
        <3> QED BY <2>3, <3>1, <3>2 DEF Alone, Over, Stopped, Completed
    <2> QED BY <2>1, <2>2, <2>3
<1>1. /\ var'.fraudScore = var.fraudScore /\ var'.decision = var.decision
      /\ var'.customerTier = var.customerTier /\ var'.managerApproved = var.managerApproved
      /\ var'.order.paid = var.order.paid /\ var'.order.tracked = var.order.tracked
    BY DEF Branched, Beside, SameWork
<1>2. Tabled'
    BY <1>0, <1>1 DEF VarFits, Tabled
<1>3. Allowed'
    BY <1>0, <1>1 DEF VarFits, Allowed
<1>4. var.order.paid = FALSE /\ var.order.tracked = FALSE
    BY <1>0 DEF VarFits, Worked
<1>5. Worked'
    BY <1>0, <1>1, <1>4 DEF Worked
<1> QED BY <1>2, <1>3, <1>5

\* A branch waits at the join, or both leave it together.
LEMMA JoinMoves ==
    ASSUME Forked, NEW b \in Fork, b \in active, Join(b)
    PROVE  /\ b = "inventory" => ~Cancelling
           /\ \/ Alone("payment")' /\ ~Cancelling /\ joined \cup {b} = Fork
              \/ /\ Forked' /\ (Cancelling => Cancelling') /\ ~Alone("payment")'
                 /\ active' = active \ {b} /\ joined' = joined \cup {b}
<1>1. b = "inventory" => ~Cancelling
    BY DEF Forked, StockAt, Cancelling
<1>2. CASE joined \cup {b} = Fork
    <2>1. active' = (active \ {b}) \cup {"payment"} /\ joined' = {} /\ ended' = ended
        BY <1>2 DEF Join, Move
    <2>2. active = {b} /\ ended = {}
        <3>1. CASE b = "discount"
            <4>1. "inventory" \in joined /\ "discount" \in active
                BY <1>2, <3>1 DEF Fork
            <4>2. StockAt({}, {"inventory"}, {})
                BY <4>1 DEF Forked, StockAt
            <4> QED BY <3>1, <4>1, <4>2 DEF StockAt
        <3>2. CASE b = "inventory"
            <4>1. "discount" \in joined /\ "inventory" \in active
                BY <1>2, <3>2 DEF Fork
            <4>2. StockAt({"inventory"}, {}, {}) /\ "discount" \notin active
                BY <4>1 DEF Forked, StockAt
            <4> QED BY <3>2, <4>1, <4>2 DEF StockAt
        <3> QED BY <3>1, <3>2 DEF Fork
    <2> QED BY <1>2, <2>1, <2>2 DEF Alone, Cancelling, Fork
<1>3. CASE joined \cup {b} # Fork
    <2>1. active' = active \ {b} /\ joined' = joined \cup {b} /\ ended' = ended
        BY <1>3 DEF Join, Move
    <2>2. Forked' /\ (Cancelling => Cancelling')
        <3>1. CASE b = "discount"
            <4>1. "inventory" \notin joined
                BY <1>3, <3>1 DEF Fork, Forked, StockAt
            <4>2. ~StockAt({}, {"inventory"}, {})
                BY <4>1 DEF StockAt
            <4>3. \A x, y, z : StockAt(x, y, z) => StockAt(x, y, z)'
                BY <2>1, <3>1 DEF StockAt
            <4> QED BY <2>1, <3>1, <4>2, <4>3 DEF Forked, Cancelling
        <3>2. CASE b = "inventory"
            <4>1. "discount" \notin joined
                BY <1>3, <3>2 DEF Fork, Forked, StockAt
            <4>2. StockAt({"inventory"}, {}, {}) /\ "discount" \in active
                BY <3>2, <4>1 DEF Forked, StockAt
            <4>3. StockAt({}, {"inventory"}, {})'
                BY <2>1, <3>2, <4>2 DEF StockAt
            <4> QED BY <1>1, <2>1, <3>2, <4>2, <4>3 DEF Forked
        <3> QED BY <3>1, <3>2 DEF Fork
    <2>3. "payment" \notin active'
        BY <2>1 DEF Forked, StockAt
    <2> QED BY <1>1, <2>1, <2>2, <2>3 DEF Alone
<1> QED BY <1>1, <1>2, <1>3

LEMMA BegunStays ==
    ASSUME Forked,
           \/ Forked' /\ (Cancelling => Cancelling')
           \/ Alone("payment")' /\ ~Cancelling
    PROVE  \A t : Begun(t) => Begun(t)'
<1>1. ~Passed /\ ~Early
    BY Apart
<1>2. Forked' \/ Passed'
    BY DEF Passed
<1> QED BY <1>1, <1>2 DEF Begun, Early, Passed, Cancelling

\* The step a branch takes with the result of its execution.
LEMMA BranchKeeps ==
    ASSUME RInv, NEW r \in runs, r.task \in Fork, Open(r.task), Settle(r), stuck' = stuck,
           ledger' = ledger, Branched(var', var), Join(r.task), Stocked', Priced'
    PROVE  RInv' /\ Travels
<1>1. r.task \in active /\ Forked
    BY RunIsHere, WhereActive DEF RInv, Shape, Fork
<1>2. /\ r.task = "inventory" => ~Cancelling
      /\ \/ Alone("payment")' /\ ~Cancelling
         \/ Forked' /\ (Cancelling => Cancelling') /\ active' = active \ {r.task}
    BY <1>1, JoinMoves
<1>3. ~Passed /\ (Forked' \/ Passed')
    BY <1>1, <1>2, Apart DEF Passed
<1>4. LedgerOK' /\ LedgerFits'
    BY <1>2, <1>3, Uncharged
<1>5. Tabled' /\ Allowed' /\ Worked'
    BY <1>1, <1>2, BranchedVar DEF RInv
<1>6. \A t : Begun(t) => Begun(t)'
    BY <1>1, <1>2, BegunStays
<1>7. active \ {r.task} \subseteq active' /\ r.task \notin active'
    <2>1. CASE Join(r.task) /\ joined \cup {r.task} = Fork
        BY <1>1, <2>1 DEF Join, Move, Fork
    <2>2. CASE Join(r.task) /\ joined \cup {r.task} # Fork
        BY <1>1, <2>2 DEF Join, Move
    <2> QED BY <2>1, <2>2
<1>8. \A t \in active' : t \in active \/ ~Begun(t)
    BY <1>2, <1>3 DEF Alone, Begun
<1>9. /\ RunsForm' /\ \A q \in runs' : RunFits(q)'
      /\ stuck' \subseteq (active' \cap Service) \X {"retries", "unhandled error"}
    BY <1>6, <1>7, <1>8, JobsMoveOn DEF Branched, Beside
<1>10. Shape'
    BY <1>3, <1>4, <1>9 DEF Shape, Branched, Known
<1>11. Travels
    BY <1>1, <1>2 DEF Travels
<1> QED BY <1>4, <1>5, <1>9, <1>10, <1>11 DEF RInv, VarFits

\* The discount is computed from the decision and the total that still hold.
LEMMA DiscountKeeps ==
    ASSUME RInv, NEW r \in runs, r.task = "discount", ApplyDiscountDone(r) PROVE RInv' /\ Travels
<1>1. /\ Open(r.task) /\ Settle(r) /\ SideEffect(Type[r.task], r.given) /\ stuck' = stuck
      /\ var' = Merge(var, ApplyDiscount(r.given).set) /\ Join(r.task)
    BY DEF ApplyDiscountDone, Succeed, Type, Handle
<1>2. /\ "discount" \in active /\ Known(r.given) /\ Known(var) /\ r.given.decision = var.decision
      /\ SamePrice(r.given, var) /\ SameWork(r.given, var) /\ Forked
    BY <1>1, RunIsHere, WhereActive DEF RInv, Shape
<1>3. ledger' = ledger
    BY <1>1, GatewayAsked
<1>4. Discount(var', r.given, var)
    BY <1>1, <1>2, DiscountMerged
<1>5. DiscountPercent(r.given) = var.decision.percent
    <2>1. ~Alone("decide")
        BY <1>2 DEF Alone
    <2>2. var.decision # NoDecision
        BY <2>1, DecidedIsSome DEF RInv, VarFits, Tabled
    <2> QED BY <1>2, <2>2 DEF DiscountPercent
<1>6. /\ Branched(var', var) /\ var'.inventoryReserved = var.inventoryReserved
      /\ var'.totalAmount = Discounted(var'.order.total, var'.decision.percent)
    BY <1>2, <1>4, <1>5 DEF Discount, Branched, Beside, SamePrice, SameWork, SameOrder
<1>7. "inventory" \in joined' \/ Passed' => "inventory" \in joined
    <2>1. \/ Alone("payment")' /\ joined \cup {"discount"} = Fork
          \/ Forked' /\ joined' = joined \cup {"discount"}
        BY <1>1, <1>2, JoinMoves DEF Fork
    <2>2. Alone("payment")' => joined' = {}
        BY DEF Alone
    <2>3. Forked' => ~Passed'
        BY Apart, PTL
    <2> QED BY <2>1, <2>2, <2>3 DEF Fork
<1>8. Stocked' /\ Priced'
    BY <1>6, <1>7 DEF RInv, VarFits, Stocked, Priced
<1> QED BY <1>1, <1>3, <1>6, <1>8, BranchKeeps DEF Fork

\* The stock is reserved, and the amount the other branch computed stays.
LEMMA InventoryKeeps ==
    ASSUME RInv, NEW r \in runs, r.task = "inventory", ReserveInventoryDone(r) PROVE RInv' /\ Travels
<1>1. /\ Open(r.task) /\ Settle(r) /\ SideEffect(Type[r.task], r.given) /\ stuck' = stuck
      /\ ReserveInventory(r.given).end = "ok"
      /\ var' = Merge(var, ReserveInventory(r.given).set) /\ Join(r.task)
    BY DEF ReserveInventoryDone, Succeed, Type, Handle
<1>2. /\ "inventory" \in active /\ Known(r.given) /\ Known(var)
      /\ SamePrice(r.given, var) /\ SameWork(r.given, var) /\ Forked
    BY <1>1, RunIsHere, WhereActive DEF RInv, Shape
<1>3. ledger' = ledger
    BY <1>1, GatewayAsked
<1>4. Reserve(var', r.given, var)
    BY <1>1, <1>2, InventoryMerged
<1>5. /\ Branched(var', var) /\ var'.inventoryReserved = TRUE
      /\ var'.totalAmount = var.totalAmount
    BY <1>2, <1>4 DEF Reserve, Branched, Beside, SamePrice, SameWork, SameOrder
<1>6. "discount" \in joined' \/ Alone("payment")' => "discount" \in joined
    BY <1>1, <1>2, JoinMoves DEF Fork
<1>7. Stocked'
    BY <1>5 DEF Stocked
<1>8. Priced'
    BY <1>5, <1>6 DEF RInv, VarFits, Priced, Branched, Beside, SamePrice
<1> QED BY <1>1, <1>3, <1>5, <1>7, <1>8, BranchKeeps DEF Fork

\* The stock branch leaves for its end event, whatever the other branch does.
LEMMA CancelKeeps ==
    ASSUME RInv, NEW r \in runs, Open(r.task), Settle(r), stuck' = stuck, ledger' = ledger,
           Branched(var', var), var'.totalAmount = var.totalAmount,
           var'.inventoryReserved = var.inventoryReserved,
           Forked, Forked', Cancelling', joined' = joined,
           r.task \notin active', active \ {r.task} \subseteq active',
           \A t \in active' : t \in active \/ (t = "notifyStock" /\ ~Cancelling)
    PROVE  RInv' /\ Travels
<1>1. ~Passed /\ ~Passed'
    BY Apart, PTL
<1>2. LedgerOK' /\ LedgerFits'
    BY <1>1, Uncharged
<1>3. Tabled' /\ Allowed' /\ Worked'
    BY BranchedVar DEF RInv
<1>4. \A t : Begun(t) => Begun(t)'
    BY BegunStays
<1>5. \A t \in active' : t \in active \/ ~Begun(t)
    BY DEF Begun, Cancelling
<1>6. /\ RunsForm' /\ \A q \in runs' : RunFits(q)'
      /\ stuck' \subseteq (active' \cap Service) \X {"retries", "unhandled error"}
    BY <1>4, <1>5, JobsMoveOn DEF Branched, Beside
<1>7. Shape'
    BY <1>2, <1>6 DEF Shape, Branched, Known
<1>8. ~Alone("payment")'
    BY <1>1 DEF Passed
<1>9. Stocked' /\ Priced'
    BY <1>1, <1>8 DEF RInv, VarFits, Stocked, Priced, Branched, Beside, SamePrice
<1> QED BY <1>2, <1>3, <1>6, <1>7, <1>9 DEF RInv, VarFits, Travels

\* A task before an end event.
LEMMA LastMoves ==
    ASSUME NEW r, NEW end, Last(r, end)
    PROVE  /\ Open(r.task) /\ Settle(r) /\ SideEffect(Type[r.task], r.given) /\ stuck' = stuck
           /\ var' = Merge(var, Handle(Type[r.task], r.given).set) /\ joined' = joined
           /\ active' = active \ {r.task} /\ ended' = ended \cup {end}
<1>1. Succeed(r, Type[r.task]) /\ Move(r.task, {}, {end}) /\ joined' = joined
    BY DEF Last
<1>2. active' = active \ {r.task} /\ ended' = ended \cup {end}
    BY <1>1 DEF Move
<1> QED BY <1>1, <1>2 DEF Succeed

LEMMA OutOfStockKeeps ==
    ASSUME RInv, NEW r \in runs, r.task = "inventory", OutOfStock(r) PROVE RInv' /\ Travels
<1>1. /\ Open(r.task) /\ Settle(r) /\ SideEffect(Type[r.task], r.given)
      /\ UNCHANGED <<var, stuck, joined>>
      /\ active' = (active \ {"inventory"}) \cup {"notifyStock"} /\ ended' = ended
    BY DEF OutOfStock, Throw, Type, Move
<1>2. "inventory" \in active /\ Known(var) /\ Forked
    BY <1>1, RunIsHere, WhereActive DEF RInv, Shape
<1>3. ledger' = ledger
    BY <1>1, GatewayAsked
<1>4. StockAt({"inventory"}, {}, {}) /\ ~Cancelling
    BY <1>2 DEF Forked, StockAt, Cancelling
<1>5. StockAt({"notifyStock"}, {}, {})'
    BY <1>1, <1>4 DEF StockAt
<1>6. Forked' /\ Cancelling'
    BY <1>1, <1>2, <1>5 DEF Forked, Cancelling
<1>7. Branched(var', var)
    BY <1>1, <1>2 DEF Branched, Beside, SamePrice, SameWork
<1> QED BY <1>1, <1>2, <1>3, <1>4, <1>6, <1>7, CancelKeeps

LEMMA NotifyStockKeeps ==
    ASSUME RInv, NEW r \in runs, r.task = "notifyStock", NotifyStockDone(r) PROVE RInv' /\ Travels
<1>1. /\ Open(r.task) /\ Settle(r) /\ SideEffect(Type[r.task], r.given) /\ stuck' = stuck
      /\ var' = Merge(var, NotifyCustomerFailure(r.given).set) /\ joined' = joined
      /\ active' = active \ {"notifyStock"} /\ ended' = ended \cup {NoStock}
    <2>1. Last(r, NoStock)
        BY DEF NotifyStockDone, NoStock
    <2>2. Handle(Type[r.task], r.given) = NotifyCustomerFailure(r.given)
        BY DEF Type, Handle
    <2> QED BY <2>1, <2>2, LastMoves
<1>2. /\ "notifyStock" \in active /\ Known(r.given) /\ Known(var) /\ Forked
      /\ SamePrice(r.given, var) /\ SameWork(r.given, var)
    BY <1>1, RunIsHere, WhereActive DEF RInv, Shape
<1>3. ledger' = ledger
    BY <1>1, GatewayAsked
<1>4. /\ OnlyOrder(var', r.given, var)
      /\ var'.order.paid = r.given.order.paid /\ var'.order.tracked = r.given.order.tracked
    BY <1>1, <1>2, NotifyMerged
<1>5. /\ Branched(var', var) /\ var'.totalAmount = var.totalAmount
      /\ var'.inventoryReserved = var.inventoryReserved
    BY <1>2, <1>4 DEF OnlyOrder, Branched, SamePrice, SameWork, SameOrder
<1>6. StockAt({"notifyStock"}, {}, {})
    BY <1>2 DEF Forked, StockAt
<1>7. StockAt({}, {}, {NoStock})'
    BY <1>1, <1>6 DEF StockAt
<1>8. Forked' /\ Cancelling'
    BY <1>1, <1>2, <1>7 DEF Forked, Cancelling
<1> QED BY <1>1, <1>2, <1>3, <1>5, <1>8, CancelKeeps

LEMMA NotifyFraudKeeps ==
    ASSUME RInv, NEW r \in runs, r.task = "notifyFraud", NotifyFraudDone(r) PROVE RInv' /\ Travels
<1>1. /\ Open(r.task) /\ Settle(r) /\ SideEffect(Type[r.task], r.given) /\ stuck' = stuck
      /\ var' = Merge(var, NotifyCustomerFailure(r.given).set) /\ joined' = joined
      /\ active' = active \ {"notifyFraud"} /\ ended' = ended \cup {Stopped}
    <2>1. Last(r, Stopped)
        BY DEF NotifyFraudDone, Stopped
    <2>2. Handle(Type[r.task], r.given) = NotifyCustomerFailure(r.given)
        BY DEF Type, Handle
    <2> QED BY <2>1, <2>2, LastMoves
<1>2. /\ Alone("notifyFraud") /\ Known(r.given) /\ Known(var)
      /\ SamePrice(r.given, var) /\ SameWork(r.given, var)
    BY <1>1, RunIsHere, WhereActive DEF RInv, Shape
<1>3. ledger' = ledger
    BY <1>1, GatewayAsked
<1>4. /\ OnlyOrder(var', r.given, var)
      /\ var'.order.paid = r.given.order.paid /\ var'.order.tracked = r.given.order.tracked
    BY <1>1, <1>2, NotifyMerged
<1>5. Branched(var', var)
    BY <1>2, <1>4 DEF OnlyOrder, Branched, SamePrice, SameWork, SameOrder
<1>6. Over(Stopped)' /\ Early /\ Early'
    BY <1>1, <1>2 DEF Alone, Over, Early
<1>7. ~Passed /\ ~Forked /\ ~Passed' /\ ~Forked'
    BY <1>6, Apart, PTL
<1>8. LedgerOK' /\ LedgerFits'
    BY <1>3, <1>6, <1>7, Uncharged
<1>9. Tabled' /\ Allowed' /\ Worked'
    BY <1>2, <1>5, <1>6, BranchedVar DEF RInv
<1>10. \A t : Begun(t) => Begun(t)'
    BY <1>2, <1>6, <1>7 DEF Begun, Alone, Over
<1>11. /\ RunsForm' /\ \A q \in runs' : RunFits(q)'
       /\ stuck' \subseteq (active' \cap Service) \X {"retries", "unhandled error"}
    BY <1>1, <1>2, <1>5, <1>10, JobsMoveOn DEF Branched, Beside
<1>12. Shape'
    BY <1>5, <1>6, <1>8, <1>11 DEF Shape, Branched, Known
<1>13. Stocked' /\ Priced'
    BY <1>6, <1>7 DEF Stocked, Priced, Over, Alone
<1>14. Travels
    BY <1>2, <1>3, <1>6 DEF Travels
<1> QED BY <1>8, <1>9, <1>11, <1>12, <1>13, <1>14 DEF RInv, VarFits

\* After the join only the order is worked on: what the step leaves to show is the
\* progress of the work and what the gateway did.
LEMMA AloneKeeps ==
    ASSUME RInv, NEW r \in runs, Open(r.task), Settle(r), stuck' = stuck, LedgerOK',
           Passed, active = {r.task}, r.task \notin active', joined' = {},
           Known(var'), Beside(var', var), SamePrice(var', var),
           var'.inventoryReserved = var.inventoryReserved,
           Passed', ~Alone("payment")',
           \A t \in active' : ~Begun(t), \A t : Begun(t) => Begun(t)'
    PROVE  /\ Shape' /\ (\A q \in runs' : RunFits(q)') /\ Reply' = Reply
           /\ Tabled' /\ Allowed' /\ Stocked' /\ Priced'
<1>1. /\ Known(var') /\ SamePrice(var', var) /\ var'.inventoryReserved = var.inventoryReserved
      /\ var'.fraudScore = var.fraudScore /\ var'.decision = var.decision
      /\ var'.customerTier = var.customerTier /\ var'.managerApproved = var.managerApproved
    BY DEF Beside
<1>2. ~Alone("decide") /\ ~Alone("decide")' /\ ~Alone("review")'
    <2>1. ~Early /\ ~Early'
        BY Apart, PTL
    <2> QED BY <2>1 DEF Early
<1>3. /\ RunsForm' /\ \A q \in runs' : RunFits(q)'
      /\ stuck' \subseteq (active' \cap Service) \X {"retries", "unhandled error"}
    BY <1>1, JobsMoveOn
<1>4. Shape'
    BY <1>1, <1>3 DEF Shape, Known
<1>5. Reply' = Reply
    BY <1>1 DEF Reply, AnswerTo, SamePrice
<1>6. Tabled' /\ Allowed'
    BY <1>1, <1>2 DEF RInv, VarFits, Tabled, Allowed
<1>7. Stocked' /\ Priced'
    BY <1>1 DEF RInv, VarFits, Stocked, Priced
<1> QED BY <1>3, <1>4, <1>5, <1>6, <1>7

LEMMA PaymentKeeps ==
    ASSUME RInv, NEW r \in runs, r.task = "payment", PaymentDone(r) PROVE RInv' /\ Travels
<1>1. /\ Open(r.task) /\ Settle(r) /\ SideEffect(Type[r.task], r.given) /\ stuck' = stuck
      /\ ProcessPayment(r.given).end = "ok" /\ var' = Merge(var, ProcessPayment(r.given).set)
      /\ joined' = joined
    BY DEF PaymentDone, Succeed, Type, Handle
<1>2. /\ Alone("payment") /\ Passed /\ Known(r.given) /\ Known(var)
      /\ SamePrice(r.given, var) /\ SameWork(r.given, var)
    BY <1>1, RunIsHere, WhereActive DEF RInv, Shape, Passed
<1>3. /\ OnlyOrder(var', r.given, var) /\ AnswerTo(r.given) = "captured"
      /\ var'.order.paid = TRUE /\ var'.order.tracked = r.given.order.tracked
    <2>1. Paid(var', r.given, var)
        BY <1>1, <1>2, PaymentMerged
    <2> QED BY <2>1 DEF Paid
<1>4. /\ Known(var') /\ Beside(var', var) /\ SamePrice(var', var)
      /\ var'.inventoryReserved = var.inventoryReserved /\ Reply = "captured"
    BY <1>2, <1>3 DEF OnlyOrder, SamePrice, SameOrder, Reply, AnswerTo
<1>5. active' = {"ship"} /\ ended' = {} /\ joined' = {}
    BY <1>1, <1>2 DEF PaymentDone, Move, Alone
<1>6. Alone("ship")' /\ Passed'
    BY <1>5 DEF Alone, Passed
<1>7. LedgerOK' /\ ledger'.charges > 0
    BY <1>1, <1>4, GatewayAsked
<1>8. \A t : Begun(t) => Begun(t)'
    BY <1>2, <1>6 DEF Begun, Alone, Over, NoStock
<1>9. \A t \in active' : ~Begun(t)
    BY <1>2, <1>5 DEF Begun, Alone, Over
<1>10. ~Alone("payment")' /\ active = {r.task} /\ r.task \notin active'
    BY <1>2, <1>5 DEF Alone
<1>11. /\ Shape' /\ (\A q \in runs' : RunFits(q)') /\ Reply' = Reply
       /\ Tabled' /\ Allowed' /\ Stocked' /\ Priced'
    BY <1>1, <1>2, <1>4, <1>5, <1>6, <1>7, <1>8, <1>9, <1>10, AloneKeeps
<1>12. Worked'
    <2>1. var'.order.paid = TRUE /\ var'.order.tracked = FALSE
        BY <1>2, <1>3 DEF RInv, VarFits, Worked, SameWork
    <2>2. ~Early' /\ ~Forked'
        BY <1>6, Apart, PTL
    <2>3. ~Over(Completed)'
        BY <1>5 DEF Over
    <2> QED BY <1>10, <2>1, <2>2, <2>3 DEF Worked
<1>13. LedgerFits'
    BY <1>4, <1>5, <1>6, <1>7, <1>11 DEF LedgerFits, Captured, Charged, Declined, Alone, Over
<1>14. Travels
    BY <1>2, <1>6 DEF Travels
<1> QED BY <1>11, <1>12, <1>13, <1>14 DEF RInv, VarFits

LEMMA DeclinedKeeps ==
    ASSUME RInv, NEW r \in runs, r.task = "payment", PaymentDeclined(r) PROVE RInv' /\ Travels
<1>1. /\ Open(r.task) /\ Settle(r) /\ SideEffect(Type[r.task], r.given)
      /\ ProcessPayment(r.given).end = "business" /\ UNCHANGED <<var, stuck, joined>>
    BY DEF PaymentDeclined, Throw, Type, Handle
<1>2. /\ Alone("payment") /\ Passed /\ Known(var) /\ SamePrice(r.given, var)
    BY <1>1, RunIsHere, WhereActive DEF RInv, Shape, Passed
<1>3. Reply = "declined"
    <2>1. AnswerTo(r.given) = "declined"
        BY <1>1 DEF ProcessPayment, ChargeAmount, Ok, Technical, AnswerTo
    <2> QED BY <1>2, <2>1 DEF SamePrice, Reply, AnswerTo
<1>4. /\ Known(var') /\ Beside(var', var) /\ SamePrice(var', var)
      /\ var'.inventoryReserved = var.inventoryReserved
    BY <1>1, <1>2 DEF Known, Beside, SamePrice
<1>5. active' = {"notifyPayment"} /\ ended' = {} /\ joined' = {}
    BY <1>1, <1>2 DEF PaymentDeclined, Move, Alone
<1>6. Alone("notifyPayment")' /\ Passed'
    BY <1>5 DEF Alone, Passed
<1>7. LedgerOK' /\ ledger'.charges = ledger.charges
    BY <1>1, <1>3, GatewayAsked
<1>8. \A t : Begun(t) => Begun(t)'
    BY <1>2, <1>6 DEF Begun, Alone, Over, NoStock
<1>9. \A t \in active' : ~Begun(t)
    BY <1>2, <1>5 DEF Begun, Alone, Over
<1>10. ~Alone("payment")' /\ active = {r.task} /\ r.task \notin active'
    BY <1>2, <1>5 DEF Alone
<1>11. /\ Shape' /\ (\A q \in runs' : RunFits(q)') /\ Reply' = Reply
       /\ Tabled' /\ Allowed' /\ Stocked' /\ Priced'
    BY <1>1, <1>2, <1>4, <1>5, <1>6, <1>7, <1>8, <1>9, <1>10, AloneKeeps
<1>12. Worked'
    <2>1. ~Early' /\ ~Forked'
        BY <1>6, Apart, PTL
    <2>2. ~Over(Completed)' /\ ~Alone("ship")'
        BY <1>5 DEF Over, Alone
    <2> QED BY <1>10, <2>1, <2>2 DEF Worked
<1>13. ~(ledger.charges > 0)
    BY <1>3 DEF RInv, LedgerFits, Captured
<1>14. LedgerFits'
    BY <1>3, <1>5, <1>7, <1>11, <1>13 DEF LedgerFits, Captured, Charged, Declined, Alone, Over
<1>15. Travels
    BY <1>1, <1>2, <1>6 DEF Travels
<1> QED BY <1>11, <1>12, <1>14, <1>15 DEF RInv, VarFits

LEMMA ShipKeeps ==
    ASSUME RInv, NEW r \in runs, r.task = "ship", ShipDone(r) PROVE RInv' /\ Travels
<1>1. /\ Open(r.task) /\ Settle(r) /\ SideEffect(Type[r.task], r.given) /\ stuck' = stuck
      /\ var' = Merge(var, ShipOrder(r.given).set) /\ joined' = joined
      /\ active' = active \ {"ship"} /\ ended' = ended \cup {Completed}
    <2>1. Last(r, Completed)
        BY DEF ShipDone, Completed
    <2>2. Handle(Type[r.task], r.given) = ShipOrder(r.given)
        BY DEF Type, Handle
    <2> QED BY <2>1, <2>2, LastMoves
<1>2. /\ Alone("ship") /\ Passed /\ Known(r.given) /\ Known(var) /\ SamePrice(r.given, var)
    BY <1>1, RunIsHere, WhereActive DEF RInv, Shape, Passed
<1>3. OnlyOrder(var', r.given, var) /\ var'.order.tracked = TRUE
    <2>1. Shipped(var', r.given, var)
        BY <1>1, <1>2, ShipMerged
    <2> QED BY <2>1 DEF Shipped
<1>4. /\ Known(var') /\ Beside(var', var) /\ SamePrice(var', var)
      /\ var'.inventoryReserved = var.inventoryReserved
    BY <1>2, <1>3 DEF OnlyOrder, SamePrice, SameOrder
<1>5. active' = {} /\ ended' = {Completed} /\ joined' = {}
    BY <1>1, <1>2 DEF Alone
<1>6. Over(Completed)' /\ Passed'
    BY <1>5 DEF Over, Passed
<1>7. LedgerOK' /\ ledger' = ledger
    BY <1>1, GatewayAsked
<1>8. \A t : Begun(t) => Begun(t)'
    BY <1>2, <1>6 DEF Begun, Alone, Over, NoStock
<1>9. ~Alone("payment")' /\ active = {r.task} /\ r.task \notin active' /\ \A t \in active' : ~Begun(t)
    BY <1>2, <1>5 DEF Alone
<1>10. /\ Shape' /\ (\A q \in runs' : RunFits(q)') /\ Reply' = Reply
       /\ Tabled' /\ Allowed' /\ Stocked' /\ Priced'
    BY <1>1, <1>2, <1>4, <1>5, <1>6, <1>7, <1>8, <1>9, AloneKeeps
<1>11. Worked'
    <2>1. ~Early' /\ ~Forked'
        BY <1>6, Apart, PTL
    <2>2. ~Alone("ship")'
        BY <1>5 DEF Alone
    <2> QED BY <1>3, <1>9, <2>1, <2>2 DEF Worked
<1>12. LedgerFits'
    <2>1. ledger.charges > 0 /\ Reply = "captured"
        BY <1>2 DEF RInv, LedgerFits, Captured, Charged
    <2>2. ~Alone("notifyPayment")' /\ ~Over(Unpaid)'
        BY <1>5 DEF Alone, Over, Completed, Unpaid
    <2> QED BY <1>6, <1>7, <1>10, <2>1, <2>2 DEF LedgerFits, Captured, Charged, Declined
<1>13. Travels
    BY <1>2, <1>6 DEF Travels
<1> QED BY <1>10, <1>11, <1>12, <1>13 DEF RInv, VarFits

LEMMA NotifyPaymentKeeps ==
    ASSUME RInv, NEW r \in runs, r.task = "notifyPayment", NotifyPaymentDone(r) PROVE RInv' /\ Travels
<1>1. /\ Open(r.task) /\ Settle(r) /\ SideEffect(Type[r.task], r.given) /\ stuck' = stuck
      /\ var' = Merge(var, NotifyCustomerFailure(r.given).set) /\ joined' = joined
      /\ active' = active \ {"notifyPayment"} /\ ended' = ended \cup {Unpaid}
    <2>1. Last(r, Unpaid)
        BY DEF NotifyPaymentDone, Unpaid
    <2>2. Handle(Type[r.task], r.given) = NotifyCustomerFailure(r.given)
        BY DEF Type, Handle
    <2> QED BY <2>1, <2>2, LastMoves
<1>2. /\ Alone("notifyPayment") /\ Passed /\ Known(r.given) /\ Known(var) /\ SamePrice(r.given, var)
    BY <1>1, RunIsHere, WhereActive DEF RInv, Shape, Passed
<1>3. OnlyOrder(var', r.given, var)
    BY <1>1, <1>2, NotifyMerged
<1>4. /\ Known(var') /\ Beside(var', var) /\ SamePrice(var', var)
      /\ var'.inventoryReserved = var.inventoryReserved
    BY <1>2, <1>3 DEF OnlyOrder, SamePrice, SameOrder
<1>5. active' = {} /\ ended' = {Unpaid} /\ joined' = {}
    BY <1>1, <1>2 DEF Alone
<1>6. Over(Unpaid)' /\ Passed'
    BY <1>5 DEF Over, Passed
<1>7. LedgerOK' /\ ledger' = ledger
    BY <1>1, GatewayAsked
<1>8. \A t : Begun(t) => Begun(t)'
    BY <1>2, <1>6 DEF Begun, Alone, Over, NoStock
<1>9. ~Alone("payment")' /\ active = {r.task} /\ r.task \notin active' /\ \A t \in active' : ~Begun(t)
    BY <1>2, <1>5 DEF Alone
<1>10. /\ Shape' /\ (\A q \in runs' : RunFits(q)') /\ Reply' = Reply
       /\ Tabled' /\ Allowed' /\ Stocked' /\ Priced'
    BY <1>1, <1>2, <1>4, <1>5, <1>6, <1>7, <1>8, <1>9, AloneKeeps
<1>11. ~Alone("ship")' /\ ~Over(Completed)'
    BY <1>5 DEF Alone, Over, Completed, Unpaid
<1>12. Worked'
    <2>1. ~Early' /\ ~Forked'
        BY <1>6, Apart, PTL
    <2> QED BY <1>9, <1>11, <2>1 DEF Worked
<1>13. LedgerFits'
    <2>1. Reply = "declined" /\ ~(ledger.charges > 0)
        BY <1>2 DEF RInv, LedgerFits, Captured, Declined
    <2> QED BY <1>7, <1>10, <1>11, <2>1 DEF LedgerFits, Captured, Charged, Declined
<1>14. Travels
    BY <1>2, <1>6 DEF Travels
<1> QED BY <1>10, <1>12, <1>13, <1>14 DEF RInv, VarFits

-----------------------------------------------------------------------------
(* Every step                                                               *)

LEMMA StepRInv == RInv /\ [Next]_vars => RInv' /\ Travels
<1> SUFFICES ASSUME RInv, [Next]_vars PROVE RInv' /\ Travels
    OBVIOUS
<1>1. CASE Decide1
    BY <1>1, DecideKeeps
<1>2. ASSUME NEW approved \in BOOLEAN, ManagerDecides(approved) PROVE RInv' /\ Travels
    BY <1>2, ReviewKeeps
<1>3. ASSUME NEW t \in Service, Activate(t) /\ UNCHANGED joined PROVE RInv' /\ Travels
    <2>1. UNCHANGED <<var, active, joined, ended, ledger>>
        BY <1>3 DEF Activate
    <2> QED BY <1>3, <2>1, ActivateKeeps DEF Travels
<1>4. ASSUME NEW r \in runs, Done(r) PROVE RInv' /\ Travels
    <2>1. CASE r.task = "discount" /\ ApplyDiscountDone(r)
        BY <2>1, DiscountKeeps
    <2>2. CASE r.task = "inventory" /\ ReserveInventoryDone(r)
        BY <2>2, InventoryKeeps
    <2>3. CASE r.task = "inventory" /\ OutOfStock(r)
        BY <2>3, OutOfStockKeeps
    <2>4. CASE r.task = "payment" /\ PaymentDone(r)
        BY <2>4, PaymentKeeps
    <2>5. CASE r.task = "payment" /\ PaymentDeclined(r)
        BY <2>5, DeclinedKeeps
    <2>6. CASE r.task = "ship" /\ ShipDone(r)
        BY <2>6, ShipKeeps
    <2>7. CASE r.task = "notifyFraud" /\ NotifyFraudDone(r)
        BY <2>7, NotifyFraudKeeps
    <2>8. CASE r.task = "notifyStock" /\ NotifyStockDone(r)
        BY <2>8, NotifyStockKeeps
    <2>9. CASE r.task = "notifyPayment" /\ NotifyPaymentDone(r)
        BY <2>9, NotifyPaymentKeeps
    <2> QED BY <1>4, <2>1, <2>2, <2>3, <2>4, <2>5, <2>6, <2>7, <2>8, <2>9 DEF Done
<1>5. ASSUME NEW r \in runs, Attempt(r, Type[r.task], Caught(r.task)) /\ UNCHANGED joined
      PROVE  RInv' /\ Travels
    <2>1. RInv'
        BY <1>5, AttemptKeeps
    <2>2. UNCHANGED <<var, active, joined, ended>>
        BY <1>5 DEF Attempt, Overrun, Retry, Redo, GiveUp, Uncaught
    <2>3. ledger' = ledger \/ SideEffect(Type[r.task], r.given)
        BY <1>5 DEF Attempt, Overrun, Retry, Redo, GiveUp, Uncaught
    <2>4. ledger'.charges = ledger.charges \/ ledger'.charges > 0
        BY <2>3, GatewayAsked
    <2> QED BY <2>1, <2>2, <2>4 DEF Travels
<1>6. CASE UNCHANGED vars
    <2>1. UNCHANGED <<var, active, joined, ended, runs, stuck, ledger>>
        BY <1>6 DEF vars, taskVars
    <2>2. RInv'
        BY <2>1, StaysPut DEF RInv, Shape, RunFits, RunsForm, LedgerOK, NoneNew, Open, IsStuck
    <2> QED BY <2>1, <2>2 DEF Travels
<1> QED BY <1>1, <1>2, <1>3, <1>4, <1>5, <1>6 DEF Next

LEMMA Invariant == Spec => []RInv
<1>1. Init => RInv
    BY InitRInv
<1>2. RInv /\ [Next]_vars => RInv'
    BY StepRInv
<1> QED BY <1>1, <1>2, PTL DEF Spec

-----------------------------------------------------------------------------
(* Theorems                                                                 *)

LEMMA Typed == RInv => TypeOK
<1> SUFFICES ASSUME RInv PROVE TypeOK
    OBVIOUS
<1>1. active \subseteq Tasks /\ joined \subseteq Fork
    <2>1. CASE Early
        BY <2>1 DEF Early, Alone, Over, Tasks, Service, Type, Fork
    <2>2. CASE Forked
        <3>1. active \subseteq {"discount", "inventory", "notifyStock"} /\ joined \subseteq Fork
            BY <2>2 DEF Forked, StockAt, Fork
        <3> QED BY <3>1 DEF Tasks, Service, Type
    <2>3. CASE Passed
        BY <2>3 DEF Passed, Alone, Over, Tasks, Service, Type, Fork
    <2> QED BY <2>1, <2>2, <2>3 DEF RInv, Shape
<1>2. RunsOK(Service)
    BY DEF RInv, Shape, Known, RunFits, RunsForm, RunsOK
<1>3. stuck \subseteq active \X {"retries", "unhandled error"} /\ ledger.charges \in 0..MaxCharges
    BY DEF RInv, Shape, LedgerOK
<1> QED BY <1>1, <1>2, <1>3 DEF TypeOK

LEMMA Cleared == RInv => ChargedOnlyIfCleared
BY DEF RInv, VarFits, Allowed, Stocked, LedgerFits, Captured, ChargedOnlyIfCleared

LEMMA JoinedAlone == RInv => JoinWaitsForBoth
<1> SUFFICES ASSUME RInv, NEW t \in active \cap {"payment", "ship", "notifyPayment"}
             PROVE  Cardinality(active) = 1 /\ joined = {}
    BY DEF JoinWaitsForBoth
<1>1. Alone(t)
    BY WhereActive DEF RInv, Shape
<1> QED BY <1>1, FS_Singleton DEF Alone

LEMMA BothKept == RInv => BranchesKept
<1> SUFFICES ASSUME RInv, "payment" \in active
             PROVE  /\ var.inventoryReserved
                    /\ var.totalAmount = Discounted(var.order.total, var.decision.percent)
    BY DEF BranchesKept
<1>1. Alone("payment") /\ Passed
    BY WhereActive DEF RInv, Shape, Passed
<1> QED BY <1>1 DEF RInv, VarFits, Stocked, Priced

\* No handler returns a decision, so only the business rule task sets one.
LEMMA HandlersDecideNothing ==
    ASSUME NEW t \in Service, NEW v, Handle(Type[t], v).end = "ok"
    PROVE  "decision" \notin DOMAIN Handle(Type[t], v).set
<1>1. CASE t = "discount"
    BY <1>1 DEF Type, Handle, ApplyDiscount, Ok
<1>2. CASE t = "inventory"
    BY <1>2 DEF Type, Handle, ReserveInventory, Ok, Business
<1>3. CASE t = "payment"
    BY <1>3 DEF Type, Handle, ProcessPayment, Ok, Business, Technical
<1>4. CASE t = "ship"
    BY <1>4 DEF Type, Handle, ShipOrder, Ok
<1>5. CASE t \in {"notifyFraud", "notifyStock", "notifyPayment"}
    BY <1>5 DEF Type, Handle, NotifyCustomerFailure, Ok
<1> QED BY <1>1, <1>2, <1>3, <1>4, <1>5 DEF Service, Type

LEMMA DecisionKept ==
    ASSUME RInv, [Next]_vars, ~Decide1 PROVE var'.decision = var.decision
<1>1. Known(var) /\ \A r \in runs : r.task \in Service
    BY DEF RInv, Shape, RunFits
<1>2. ASSUME NEW r \in runs, Succeed(r, Type[r.task]) PROVE var'.decision = var.decision
    <2>1. "decision" \notin DOMAIN Handle(Type[r.task], r.given).set
        BY <1>1, <1>2, HandlersDecideNothing DEF Succeed
    <2>2. var' = Merge(var, Handle(Type[r.task], r.given).set)
        BY <1>2 DEF Succeed
    <2> QED BY <1>1, <2>1, <2>2 DEF Merge, Known, VarNames
<1>3. ASSUME NEW r \in runs, Done(r) PROVE var'.decision = var.decision
    <2>1. Succeed(r, Type[r.task]) \/ UNCHANGED var
        BY <1>3 DEF Done, ApplyDiscountDone, ReserveInventoryDone, OutOfStock, PaymentDone,
                    PaymentDeclined, ShipDone, NotifyFraudDone, NotifyStockDone,
                    NotifyPaymentDone, Last, Throw
    <2> QED BY <1>2, <1>3, <2>1
<1>4. ASSUME NEW approved \in BOOLEAN, ManagerDecides(approved)
      PROVE  var'.decision = var.decision
    BY <1>1, <1>4 DEF ManagerDecides, Decision, Known, VarNames
<1>5. ASSUME NEW r \in runs, Attempt(r, Type[r.task], Caught(r.task)) PROVE UNCHANGED var
    BY <1>5 DEF Attempt, Overrun, Retry, Redo, GiveUp, Uncaught
<1>6. ASSUME NEW t \in Service, Activate(t) PROVE UNCHANGED var
    BY <1>6 DEF Activate
<1>7. CASE UNCHANGED vars
    BY <1>7 DEF vars, taskVars
<1> QED BY <1>3, <1>4, <1>5, <1>6, <1>7 DEF Next

LEMMA DecidesAsTable ==
    RInv /\ [Next]_vars =>
        [var'.decision # var.decision =>
            /\ var.decision = NoDecision
            /\ Classified(var'.decision, var.customerTier, var.totalAmount, var.fraudScore)]_vars
<1> SUFFICES ASSUME RInv, [Next]_vars, var'.decision # var.decision
             PROVE  /\ var.decision = NoDecision
                    /\ Classified(var'.decision, var.customerTier, var.totalAmount, var.fraudScore)
    OBVIOUS
<1>1. Decide1
    BY DecisionKept
<1>2. Alone("decide") /\ Known(var)
    BY <1>1, WhereActive DEF Decide1, RInv, Shape
<1>3. var.decision = NoDecision /\ var.totalAmount \in Int /\ var.fraudScore \in Int
    BY <1>2 DEF RInv, VarFits, Tabled
<1>4. var'.decision = Decide(var.customerTier, var.totalAmount, var.fraudScore)
    BY <1>1, <1>2 DEF Decide1, Known, VarNames
<1> QED BY <1>3, <1>4, TableAnswers

\* Tokens, executions and incidents are where they can be, whatever the order.
THEOREM RiskTypes == Spec => []TypeOK
BY Invariant, Typed, PTL

\* No customer is charged for an order that is a fraud, that a manager has not
\* approved although the table asks for it, or whose stock is not reserved.
THEOREM OnlyClearedCharged == Spec => []ChargedOnlyIfCleared
BY Invariant, Cleared, PTL

\* Payment and shipping begin when both branches have ended, and run alone.
THEOREM JoinWaits == Spec => []JoinWaitsForBoth
BY Invariant, JoinedAlone, PTL

\* Neither branch undoes what the other returns in a variable of its own, in
\* whatever order their executions end and whatever variables they were given.
THEOREM BothBranchesKept == Spec => []BranchesKept
BY Invariant, BothKept, PTL

\* An instance is decided about once, as the table classifies it: the 5000 from which a
\* manager is asked, the fraud scores 40 and 80, and the discount of every tier.
THEOREM DecisionsFollowTable == Spec => DecisionIsTheTable
BY Invariant, DecidesAsTable, PTL DEF Spec, DecisionIsTheTable

-----------------------------------------------------------------------------
(* The life of the order                                                    *)

Paying == ledger.charges > 0

\* What OrderLifecycle sees at each place of the tokens.
Staged ==
    /\ Alone("decide") \/ Alone("review") => StageNow = "open" /\ ~Paying
    /\ Alone("notifyFraud") \/ Over(Stopped) \/ Over(Rejected) => StageNow = "refused" /\ ~Paying
    /\ Forked /\ Cancelling  => StageNow = "refused" /\ ~Paying
    /\ Forked /\ ~Cancelling => StageNow = "open" /\ ~Paying
    /\ Alone("payment") => StageNow = "cleared"
    /\ Alone("ship") => StageNow = "paid" /\ Paying
    /\ Over(Completed) => StageNow = "shipped" /\ Paying
    /\ Alone("notifyPayment") \/ Over(Unpaid) => StageNow = "refused" /\ ~Paying

Placed == Early \/ Forked \/ Passed

LEMMA StageAt == RInv => Staged /\ Placed
<1> SUFFICES ASSUME RInv PROVE Staged /\ Placed
    OBVIOUS
<1>1. Early \/ Forked \/ Alone("payment") => var.order.paid = FALSE /\ var.order.tracked = FALSE
    BY DEF RInv, VarFits, Worked
<1>2. ~Passed => ~Paying
    BY DEF RInv, LedgerFits, Captured, Paying
<1>3. ASSUME Alone("decide") \/ Alone("review") PROVE StageNow = "open" /\ ~Paying
    <2>1. Early /\ ~Passed
        BY <1>3, Apart DEF Early
    <2> QED BY <1>1, <1>2, <1>3, <2>1 DEF Alone, StageNow, RefusedNow
<1>4. ASSUME Alone("notifyFraud") \/ Over(Stopped) \/ Over(Rejected)
      PROVE  StageNow = "refused" /\ ~Paying
    <2>1. ~Passed
        BY <1>4, Apart DEF Early
    <2>2. RefusedNow
        BY <1>4 DEF Alone, Over, RefusedNow, Stopped, Rejected
    <2> QED BY <1>2, <2>1, <2>2 DEF StageNow
<1>5. ASSUME Forked, Cancelling PROVE StageNow = "refused" /\ ~Paying
    <2>1. ASSUME "notifyStock" \in active PROVE RefusedNow
        <3>1. "notifyStock" \in active \cap {"notifyFraud", "notifyStock", "notifyPayment"}
            BY <2>1
        <3> QED BY <3>1 DEF RefusedNow
    <2>2. ASSUME NoStock \in ended PROVE RefusedNow
        <3>1. NoStock \in ended \ {"Order Completed"}
            BY <2>2 DEF NoStock
        <3> QED BY <3>1 DEF RefusedNow
    <2>3. RefusedNow
        BY <1>5, <2>1, <2>2 DEF Cancelling
    <2> QED BY <1>2, <1>5, <2>3, Apart DEF StageNow
<1>6. ASSUME Forked, ~Cancelling PROVE StageNow = "open" /\ ~Paying
    <2>1. ended = {} /\ active \subseteq {"discount", "inventory"}
        BY <1>6 DEF Forked, StockAt, Cancelling
    <2>2. active \cap {"notifyFraud", "notifyStock", "notifyPayment"} = {} /\ "payment" \notin active
        BY <2>1
    <2>3. ended \ {"Order Completed"} = {}
        BY <2>1
    <2>4. ~RefusedNow
        BY <2>2, <2>3 DEF RefusedNow
    <2> QED BY <1>1, <1>2, <1>6, <2>2, <2>4, Apart DEF StageNow
<1>7. ASSUME Alone("payment") PROVE StageNow = "cleared"
    BY <1>1, <1>7 DEF Alone, StageNow, RefusedNow
<1>8. ASSUME Alone("ship") PROVE StageNow = "paid" /\ Paying
    BY <1>8 DEF RInv, VarFits, Worked, LedgerFits, Charged, Alone, StageNow, RefusedNow, Paying
<1>9. ASSUME Over(Completed) PROVE StageNow = "shipped" /\ Paying
    BY <1>9 DEF RInv, VarFits, Worked, LedgerFits, Charged, Over, StageNow, RefusedNow, Paying, Completed
<1>10. ASSUME Alone("notifyPayment") \/ Over(Unpaid) PROVE StageNow = "refused" /\ ~Paying
    <2>1. ~Paying
        BY <1>10 DEF RInv, LedgerFits, Captured, Declined, Paying
    <2>2. RefusedNow
        BY <1>10 DEF Alone, Over, RefusedNow, Unpaid
    <2> QED BY <2>1, <2>2 DEF StageNow
<1>11. Placed
    BY DEF RInv, Shape, Placed
<1> QED BY <1>3, <1>4, <1>5, <1>6, <1>7, <1>8, <1>9, <1>10, <1>11 DEF Staged

LEMMA LifeInit == Init => Lifecycle!Init
<1> SUFFICES ASSUME Init PROVE Lifecycle!Init
    OBVIOUS
<1>1. StageNow = "open" /\ ~(ledger.charges > 0)
    BY InitRInv, StageAt DEF Staged, Paying
<1>2. (ledger.charges > 0) = FALSE
    BY <1>1
<1> QED BY <1>1, <1>2 DEF Lifecycle!Init

LEMMA LifeStep == RInv /\ RInv' /\ Travels => [Lifecycle!Next]_(Lifecycle!lifeVars)
<1> SUFFICES ASSUME RInv, RInv', Travels PROVE [Lifecycle!Next]_(Lifecycle!lifeVars)
    OBVIOUS
<1> DEFINE same == (ledger'.charges > 0) = (ledger.charges > 0)
           now  == (ledger'.charges > 0) = TRUE
<1>1. Staged /\ Staged' /\ Placed
    BY StageAt, PTL
<1>2. CASE UNCHANGED <<var, active, joined, ended>> /\ (ledger'.charges = ledger.charges \/ ledger'.charges > 0)
    <2>1. StageNow' = StageNow
        BY <1>2 DEF StageNow, RefusedNow
    <2>2. CASE same
        BY <2>1, <2>2 DEF Lifecycle!lifeVars
    <2>3. CASE ledger'.charges > 0 /\ ~(ledger.charges > 0)
        <3>1. Passed
            <4>1. Passed' = Passed
                BY <1>2, PlacesStay
            <4> QED BY <2>3, <4>1 DEF RInv, LedgerFits, Captured
        <3>2. ~Alone("ship") /\ ~Over(Completed)
            BY <1>1, <2>3 DEF Staged, Paying
        <3>3. ~Alone("notifyPayment") /\ ~Over(Unpaid)
            <4>1. (Alone("notifyPayment") \/ Over(Unpaid)) => (Alone("notifyPayment") \/ Over(Unpaid))'
                BY <1>2 DEF Alone, Over
            <4> QED BY <1>1, <2>3, <4>1 DEF Staged, Paying
        <3>4. StageNow = "cleared" /\ now
            BY <1>1, <2>3, <3>1, <3>2, <3>3 DEF Staged, Passed
        <3> QED BY <2>1, <3>4 DEF Lifecycle!Next, Lifecycle!Charge
    <2> QED BY <1>2, <2>2, <2>3
<1>3. CASE ledger' = ledger /\ Alone("decide") /\ (Alone("review")' \/ Alone("notifyFraud")' \/ (Forked' /\ ~Cancelling'))
    <2>1. StageNow = "open" /\ StageNow' \in {"open", "refused"} /\ same /\ ~(ledger.charges > 0)
        BY <1>1, <1>3 DEF Staged, Paying
    <2> QED BY <2>1 DEF Lifecycle!Next, Lifecycle!Refuse, Lifecycle!lifeVars
<1>4. CASE ledger' = ledger /\ Alone("review") /\ ((Forked' /\ ~Cancelling') \/ Over(Rejected)')
    <2>1. StageNow = "open" /\ StageNow' \in {"open", "refused"} /\ same /\ ~(ledger.charges > 0)
        BY <1>1, <1>4 DEF Staged, Paying
    <2> QED BY <2>1 DEF Lifecycle!Next, Lifecycle!Refuse, Lifecycle!lifeVars
<1>5. CASE ledger' = ledger /\ Alone("notifyFraud") /\ Over(Stopped)'
    <2>1. StageNow = "refused" /\ StageNow' = "refused" /\ same
        BY <1>1, <1>5 DEF Staged
    <2> QED BY <2>1 DEF Lifecycle!lifeVars
<1>6. CASE ledger' = ledger /\ Forked /\ Forked' /\ (Cancelling => Cancelling')
    <2>1. \/ StageNow = "refused" /\ StageNow' = "refused" /\ same
          \/ StageNow = "open" /\ StageNow' \in {"open", "refused"} /\ same /\ ~(ledger.charges > 0)
        BY <1>1, <1>6 DEF Staged, Paying
    <2> QED BY <2>1 DEF Lifecycle!Next, Lifecycle!Refuse, Lifecycle!lifeVars
<1>7. CASE ledger' = ledger /\ Forked /\ ~Cancelling /\ Alone("payment")'
    <2>1. StageNow = "open" /\ StageNow' = "cleared" /\ same
        BY <1>1, <1>7 DEF Staged
    <2> QED BY <2>1 DEF Lifecycle!Next, Lifecycle!Clear
<1>8. CASE Alone("payment") /\ Alone("ship")'
    <2>1. StageNow = "cleared" /\ StageNow' = "paid" /\ ledger'.charges > 0
        BY <1>1, <1>8 DEF Staged, Paying
    <2>2. now
        BY <2>1
    <2> QED BY <2>1, <2>2 DEF Lifecycle!Next, Lifecycle!Pay
<1>9. CASE Alone("payment") /\ Alone("notifyPayment")' /\ var' = var
    <2>1. ~(ledger.charges > 0)
        <3>1. Reply' = Reply
            BY <1>9 DEF Reply, AnswerTo
        <3>2. Reply' = "declined"
            BY <1>9 DEF RInv, LedgerFits, Declined
        <3> QED BY <3>1, <3>2 DEF RInv, LedgerFits, Captured
    <2>2. StageNow = "cleared" /\ StageNow' = "refused" /\ ~(ledger'.charges > 0)
        BY <1>1, <1>9 DEF Staged, Paying
    <2>3. same
        BY <2>1, <2>2
    <2> QED BY <2>1, <2>2, <2>3 DEF Lifecycle!Next, Lifecycle!Refuse
<1>10. CASE Alone("ship") /\ Over(Completed)'
    <2>1. StageNow = "paid" /\ StageNow' = "shipped" /\ ledger.charges > 0 /\ ledger'.charges > 0
        BY <1>1, <1>10 DEF Staged, Paying
    <2>2. same
        BY <2>1
    <2> QED BY <2>1, <2>2 DEF Lifecycle!Next, Lifecycle!Ship
<1>11. CASE Alone("notifyPayment") /\ Over(Unpaid)'
    <2>1. StageNow = "refused" /\ StageNow' = "refused" /\ ~(ledger.charges > 0) /\ ~(ledger'.charges > 0)
        BY <1>1, <1>11 DEF Staged, Paying
    <2>2. same
        BY <2>1
    <2> QED BY <2>1, <2>2 DEF Lifecycle!lifeVars
<1> QED BY <1>2, <1>3, <1>4, <1>5, <1>6, <1>7, <1>8, <1>9, <1>10, <1>11 DEF Travels

\* An order is cleared by both branches, charged, paid and shipped in this order, or
\* refused and never charged: the process implements OrderLifecycle.
THEOREM RiskProcessImplementsLifecycle == Spec => ImplementsLifecycle
<1>1. RInv /\ [Next]_vars => [Lifecycle!Next]_(Lifecycle!lifeVars)
    BY StepRInv, LifeStep
<1> QED BY <1>1, Invariant, LifeInit, PTL DEF Spec, ImplementsLifecycle, Lifecycle!Spec
=============================================================================
