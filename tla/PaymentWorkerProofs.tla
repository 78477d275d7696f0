------------------------- MODULE PaymentWorkerProofs -------------------------
(***************************************************************************)
(* Proofs about PaymentWorker, for any number of jobs, slots, concurrent      *)
(* handlers and retries and any configuration of the breaker.  How jobs end    *)
(* needs nothing about the breaker's counters: whoever is inside Execute has a *)
(* running slot, and only the gateway's own answers are reported as such.  What *)
(* is proved of the breaker alone holds inside the worker, restarts aside.     *)
(***************************************************************************)
EXTENDS PaymentWorker, JobWorkerProofs

\* The breaker and the slots agree on who is inside Execute.
ExecuteMatchesSlot == \A s \in Slots :
    /\ call[s] \in {"running", "rejected"} <=> slot[s].stage = "running"
    /\ call[s] \in {"ok", "error", "panic"} => slot[s].stage = "sending"

Calls == {"idle", "running", "rejected", "ok", "error", "panic"}

\* An order is reported as paid, or as declined, only after the gateway said so.
ReportIsHandled == \A s \in Slots :
    slot[s].stage = "sending" /\ slot[s].outcome \in {"ok", "business"}
        => slot[s].outcome \in handled[slot[s].job]

PInv == /\ IInv
        /\ call \in [Slots -> Calls]
        /\ handled \in [Jobs -> SUBSET Answers]
        /\ ExecuteMatchesSlot /\ ReportIsHandled /\ EndsOnlyAsHandled

LEMMA InitPInv == PInit => PInv
<1> SUFFICES ASSUME PInit PROVE PInv
    OBVIOUS
<1>1. IInv
    BY InitIInv DEF PInit
<1>2. call = [s \in Slots |-> "idle"] /\ handled = [j \in Jobs |-> {}]
    BY DEF PInit, Breaker!Init
<1>3. /\ \A s \in Slots : slot[s].stage = "free"
      /\ \A j \in Jobs : job[j].st = "activatable"
    BY DEF PInit, Init, FreeSlot
<1> QED
    BY <1>1, <1>2, <1>3 DEF PInv, Calls, ExecuteMatchesSlot, ReportIsHandled, EndsOnlyAsHandled

-----------------------------------------------------------------------------

\* The slots that a step of the breaker leaves alone keep their place in Execute.
LEMMA CallMoves ==
    ASSUME call \in [Slots -> Calls], NEW s \in Slots, NEW to \in Calls,
           call' = [call EXCEPT ![s] = to]
    PROVE  /\ call' \in [Slots -> Calls] /\ call'[s] = to
           /\ \A t \in Slots : t # s => call'[t] = call[t]
OBVIOUS

\* With the breaker in the way a step is still one of JobWorker, or none.
LEMMA PStepIsNext == [PNext]_pvars => [Next]_vars
BY DEF PNext, pvars, StartAdmitted, StartRejected, FinishRejected, FinishRun, LeaveExecute, Send,
       Apart, Clock, Restart, Next, RejectedOutcome, Outcome

\* The result of Execute that a finished handler leaves behind.
LEMMA ReportMoves ==
    ASSUME NEW s \in Slots, NEW o \in Outcome, Report(s, o)
    PROVE  /\ call[s] = "running"
           /\ \E to \in {"ok", "error", "panic"} : call' = [call EXCEPT ![s] = to]
<1>1. CASE o \in {"ok", "badvars"}
    BY <1>1 DEF Report, Breaker!Succeed, Breaker!Finish
<1>2. CASE o = "panic"
    BY <1>2 DEF Report, Breaker!Panic, Breaker!Finish
<1>3. CASE o \in {"business", "technical"}
    BY <1>3 DEF Report, Breaker!Fail, Breaker!Finish
<1> QED BY <1>1, <1>2, <1>3 DEF Outcome

\* A handler that ends: its slot reports what the gateway has answered.
LEMMA FinishKeeps ==
    ASSUME PInv, IInv', NEW s \in Slots, NEW o \in Outcome, Finish(s, o),
           NEW to \in {"idle", "ok", "error", "panic"}, call' = [call EXCEPT ![s] = to],
           \/ o = "technical" /\ handled' = handled
           \/ handled' = [handled EXCEPT ![slot[s].job] = @ \cup ({o} \cap Answers)]
    PROVE  PInv'
<1> USE DEF PInv
<1>1. /\ call' \in [Slots -> Calls] /\ call'[s] = to
      /\ \A t \in Slots : t # s => call'[t] = call[t]
    BY CallMoves DEF Calls
<1>2. /\ slot'[s].stage = "sending" /\ slot'[s].outcome = o /\ slot'[s].job = slot[s].job
      /\ slot[s].job \in Jobs /\ job' = job
      /\ \A t \in Slots : t # s => slot'[t] = slot[t]
    BY DEF Finish, IInv, TypeOK, SlotType
<1>3. /\ handled' \in [Jobs -> SUBSET Answers]
      /\ \A j \in Jobs : handled[j] \subseteq handled'[j]
      /\ o \in {"ok", "business"} => o \in handled'[slot[s].job]
    <2> DEFINE k == slot[s].job
    <2>1. k \in Jobs
        BY <1>2
    <2> HIDE DEF k
    <2>2. CASE o = "technical" /\ handled' = handled
        BY <2>2
    <2>3. CASE handled' = [handled EXCEPT ![k] = @ \cup ({o} \cap Answers)]
        <3>1. handled \in [Jobs -> SUBSET Answers]
            BY DEF PInv
        <3>2. handled' \in [Jobs -> SUBSET Answers]
            BY <2>3, <3>1
        <3>3. \A j \in Jobs : handled'[j] = IF j = k THEN handled[k] \cup ({o} \cap Answers)
                                                     ELSE handled[j]
            BY <2>1, <2>3, <3>1
        <3>4. o \in {"ok", "business"} => o \in handled'[k]
            BY <2>1, <3>3 DEF Answers
        <3> QED BY <3>2, <3>3, <3>4 DEF k
    <2> QED BY <2>2, <2>3 DEF k
<1>4. ExecuteMatchesSlot'
    BY <1>1, <1>2 DEF ExecuteMatchesSlot
<1>5. ASSUME NEW t \in Slots, slot'[t].stage = "sending", slot'[t].outcome \in {"ok", "business"}
      PROVE  slot'[t].outcome \in handled'[slot'[t].job]
    <2>1. CASE t = s
        BY <1>2, <1>3, <1>5, <2>1
    <2>2. CASE t # s
        <3>1. slot[t].job \in Jobs
            BY <1>2, <1>5, <2>2 DEF IInv, TypeOK, SlotType
        <3> QED BY <1>2, <1>3, <1>5, <2>2, <3>1 DEF ReportIsHandled
    <2> QED BY <2>1, <2>2
<1>6. EndsOnlyAsHandled'
    BY <1>2, <1>3 DEF EndsOnlyAsHandled
<1> QED BY <1>1, <1>3, <1>4, <1>5, <1>6 DEF ReportIsHandled

\* A report that leaves its slot: the broker ends a job only as the slot says.
LEMMA SendKeeps ==
    ASSUME PInv, IInv', NEW s \in Slots, Send(s)
    PROVE  PInv'
<1> USE DEF PInv
<1>1. UNCHANGED <<call, handled>> /\ call[s] = "idle" /\ slot[s].stage = "sending"
    BY DEF Send, breakerVars, Deliver, SendExpired, SendLost
<1>2. slot' = [slot EXCEPT ![s] = FreeSlot]
    BY DEF Send, Deliver, SendExpired, SendLost, Release
<1>3. slot'[s].stage = "free" /\ \A t \in Slots : t # s => slot'[t] = slot[t]
    BY <1>2 DEF FreeSlot, IInv, TypeOK
<1>4. ExecuteMatchesSlot'
    BY <1>1, <1>3 DEF ExecuteMatchesSlot
<1>5. ReportIsHandled'
    BY <1>1, <1>3 DEF ReportIsHandled
<1>6. EndsOnlyAsHandled'
    <2> DEFINE k == slot[s].job
               o == slot[s].outcome
               new == Executed(Command(o), NewRetries(slot[s].seen), job[k])
    <2>1. CASE job' = job
        BY <1>1, <2>1 DEF EndsOnlyAsHandled
    <2>2. CASE job' = [job EXCEPT ![k] = new]
        <3>1. k \in Jobs /\ o \in Outcome
            BY <1>1 DEF IInv, TypeOK, SlotType
        <3>2. /\ new.st = "completed" => o = "ok"
              /\ new.st = "thrown" => o = "business"
            BY <3>1 DEF Executed, Command, Outcome
        <3>3. o \in {"ok", "business"} => o \in handled[k]
            BY <1>1 DEF ReportIsHandled
        <3> HIDE DEF new, k, o
        <3>4. \A j \in Jobs : job'[j] = IF j = k THEN new ELSE job[j]
            BY <2>2, <3>1 DEF IInv, TypeOK
        <3> QED BY <1>1, <3>2, <3>3, <3>4 DEF EndsOnlyAsHandled
    <2> QED BY <2>1, <2>2 DEF Send, Deliver, SendExpired, SendLost
<1> QED BY <1>1, <1>4, <1>5, <1>6

\* Steps apart from Execute move no slot out of it or into it, and end no job.
LEMMA ApartKeeps ==
    ASSUME PInv, IInv', Apart
    PROVE  PInv'
<1> USE DEF PInv
<1>1. UNCHANGED <<call, handled>>
    BY DEF Apart, breakerVars
<1>2. ASSUME NEW s \in Slots
      PROVE  \/ /\ slot'[s].stage = slot[s].stage /\ slot'[s].job = slot[s].job
                /\ slot'[s].outcome = slot[s].outcome
             \/ slot[s].stage = "free" /\ slot'[s].stage = "queued"
    <2>1. ASSUME NEW j \in Jobs, NEW t \in Slots, Activate(j, t)
          PROVE  slot'[s] = slot[s] \/ (slot[s].stage = "free" /\ slot'[s].stage = "queued")
        BY <2>1 DEF Activate, IInv, TypeOK
    <2>2. ASSUME NEW j \in Jobs, LockExpire(j) \/ BackoffElapse(j) PROVE slot'[s] = slot[s]
        BY <2>2 DEF LockExpire, BackoffElapse
    <2>3. ASSUME NEW t \in Slots, CtxExpire(t)
          PROVE  /\ slot'[s].stage = slot[s].stage /\ slot'[s].job = slot[s].job
                 /\ slot'[s].outcome = slot[s].outcome
        BY <2>3 DEF CtxExpire, IInv, TypeOK, SlotType
    <2> QED BY <2>1, <2>2, <2>3 DEF Apart
<1>3. \A j \in Jobs : job'[j].st \in {job[j].st, "activated", "activatable"}
    BY DEF Apart, Activate, LockExpire, BackoffElapse, CtxExpire, IInv, TypeOK
<1> QED BY <1>1, <1>2, <1>3 DEF ExecuteMatchesSlot, ReportIsHandled, EndsOnlyAsHandled

\* A handler starts; it is inside Execute, or about to learn that it was rejected.
LEMMA StartKeeps ==
    ASSUME PInv, IInv', NEW s \in Slots, StartAdmitted(s) \/ StartRejected(s)
    PROVE  PInv'
<1> USE DEF PInv
<1>1. PICK to \in {"running", "rejected"} : call[s] = "idle" /\ call' = [call EXCEPT ![s] = to]
    BY DEF StartAdmitted, StartRejected, Breaker!Admit, Breaker!Reject
<1>2. /\ call' \in [Slots -> Calls] /\ call'[s] = to
      /\ \A t \in Slots : t # s => call'[t] = call[t]
    BY <1>1, CallMoves DEF Calls
<1>3. /\ slot'[s].stage = "running" /\ job' = job /\ handled' = handled
      /\ \A t \in Slots : t # s => slot'[t] = slot[t]
    BY DEF StartAdmitted, StartRejected, Start, IInv, TypeOK, SlotType
<1> QED BY <1>2, <1>3 DEF ExecuteMatchesSlot, ReportIsHandled, EndsOnlyAsHandled

LEMMA StepPInv == PInv /\ [PNext]_pvars => PInv'
<1> SUFFICES ASSUME PInv, [PNext]_pvars PROVE PInv'
    OBVIOUS
<1>0. IInv'
    BY PStepIsNext, StepIInv DEF PInv
<1>1. ASSUME NEW s \in Slots, StartAdmitted(s) \/ StartRejected(s) PROVE PInv'
    BY <1>0, <1>1, StartKeeps
<1>2. ASSUME NEW s \in Slots, FinishRejected(s) PROVE PInv'
    <2>1. /\ Finish(s, "technical") /\ handled' = handled
          /\ call' = [call EXCEPT ![s] = "idle"]
        BY <1>2 DEF FinishRejected, RejectedOutcome, Breaker!Return
    <2> QED BY <1>0, <2>1, FinishKeeps DEF Outcome
<1>3. ASSUME NEW s \in Slots, NEW o \in Outcome, FinishRun(s, o) PROVE PInv'
    <2>1. PICK to \in {"ok", "error", "panic"} : call' = [call EXCEPT ![s] = to]
        BY <1>3, ReportMoves DEF FinishRun
    <2> QED BY <1>0, <1>3, <2>1, FinishKeeps DEF FinishRun
<1>4. ASSUME NEW s \in Slots, LeaveExecute(s) PROVE PInv'
    <2>1. call[s] \in {"ok", "error", "panic"} /\ call' = [call EXCEPT ![s] = "idle"]
        BY <1>4 DEF LeaveExecute, Breaker!Return
    <2>2. /\ call' \in [Slots -> Calls] /\ call'[s] = "idle"
          /\ \A t \in Slots : t # s => call'[t] = call[t]
        BY <2>1, CallMoves DEF Calls, PInv
    <2>3. UNCHANGED <<slot, job, handled>>
        BY <1>4 DEF LeaveExecute, vars
    <2> QED BY <1>0, <2>1, <2>2, <2>3
            DEF PInv, ExecuteMatchesSlot, ReportIsHandled, EndsOnlyAsHandled
<1>5. ASSUME NEW s \in Slots, Send(s) PROVE PInv'
    BY <1>0, <1>5, SendKeeps
<1>6. CASE Apart
    BY <1>0, <1>6, ApartKeeps
<1>7. CASE Restart
    <2>1. /\ \A s \in Slots : slot'[s].stage = "free"
          /\ call' = [s \in Slots |-> "idle"] /\ UNCHANGED <<job, handled>>
        BY <1>7 DEF Restart, Crash, FreeSlot
    <2> QED BY <1>0, <2>1
            DEF PInv, Calls, ExecuteMatchesSlot, ReportIsHandled, EndsOnlyAsHandled
<1>8. CASE Clock \/ UNCHANGED pvars
    <2>1. UNCHANGED <<slot, job, handled, call>>
        BY <1>8 DEF Clock, Breaker!Tick, pvars, vars, breakerVars
    <2> QED BY <1>0, <2>1 DEF PInv, ExecuteMatchesSlot, ReportIsHandled, EndsOnlyAsHandled
<1> QED BY <1>1, <1>2, <1>3, <1>4, <1>5, <1>6, <1>7, <1>8 DEF PNext

-----------------------------------------------------------------------------

\* No rejected call, retry or restart ends an order in a way the payment gateway
\* has not answered.
THEOREM EndsAsHandled == PSpec => []EndsOnlyAsHandled
<1>1. PInv => EndsOnlyAsHandled
    BY DEF PInv
<1> QED BY <1>1, InitPInv, StepPInv, PTL DEF PSpec

-----------------------------------------------------------------------------
(* The breaker inside the worker                                            *)

\* What is proved of the breaker alone; the streak of failures is not kept here.
Alone == INSTANCE CircuitBreakerProofs WITH Callers <- Slots, failStreak <- 0

LEMMA SameConstants == /\ Alone!Threshold = Breaker!Threshold
                       /\ Alone!Recovery = Breaker!Recovery
                       /\ Alone!Passes = Breaker!Passes
BY DEF
       Alone!Normalised, Breaker!Normalised, Alone!Threshold, Breaker!Threshold,
       Alone!Recovery, Breaker!Recovery, Alone!Passes, Breaker!Passes

LEMMA SameBreaker == /\ Alone!Init = Breaker!Init
                     /\ Alone!TypeOK = Breaker!TypeOK
                     /\ Alone!CountersMatchState = Breaker!CountersMatchState
                     /\ [Alone!Next]_(Alone!vars) <=> [Breaker!Next]_(Breaker!vars)
BY DEF
       Alone!Init, Breaker!Init, Alone!TypeOK, Breaker!TypeOK, Alone!CountersMatchState,
       Breaker!CountersMatchState, Alone!Next, Breaker!Next, Alone!vars, Breaker!vars,
       Alone!breaker, Breaker!breaker, Alone!Reject, Breaker!Reject, Alone!Admit,
       Breaker!Admit, Alone!Return, Breaker!Return, Alone!Succeed, Breaker!Succeed, Alone!Fail,
       Breaker!Fail, Alone!Panic, Breaker!Panic, Alone!Observe, Breaker!Observe, Alone!Reset,
       Breaker!Reset, Alone!Tick, Breaker!Tick, Alone!Finish, Breaker!Finish, Alone!onSuccess,
       Breaker!onSuccess, Alone!onFailure, Breaker!onFailure, Alone!evaluateState,
       Breaker!evaluateState, Alone!Recovered, Breaker!Recovered, Alone!Enter, Breaker!Enter,
       Alone!Threshold, Breaker!Threshold, Alone!Recovery, Breaker!Recovery, Alone!Passes,
       Breaker!Passes, Alone!Normalised, Breaker!Normalised, Alone!State, Breaker!State,
       Alone!StateClosed, Breaker!StateClosed, Alone!StateHalfOpen, Breaker!StateHalfOpen,
       Alone!StateOpen, Breaker!StateOpen, Alone!Outcome, Breaker!Outcome

BInv == Breaker!TypeOK /\ Breaker!CountersMatchState

LEMMA SameInv == Alone!IInv <=> BInv
BY SameBreaker DEF BInv, Alone!IInv

\* Every step of the worker is, for the breaker, one of its own or none, unless the
\* daemon is restarted.
LEMMA PStepIsBreakers == [PNext]_pvars => [Breaker!Next]_(Breaker!vars) \/ Restart
<1> SUFFICES ASSUME [PNext]_pvars, ~Restart PROVE [Breaker!Next]_(Breaker!vars)
    OBVIOUS
<1> USE DEF Breaker!Next
<1>1. ASSUME NEW s \in Slots, StartAdmitted(s) \/ StartRejected(s) PROVE Breaker!Next
    BY <1>1 DEF StartAdmitted, StartRejected
<1>2. ASSUME NEW s \in Slots, FinishRejected(s) \/ LeaveExecute(s) PROVE Breaker!Next
    BY <1>2 DEF FinishRejected, LeaveExecute
<1>3. ASSUME NEW s \in Slots, NEW o \in Outcome, FinishRun(s, o) PROVE Breaker!Next
    <2>1. Breaker!Succeed(s) \/ Breaker!Panic(s) \/ Breaker!Fail(s)
        BY <1>3 DEF FinishRun, Report
    <2> QED BY <2>1
<1>4. CASE Clock
    BY <1>4 DEF Clock
<1>5. ASSUME UNCHANGED breakerVars PROVE UNCHANGED Breaker!vars
    BY <1>5 DEF breakerVars, Breaker!vars, Breaker!breaker
<1>6. ASSUME NEW s \in Slots, Send(s) PROVE UNCHANGED breakerVars
    BY <1>6 DEF Send
<1>7. CASE Apart \/ UNCHANGED pvars
    BY <1>5, <1>7 DEF Apart, pvars, breakerVars
<1> QED BY <1>1, <1>2, <1>3, <1>4, <1>5, <1>6, <1>7 DEF PNext

LEMMA InitBInv == PInit => BInv
<1>1. Alone!Init => Alone!IInv
    BY Alone!InitIInv, SettingsAreIntegers
<1> QED BY <1>1, SameBreaker, SameInv DEF PInit

LEMMA StepBInv == BInv /\ [PNext]_pvars => BInv'
<1> SUFFICES ASSUME BInv, [PNext]_pvars PROVE BInv'
    OBVIOUS
<1>1. CASE [Breaker!Next]_(Breaker!vars)
    <2>1. Alone!IInv /\ [Alone!Next]_(Alone!vars) => Alone!IInv'
        BY Alone!StepIInv, SettingsAreIntegers
    <2>2. (Alone!IInv <=> BInv) /\ (Alone!IInv <=> BInv)'
        BY SameInv, PTL
    <2> QED BY <1>1, <2>1, <2>2, SameBreaker
<1>2. CASE Restart
    <2>1. /\ Breaker!Threshold \in Nat \ {0} /\ Breaker!Recovery \in Nat \ {0}
          /\ Breaker!Passes \in Nat \ {0}
        BY Alone!ConfigPositive, SettingsAreIntegers, SameConstants
    <2>2. Breaker!TypeOK'
        BY <1>2, <2>1 DEF Restart, Breaker!TypeOK, Breaker!State, Breaker!Outcome
    <2>3. Breaker!CountersMatchState'
        BY <1>2, <2>1 DEF Restart, Breaker!CountersMatchState, Breaker!StateClosed,
                          Breaker!StateHalfOpen, Breaker!StateOpen
    <2> QED BY <2>2, <2>3 DEF BInv
<1> QED BY <1>1, <1>2, PStepIsBreakers

\* However handlers overlap, commands are lost and the daemon is restarted, the
\* counters of the breaker belong to the state it is in.
THEOREM BreakerInWorker == PSpec => []BInv
BY InitBInv, StepBInv, PTL DEF PSpec

\* Seen from either instance the gate is the same.
LEMMA SameGate ==
    [Alone!Gate!GateNext]_(Alone!Gate!gvars) <=> [Breaker!Gate!GateNext]_(Breaker!Gate!gvars)
BY DEF
       Alone!Gate!GateNext, Breaker!Gate!GateNext, Alone!Gate!gvars, Breaker!Gate!gvars,
       Alone!Gate!LetIn, Breaker!Gate!LetIn, Alone!Gate!TurnAway, Breaker!Gate!TurnAway,
       Alone!Gate!Failure, Breaker!Gate!Failure, Alone!Gate!Success, Breaker!Gate!Success,
       Alone!Gate!Vanish, Breaker!Gate!Vanish, Alone!Gate!Depart, Breaker!Gate!Depart,
       Alone!Gate!StartTrial, Breaker!Gate!StartTrial, Alone!Gate!Override,
       Breaker!Gate!Override, Alone!Gate!Wait, Breaker!Gate!Wait, Alone!Gate!Becomes,
       Breaker!Gate!Becomes, Alone!Gate!Turn, Breaker!Gate!Turn, Alone!Gate!Keep,
       Breaker!Gate!Keep, Alone!Gate!Cooled, Breaker!Gate!Cooled, Alone!GateOf, Breaker!GateOf,
       Alone!StateClosed, Breaker!StateClosed, Alone!StateOpen, Breaker!StateOpen,
       Alone!Recovery, Breaker!Recovery, Alone!Passes, Breaker!Passes, Alone!Normalised,
       Breaker!Normalised

\* The worker's payments pass a gate as BreakerGate promises it: none is made before an
\* open circuit has cooled down, and a trial ends as its calls do; a restart opens it.
THEOREM GateInWorker == PSpec => GatedPayments
<1>1. BInv /\ [PNext]_pvars => [[Breaker!Gate!GateNext]_(Breaker!Gate!gvars) \/ Restart]_pvars
    <2> SUFFICES ASSUME BInv, [PNext]_pvars, ~Restart
                 PROVE  [Breaker!Gate!GateNext]_(Breaker!Gate!gvars)
        OBVIOUS
    <2>1. Alone!IInv /\ [Alone!Next]_(Alone!vars)
        BY PStepIsBreakers, SameBreaker, SameInv
    <2> QED BY <2>1, Alone!GateStep, SettingsAreIntegers, SameGate
<1> QED BY <1>1, InitBInv, StepBInv, PTL DEF PSpec, GatedPayments
=============================================================================
