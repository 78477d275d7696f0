------------------------ MODULE CircuitBreakerProofs ------------------------
(* Theorems about CircuitBreaker for every set of callers and every         *)
(* configuration, normalised as NewCircuitBreaker does.                     *)
EXTENDS CircuitBreakerHistory, TLAPS

\* NewCircuitBreaker leaves no threshold at zero: what every proof below uses.
LEMMA ConfigPositive == /\ Threshold \in Nat \ {0}
                        /\ Recovery  \in Nat \ {0}
                        /\ Passes    \in Nat \ {0}
BY ConfigIsInteger DEF Threshold, Recovery, Passes, Normalised

IInv == TypeOK /\ CountersMatchState

LEMMA InitIInv == Init => IInv
BY ConfigPositive DEF Init, IInv, TypeOK, CountersMatchState, State,
   StateClosed, StateHalfOpen, StateOpen

\* A late result of any call preserves the invariant in any state.
LEMMA ReportIInv ==
    ASSUME IInv, NEW c \in Callers, Succeed(c) \/ Fail(c) \/ Panic(c)
    PROVE  IInv'
<1> USE ConfigPositive DEF IInv, TypeOK, CountersMatchState, State, Outcome,
        StateClosed, StateHalfOpen, StateOpen, Enter, breaker, Finish
<1>1. CASE Succeed(c)
      BY <1>1 DEF Succeed, onSuccess
<1>2. CASE Fail(c)
      BY <1>2 DEF Fail, onFailure
<1>3. CASE Panic(c)
      BY <1>3 DEF Panic
<1>. QED  BY <1>1, <1>2, <1>3

LEMMA StepIInv == IInv /\ [Next]_vars => IInv'
<1> SUFFICES ASSUME IInv, [Next]_vars PROVE IInv'
    OBVIOUS
<1> USE ConfigPositive DEF IInv, TypeOK, CountersMatchState, State, Outcome,
        StateClosed, StateHalfOpen, StateOpen, Enter, breaker
<1>1. ASSUME NEW c \in Callers, Reject(c)
      PROVE  IInv'
      BY <1>1 DEF Reject
<1>2. ASSUME NEW c \in Callers, Admit(c)
      PROVE  IInv'
      BY <1>2 DEF Admit, evaluateState, Recovered
<1>3. ASSUME NEW c \in Callers, Return(c)
      PROVE  IInv'
      BY <1>3 DEF Return
<1>4. ASSUME NEW c \in Callers, Succeed(c) \/ Fail(c) \/ Panic(c)
      PROVE  IInv'
      BY <1>4, ReportIInv
<1>5. CASE Observe
      BY <1>5 DEF Observe, evaluateState, Recovered
<1>6. CASE Reset
      BY <1>6 DEF Reset
<1>7. CASE Tick
      BY <1>7 DEF Tick
<1>8. CASE UNCHANGED vars
      BY <1>8 DEF vars
<1>. QED  BY <1>1, <1>2, <1>3, <1>4, <1>5, <1>6, <1>7, <1>8 DEF Next

\* The fields of the breaker keep their types.
THEOREM TypeCorrect == Spec => []TypeOK
<1>1. IInv => TypeOK
      BY DEF IInv
<1>. QED  BY <1>1, InitIInv, StepIInv, PTL DEF Spec

\* The counters belong to the current state, whatever results arrive late.
THEOREM CountersCorrect == Spec => []CountersMatchState
<1>1. IInv => CountersMatchState
      BY DEF IInv
<1>. QED  BY <1>1, InitIInv, StepIInv, PTL DEF Spec

-----------------------------------------------------------------------------
(* Trips only on a streak of failures                                       *)

HInv == IInv /\ StreakBound

LEMMA InitHInv == HInit => HInv
BY InitIInv, ConfigPositive DEF HInit, HInv, StreakBound, Init, StateClosed

\* Outcomes are reported by Succeed, Fail and Panic and by nothing else.
LEMMA ReportedOnlyByFinish ==
    ASSUME TypeOK, Next,
           ~ \E c \in Callers : Succeed(c) \/ Fail(c) \/ Panic(c)
    PROVE  ~Reported("error") /\ ~Reported("ok")
BY DEF Next, Reported, TypeOK, Reject, Admit, Return, Observe, Reset, Tick, Outcome

LEMMA SucceedReports ==
    ASSUME TypeOK, NEW c \in Callers, Succeed(c)
    PROVE  Reported("ok") /\ ~Reported("error")
BY DEF Reported, TypeOK, Succeed, Finish

LEMMA FailReports ==
    ASSUME TypeOK, NEW c \in Callers, Fail(c)
    PROVE  Reported("error") /\ ~Reported("ok")
BY DEF Reported, TypeOK, Fail, Finish

LEMMA PanicReports ==
    ASSUME TypeOK, NEW c \in Callers, Panic(c)
    PROVE  ~Reported("error") /\ ~Reported("ok")
BY DEF Reported, TypeOK, Panic, Finish

\* A step that reports nothing leaves consecutiveFails alone or clears it.
LEMMA QuietStep ==
    ASSUME IInv, Next,
           ~ \E c \in Callers : Succeed(c) \/ Fail(c) \/ Panic(c)
    PROVE  /\ state' = StateClosed => \/ consecutiveFails' = 0
                                      \/ state = StateClosed /\ consecutiveFails' = consecutiveFails
           /\ state' = StateOpen => state = StateOpen
BY DEF Next, IInv, TypeOK, Reject, Admit, Return, Observe, Reset, Tick, evaluateState,
   Enter, breaker, StateClosed, StateOpen, StateHalfOpen

LEMMA StepHInv == HInv /\ [HNext]_hvars =>
    /\ HInv'
    /\ state = StateClosed /\ state' = StateOpen => failStreak' = Threshold
<1> SUFFICES ASSUME HInv, [HNext]_hvars
             PROVE  /\ StreakBound'
                    /\ state = StateClosed /\ state' = StateOpen => failStreak' = Threshold
    BY StepIInv DEF HInv, HNext, hvars
<1> USE ConfigPositive DEF HInv, IInv, TypeOK, CountersMatchState, StreakBound,
        StateClosed, StateHalfOpen, StateOpen
<1>1. CASE UNCHANGED hvars
      BY <1>1 DEF hvars, vars, breaker
<1>2. ASSUME Next, Record, NEW c \in Callers, Succeed(c)
      PROVE  /\ StreakBound'
             /\ state = StateClosed /\ state' = StateOpen => failStreak' = Threshold
      <2>1. failStreak' = 0
            BY <1>2, SucceedReports DEF Record
      <2>2. state' # StateOpen \/ state = StateOpen
            BY <1>2 DEF Succeed, onSuccess, Enter, breaker
      <2>3. state' = StateClosed => consecutiveFails' = 0
            BY <1>2 DEF Succeed, onSuccess, Enter, breaker
      <2>. QED  BY <2>1, <2>2, <2>3
<1>3. ASSUME Next, Record, NEW c \in Callers, Fail(c)
      PROVE  /\ StreakBound'
             /\ state = StateClosed /\ state' = StateOpen => failStreak' = Threshold
      <2>1. failStreak' = IF failStreak < Threshold THEN failStreak + 1 ELSE Threshold
            BY <1>3, FailReports DEF Record
      <2>2. state' = StateClosed => /\ state = StateClosed
                                    /\ consecutiveFails' = consecutiveFails + 1
                                    /\ consecutiveFails + 1 < Threshold
            BY <1>3 DEF Fail, onFailure, Enter, breaker
      <2>3. state = StateClosed /\ state' = StateOpen => consecutiveFails + 1 >= Threshold
            BY <1>3 DEF Fail, onFailure, Enter, breaker
      <2>. QED  BY <2>1, <2>2, <2>3
<1>4. ASSUME Next, Record, NEW c \in Callers, Panic(c)
      PROVE  /\ StreakBound'
             /\ state = StateClosed /\ state' = StateOpen => failStreak' = Threshold
      <2>1. failStreak' = failStreak
            BY <1>4, PanicReports DEF Record
      <2>. QED  BY <2>1, <1>4 DEF Panic, breaker
<1>5. ASSUME Next, Record, ~ \E c \in Callers : Succeed(c) \/ Fail(c) \/ Panic(c)
      PROVE  /\ StreakBound'
             /\ state = StateClosed /\ state' = StateOpen => failStreak' = Threshold
      <2>1. failStreak' = failStreak
            BY <1>5, ReportedOnlyByFinish DEF Record
      <2>. QED  BY <2>1, <1>5, QuietStep
<1>. QED  BY <1>1, <1>2, <1>3, <1>4, <1>5 DEF HNext

\* The breaker never believes in more consecutive failures than there were.
THEOREM StreakCorrect == HSpec => []StreakBound
<1>1. HInv => StreakBound
      BY DEF HInv
<1>. QED  BY <1>1, InitHInv, StepHInv, PTL DEF HSpec

\* FailureThreshold counts consecutive failures, over all goroutines.
THEOREM TripsCorrect == HSpec => TripsOnlyOnStreak
<1>1. HInv /\ [HNext]_hvars =>
          [state = StateClosed /\ state' = StateOpen => failStreak' = Threshold]_hvars
      BY StepHInv
<1>2. HInv /\ [HNext]_hvars => HInv'
      BY StepHInv
<1>. QED  BY <1>1, <1>2, InitHInv, PTL DEF HSpec, TripsOnlyOnStreak

-----------------------------------------------------------------------------
(* CircuitBreaker implements BreakerGate                                    *)

LEMMA GateInitStep == Init => Gate!GateInit
BY DEF Init, Gate!GateInit, GateOf, StateClosed, StateOpen

\* Every step of the breaker is a step of the gate or leaves it unchanged.
LEMMA GateStep == IInv /\ [Next]_vars => [Gate!GateNext]_Gate!gvars
<1> SUFFICES ASSUME IInv, [Next]_vars PROVE [Gate!GateNext]_Gate!gvars
    OBVIOUS
<1> USE ConfigPositive DEF IInv, TypeOK, CountersMatchState, State, Outcome,
        StateClosed, StateHalfOpen, StateOpen, Enter, breaker, GateOf,
        Gate!gvars, Gate!Turn, Gate!Keep, Gate!Becomes, Gate!Cooled
<1>1. ASSUME NEW c \in Callers, Reject(c)
      PROVE  Gate!TurnAway(c)
      BY <1>1 DEF Reject, Recovered, Gate!TurnAway
<1>2. ASSUME NEW c \in Callers, Admit(c)
      PROVE  Gate!LetIn(c)
      BY <1>2 DEF Admit, evaluateState, Recovered, Gate!LetIn
<1>3. ASSUME NEW c \in Callers, Return(c)
      PROVE  Gate!Depart(c)
      BY <1>3 DEF Return, Gate!Depart
<1>4. ASSUME NEW c \in Callers, Succeed(c)
      PROVE  Gate!Success(c)
      BY <1>4 DEF Succeed, Finish, onSuccess, Gate!Success
<1>5. ASSUME NEW c \in Callers, Fail(c)
      PROVE  Gate!Failure(c)
      BY <1>5 DEF Fail, Finish, onFailure, Gate!Failure
<1>6. ASSUME NEW c \in Callers, Panic(c)
      PROVE  Gate!Vanish(c)
      BY <1>6 DEF Panic, Finish, Gate!Vanish
<1>7. CASE Observe
      <2>1. CASE Recovered
            BY <1>7, <2>1 DEF Observe, evaluateState, Recovered, Gate!StartTrial, Gate!GateNext
      <2>2. CASE ~Recovered
            BY <1>7, <2>2 DEF Observe, evaluateState
      <2>. QED  BY <2>1, <2>2 DEF Gate!GateNext
<1>8. CASE Reset
      BY <1>8 DEF Reset, Gate!Override, Gate!GateNext
<1>9. CASE Tick
      <2>1. CASE state = StateOpen
            BY <1>9, <2>1 DEF Tick, Gate!Wait, Gate!GateNext
      <2>2. CASE state # StateOpen
            BY <1>9, <2>2 DEF Tick
      <2>. QED  BY <2>1, <2>2
<1>10. CASE UNCHANGED vars
      BY <1>10 DEF vars
<1>. QED  BY <1>1, <1>2, <1>3, <1>4, <1>5, <1>6, <1>7, <1>8, <1>9, <1>10
          DEF Next, Gate!GateNext

\* The promise of the gate: nobody gets in before the cooling period is over,
\* a failure ends a trial, and only a full row of successes opens the gate.
THEOREM RefinesGate == Spec => ImplementsGate
BY InitIInv, StepIInv, GateInitStep, GateStep, PTL DEF Spec, ImplementsGate, Gate!GateSpec
=============================================================================
