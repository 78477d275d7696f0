--------------------------- MODULE CircuitBreaker ---------------------------
(***************************************************************************)
(* The circuit breaker of internal/resilience/circuitbreaker.go, shared by *)
(* the goroutines (Callers) that run jobs of one worker.  Every section the *)
(* code executes under cb.mu is one action; the protected call itself runs  *)
(* outside the lock, so any number of sections of other callers can fall    *)
(* between the admission of a call and the report of its result.            *)
(*                                                                         *)
(* Time: `elapsed` is the number of ticks since lastStateChange.  The code  *)
(* only compares it with the recovery timeout, so it saturates there and    *)
(* no behaviour is lost.                                                    *)
(***************************************************************************)
EXTENDS Integers

CONSTANTS Callers,            \* goroutines that may call Execute
          FailureThreshold,   \* CircuitBreakerConfig as given; zero or
          RecoveryTimeout,    \* negative values select the defaults
          SuccessThreshold

ASSUME ConfigIsInteger == /\ FailureThreshold \in Int
                          /\ RecoveryTimeout  \in Int
                          /\ SuccessThreshold \in Int

StateClosed   == "CLOSED"
StateHalfOpen == "HALF-OPEN"
StateOpen     == "OPEN"
State == {StateClosed, StateHalfOpen, StateOpen}

\* The configuration NewCircuitBreaker normalises (10 seconds: 10 ticks).
Normalised(given, default) == IF given <= 0 THEN default ELSE given
Threshold == Normalised(FailureThreshold, 3)
Recovery  == Normalised(RecoveryTimeout, 10)
Passes    == Normalised(SuccessThreshold, 2)

\* How an execution ends: ErrCircuitOpen, nil, the error of the action, or a
\* panic that leaves through Execute.
Outcome == {"rejected", "ok", "error", "panic"}

VARIABLES state, consecutiveFails, consecutivePasses, elapsed,
          call                \* where each goroutine is in Execute

breaker == <<state, consecutiveFails, consecutivePasses, elapsed>>
vars    == <<breaker, call>>

Init == /\ state = StateClosed
        /\ consecutiveFails = 0
        /\ consecutivePasses = 0
        /\ elapsed = 0
        /\ call = [c \in Callers |-> "idle"]

-----------------------------------------------------------------------------
\* Mutant of Recovered: the timeout is not waited for.
RecoveredAtOnce == state = StateOpen

\* The recovery timeout of an open circuit is over.
Recovered == state = StateOpen /\ elapsed >= Recovery

\* Every assignment to state also stamps lastStateChange.
Enter(s, fails, passes) == /\ state' = s
                           /\ consecutiveFails' = fails
                           /\ consecutivePasses' = passes
                           /\ elapsed' = 0

evaluateState == \/ Recovered /\ Enter(StateHalfOpen, 0, 0)
                 \/ ~Recovered /\ UNCHANGED breaker

\* Mutant of Reject: a rejection restarts the recovery timeout.
RejectRestarts(c) == /\ call[c] = "idle"
                     /\ state = StateOpen /\ ~Recovered
                     /\ call' = [call EXCEPT ![c] = "rejected"]
                     /\ Enter(StateOpen, consecutiveFails, consecutivePasses)

\* First locked section of Execute: the call is rejected with ErrCircuitOpen...
Reject(c) == /\ call[c] = "idle"
             /\ state = StateOpen /\ ~Recovered
             /\ call' = [call EXCEPT ![c] = "rejected"]
             /\ UNCHANGED breaker

\* ... or it is let through, possibly as the probe that half-opens the circuit.
Admit(c) == /\ call[c] = "idle"
            /\ state # StateOpen \/ Recovered
            /\ evaluateState
            /\ call' = [call EXCEPT ![c] = "running"]

\* Execute has returned (or unwound) and the caller has its outcome.
Return(c) == /\ call[c] \in Outcome
             /\ call' = [call EXCEPT ![c] = "idle"]
             /\ UNCHANGED breaker

\* Mutants of onSuccess: a success pays off one failure instead of all; no
\* failure at all; successes of a half-open circuit are not counted.
onSuccessDecays ==
    \/ state = StateClosed /\ consecutiveFails' = consecutiveFails - 1
       /\ UNCHANGED <<state, consecutivePasses, elapsed>>
    \/ state # StateClosed /\ UNCHANGED breaker
onSuccessNoReset ==
    \/ state = StateHalfOpen /\ Enter(StateClosed, 0, 0)
    \/ state # StateHalfOpen /\ UNCHANGED breaker
onSuccessUncounted ==
    \/ state = StateClosed /\ consecutiveFails' = 0
       /\ UNCHANGED <<state, consecutivePasses, elapsed>>
    \/ state # StateClosed /\ UNCHANGED breaker

onSuccess ==
    \/ /\ state = StateClosed
       /\ consecutiveFails' = 0
       /\ UNCHANGED <<state, consecutivePasses, elapsed>>
    \/ /\ state = StateHalfOpen /\ consecutivePasses + 1 >= Passes
       /\ Enter(StateClosed, 0, 0)
    \/ /\ state = StateHalfOpen /\ consecutivePasses + 1 < Passes
       /\ consecutivePasses' = consecutivePasses + 1
       /\ UNCHANGED <<state, consecutiveFails, elapsed>>
    \/ state = StateOpen /\ UNCHANGED breaker

\* Mutants of onFailure: reopening keeps the passes of the half-open episode;
\* the circuit trips one failure early.
onFailureKeepsPasses ==
    \/ state = StateClosed /\ Enter(StateOpen, Threshold, 0)
    \/ state = StateHalfOpen /\ Enter(StateOpen, 0, consecutivePasses)
    \/ state = StateOpen /\ UNCHANGED breaker
onFailureEarly ==
    \/ state = StateClosed /\ consecutiveFails + 2 >= Threshold
       /\ Enter(StateOpen, consecutiveFails + 1, 0)
    \/ state = StateClosed /\ consecutiveFails + 2 < Threshold
       /\ consecutiveFails' = consecutiveFails + 1
       /\ UNCHANGED <<state, consecutivePasses, elapsed>>
    \/ state = StateHalfOpen /\ Enter(StateOpen, 0, 0)
    \/ state = StateOpen /\ UNCHANGED breaker

onFailure ==
    \/ /\ state = StateClosed /\ consecutiveFails + 1 >= Threshold
       /\ Enter(StateOpen, consecutiveFails + 1, 0)
    \/ /\ state = StateClosed /\ consecutiveFails + 1 < Threshold
       /\ consecutiveFails' = consecutiveFails + 1
       /\ UNCHANGED <<state, consecutivePasses, elapsed>>
    \/ state = StateHalfOpen /\ Enter(StateOpen, 0, 0)
    \/ state = StateOpen /\ UNCHANGED breaker

\* Second locked section of Execute: the action has returned.  The state is
\* read afresh; nothing ties the result to the state the call was admitted in.
Finish(c, outcome) == /\ call[c] = "running"
                      /\ call' = [call EXCEPT ![c] = outcome]
Succeed(c) == Finish(c, "ok") /\ onSuccess
Fail(c)    == Finish(c, "error") /\ onFailure

\* A panic unwinds Execute between its two locked sections (no defer), so the
\* breaker never learns of the call; the middleware recovers it.
Panic(c) == Finish(c, "panic") /\ UNCHANGED breaker

\* State() evaluates the recovery timeout as a side effect.
Observe == evaluateState /\ UNCHANGED call

Reset == Enter(StateClosed, 0, 0) /\ UNCHANGED call

Tick == /\ elapsed < Recovery
        /\ elapsed' = elapsed + 1
        /\ UNCHANGED <<state, consecutiveFails, consecutivePasses, call>>

Attempt(c) == Reject(c) \/ Admit(c)

Next == \/ \E c \in Callers : \/ Reject(c) \/ Admit(c) \/ Return(c)
                              \/ Succeed(c) \/ Fail(c) \/ Panic(c)
        \/ Observe \/ Reset \/ Tick

Spec == Init /\ [][Next]_vars

\* The clock runs, and every call that was let through returns (the context of
\* a job has a deadline, and a caller that was rejected has nothing to wait for).
Fairness == /\ WF_vars(Tick)
            /\ \A c \in Callers : /\ WF_vars(Return(c))
                                  /\ WF_vars(Succeed(c) \/ Fail(c) \/ Panic(c))

FairSpec == Spec /\ Fairness

-----------------------------------------------------------------------------
(* Properties                                                              *)

\* Types of the fields of CircuitBreaker and of the callers' positions.
TypeOK == /\ state \in State
          /\ consecutiveFails \in Nat
          /\ consecutivePasses \in Nat
          /\ elapsed \in 0..Recovery
          /\ call \in [Callers -> {"idle", "running"} \cup Outcome]

\* A counter is meaningful only in the state that uses it: below its threshold
\* there, and never left over from an earlier episode when a state is entered.
\* Late results of calls admitted in another state must not break this.
CountersMatchState ==
    /\ state = StateClosed   => consecutiveFails < Threshold /\ consecutivePasses = 0
    /\ state = StateHalfOpen => consecutiveFails = 0 /\ consecutivePasses < Passes
    /\ state = StateOpen     => consecutiveFails \in {0, Threshold} /\ consecutivePasses = 0

\* While an outage lasts the breaker keeps sending probes: as long as callers
\* keep coming, calls are let through again and again, whatever their results.
KeepsProbing == ([]<><<\E c \in Callers : Attempt(c)>>_vars)
                   => []<><<\E c \in Callers : Admit(c)>>_vars

\* Recovery: once calls stop failing and nobody resets the breaker, continued
\* traffic closes the circuit, and it stays closed.
Recovers == (/\ <>[][~(Reset \/ \E c \in Callers : Fail(c) \/ Panic(c))]_vars
             /\ []<><<\E c \in Callers : Attempt(c)>>_vars)
                => <>[](state = StateClosed)
=============================================================================
