----------------------- MODULE CircuitBreakerHistory -----------------------
(***************************************************************************)
(* CircuitBreaker with a history variable that an observer of the outcomes  *)
(* alone could keep: how many failures have been reported in a row, over all *)
(* callers and whatever the state of the circuit.  It saturates at the       *)
(* threshold, the only value it is compared with.                            *)
(***************************************************************************)
EXTENDS CircuitBreakerGate

VARIABLE failStreak

hvars == <<vars, failStreak>>

Reported(outcome) == \E c \in Callers : call[c] = "running" /\ call'[c] = outcome

Record ==
    \/ /\ Reported("error")
       /\ failStreak' = IF failStreak < Threshold THEN failStreak + 1 ELSE Threshold
    \/ Reported("ok") /\ failStreak' = 0
    \/ ~Reported("error") /\ ~Reported("ok") /\ UNCHANGED failStreak

HInit == Init /\ failStreak = 0
HNext == Next /\ Record
HSpec == HInit /\ [][HNext]_hvars
HFairSpec == HSpec /\ Fairness

\* The breaker never counts more failures than were reported in a row.
StreakBound == /\ failStreak \in 0..Threshold
               /\ state = StateClosed => consecutiveFails <= failStreak

\* The circuit trips only on FailureThreshold consecutive failures: however the
\* calls of different goroutines overlap, late results of an earlier episode
\* never make it open on fewer.
TripsOnlyOnStreak ==
    [][state = StateClosed /\ state' = StateOpen => failStreak' = Threshold]_hvars
=============================================================================
