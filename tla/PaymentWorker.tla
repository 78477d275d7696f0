---------------------------- MODULE PaymentWorker ----------------------------
(***************************************************************************)
(* The process-payment worker: the middleware of JobWorker with the circuit  *)
(* breaker of CircuitBreaker around its handler, as RegisterWorkers wires     *)
(* them.  Every slot is a caller of the one breaker.  A step of the worker    *)
(* that enters or leaves Execute is a joint step with the breaker.           *)
(***************************************************************************)
EXTENDS JobWorker

CONSTANTS FailureThreshold, RecoveryTimeout, SuccessThreshold

ASSUME SettingsAreIntegers == {FailureThreshold, RecoveryTimeout, SuccessThreshold} \subseteq Int

VARIABLES state, consecutiveFails, consecutivePasses, elapsed, call,
          handled      \* history: what the gateway has answered, for each job

\* Answers of the gateway that the history tells apart.
Answers == {"ok", "business", "technical"}

Breaker == INSTANCE CircuitBreakerGate WITH Callers <- Slots

breakerVars == <<state, consecutiveFails, consecutivePasses, elapsed, call>>
pvars == <<vars, breakerVars, handled>>

PInit == Init /\ Breaker!Init /\ handled = [j \in Jobs |-> {}]

\* Mutant of StartAdmitted: the handler runs before Execute has looked at the circuit.
StartUngated(s) == /\ Start(s) /\ call[s] = "idle" /\ call' = [call EXCEPT ![s] = "running"]
                   /\ UNCHANGED <<state, consecutiveFails, consecutivePasses, elapsed, handled>>

\* The handler is started and Execute lets it through, or rejects it.
StartAdmitted(s) == Start(s) /\ Breaker!Admit(s) /\ UNCHANGED handled
StartRejected(s) == Start(s) /\ Breaker!Reject(s) /\ UNCHANGED handled

\* Mutant of RejectedOutcome: cbErr is not assigned to err.
RejectedIgnored == "ok"

\* ErrCircuitOpen is an error like any other to the middleware.
RejectedOutcome == "technical"
\* Mutant of FinishRejected: the caller waits for the circuit to close.
RejectedWaits(s) == /\ Breaker!Return(s) /\ call[s] = "rejected" /\ state = Breaker!StateClosed
                    /\ Finish(s, RejectedOutcome) /\ UNCHANGED handled
FinishRejected(s) == /\ Breaker!Return(s) /\ call[s] = "rejected"
                     /\ Finish(s, RejectedOutcome) /\ UNCHANGED handled

\* What Execute makes of the handler's result.  It sees any error as a failure,
\* the business errors of the gateway included; variables that turn out not to
\* be serialisable later count as a success.
Report(s, outcome) == CASE outcome \in {"ok", "badvars"} -> Breaker!Succeed(s)
                        [] outcome = "panic"             -> Breaker!Panic(s)
                        [] OTHER                         -> Breaker!Fail(s)

FinishRun(s, outcome) == /\ Report(s, outcome) /\ Finish(s, outcome)
                         /\ handled' = [handled EXCEPT ![slot[s].job] = @ \cup ({outcome} \cap Answers)]

\* The caller has left Execute and the slot now talks to the broker only.
LeaveExecute(s) == /\ call[s] \in {"ok", "error", "panic"} /\ Breaker!Return(s)
                   /\ UNCHANGED <<vars, handled>>

Send(s) == /\ call[s] = "idle"
           /\ Deliver(s) \/ SendExpired(s) \/ SendLost(s)
           /\ UNCHANGED <<breakerVars, handled>>

\* Steps of the broker and the clocks that do not concern the breaker.
Apart == /\ \/ \E j \in Jobs, s \in Slots : Activate(j, s)
            \/ \E j \in Jobs : LockExpire(j) \/ BackoffElapse(j)
            \/ \E s \in Slots : CtxExpire(s)
         /\ UNCHANGED <<breakerVars, handled>>

Clock == Breaker!Tick /\ UNCHANGED <<vars, handled>>

\* A restarted daemon has lost its slots and starts with a closed circuit.
Restart == /\ Crash
           /\ state' = Breaker!StateClosed /\ consecutiveFails' = 0
           /\ consecutivePasses' = 0 /\ elapsed' = 0
           /\ call' = [s \in Slots |-> "idle"]
           /\ UNCHANGED handled

PNext == \/ \E s \in Slots : \/ StartAdmitted(s) \/ StartRejected(s) \/ FinishRejected(s)
                             \/ LeaveExecute(s) \/ Send(s)
                             \/ \E o \in Outcome : FinishRun(s, o)
         \/ Apart \/ Clock \/ Restart

PSpec == PInit /\ [][PNext]_pvars

\* The fairness of JobWorker and of CircuitBreaker.
PFairness ==
    /\ WF_pvars(Apart /\ \E j \in Jobs, s \in Slots : Activate(j, s))
    /\ \A j \in Jobs : /\ WF_pvars(Apart /\ LockExpire(j))
                       /\ WF_pvars(Apart /\ BackoffElapse(j))
    /\ \A s \in Slots : /\ WF_pvars(StartAdmitted(s) \/ StartRejected(s))
                        /\ WF_pvars(FinishRejected(s) \/ \E o \in Outcome : FinishRun(s, o))
                        /\ WF_pvars(LeaveExecute(s)) /\ WF_pvars(Send(s))
    /\ WF_pvars(Clock)

PFairSpec == PSpec /\ PFairness

-----------------------------------------------------------------------------
(* Properties                                                               *)

\* No order is completed as paid, and no BPMN error is raised, unless the payment
\* handler itself said so: a call the breaker rejected is never taken for a
\* result, through any sequence of retries, lock expiries and restarts.
EndsOnlyAsHandled == \A j \in Jobs : /\ job[j].st = "completed" => "ok" \in handled[j]
                                     /\ job[j].st = "thrown"    => "business" \in handled[j]

\* Wired around the handler, the breaker still keeps the promise of BreakerGate: no
\* payment is attempted before an open circuit has cooled down, and a trial ends as the
\* handlers of its own slots end, however the slots overlap, lose their locks and report
\* late.  Only a restart opens the gate out of turn: the circuit is not persisted.
GatedPayments == [][[Breaker!Gate!GateNext]_(Breaker!Gate!gvars) \/ Restart]_pvars

\* An open circuit does not hold jobs up for ever: with the breaker in the way
\* every job still settles, if deadlines are kept and nothing is lost.
SettlesBehindBreaker ==
    <>[][~(Restart \/ \E s \in Slots : CtxExpire(s) \/ SendLost(s))]_pvars
        => \A j \in Jobs : <>Settled(j)
=============================================================================
