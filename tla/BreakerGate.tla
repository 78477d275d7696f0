---------------------------- MODULE BreakerGate ----------------------------
(***************************************************************************)
(* What a circuit breaker promises the callers and the service behind it,   *)
(* without failure counters, locks or lazy evaluation.  A blocked gate lets  *)
(* nobody in until it has been blocked for the whole cooling period; then it *)
(* is on trial: a failure blocks it again at once, and only TrialLength      *)
(* successes with no failure between them open it (or an operator does).     *)
(***************************************************************************)
EXTENDS Integers

CONSTANTS Clients, CoolingPeriod, TrialLength

VARIABLES gate,      \* "through", "blocked" or "trial"
          waited,    \* ticks since the gate was blocked (0 when it is not)
          good,      \* successes of the present trial
          client     \* outside, inside the service, or how the call ended

gvars == <<gate, waited, good, client>>

GateInit == /\ gate = "through" /\ waited = 0 /\ good = 0
            /\ client = [c \in Clients |-> "idle"]

Becomes(c, from, to) == /\ client[c] = from
                        /\ client' = [client EXCEPT ![c] = to]
Turn(g) == gate' = g /\ waited' = 0 /\ good' = 0
Keep == UNCHANGED <<gate, waited, good>>

Cooled == gate = "blocked" /\ waited >= CoolingPeriod

\* A call gets in; the first one after the cooling period starts a trial.
LetIn(c) == /\ Becomes(c, "idle", "running")
            /\ \/ gate # "blocked" /\ Keep
               \/ Cooled /\ Turn("trial")

TurnAway(c) == /\ Becomes(c, "idle", "rejected")
               /\ gate = "blocked" /\ ~Cooled /\ Keep

\* A failure always ends a trial, and may block an open gate.
Failure(c) == /\ Becomes(c, "running", "error")
              /\ \/ gate # "blocked" /\ Turn("blocked")
                 \/ gate # "trial" /\ Keep

Success(c) == /\ Becomes(c, "running", "ok")
              /\ \/ gate # "trial" /\ Keep
                 \/ /\ gate = "trial" /\ good + 1 < TrialLength
                    /\ good' = good + 1 /\ UNCHANGED <<gate, waited>>
                 \/ /\ gate = "trial" /\ good + 1 >= TrialLength
                    /\ Turn("through")

\* A call that never reports a result changes nothing.
Vanish(c) == Becomes(c, "running", "panic") /\ Keep

Depart(c) == /\ client[c] \notin {"idle", "running"}
             /\ client' = [client EXCEPT ![c] = "idle"] /\ Keep

StartTrial == Cooled /\ Turn("trial") /\ UNCHANGED client
Override   == Turn("through") /\ UNCHANGED client

Wait == /\ gate = "blocked" /\ waited < CoolingPeriod
        /\ waited' = waited + 1
        /\ UNCHANGED <<gate, good, client>>

GateNext == \/ \E c \in Clients : \/ LetIn(c) \/ TurnAway(c) \/ Failure(c)
                                  \/ Success(c) \/ Vanish(c) \/ Depart(c)
            \/ StartTrial \/ Override \/ Wait

GateSpec == GateInit /\ [][GateNext]_gvars
=============================================================================
