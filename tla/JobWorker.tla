------------------------------ MODULE JobWorker ------------------------------
(***************************************************************************)
(* The resilience middleware of internal/resilience/middleware.go, running   *)
(* in a worker daemon opened by internal/worker/handler.go, against the      *)
(* broker that owns the jobs.  The broker (external) is modelled by what the *)
(* worker relies on: it locks a job for WorkerTimeout when it hands it out,  *)
(* makes it available again when the lock expires, and accepts a command for *)
(* any job that is activated or available, whoever sends it.                 *)
(*                                                                         *)
(* A slot is one of the MaxJobsActive jobs the daemon holds.  The deadline of *)
(* the handler starts when the handler starts, that of the lock when the job *)
(* was handed out, and neither side sees the other's clock: both may expire  *)
(* at any time, in either order.                                            *)
(***************************************************************************)
EXTENDS Integers, FiniteSets

CONSTANTS Jobs, Slots,
          NoJob,           \* a slot that holds no job
          Concurrency,     \* handlers that run at the same time
          Retries          \* retries of the task definition

ASSUME RetriesIsPositive == Retries \in Nat \ {0}
ASSUME NoJobIsNoJob == NoJob \notin Jobs
ASSUME SlotsAreFinite == IsFiniteSet(Slots)

\* How a handler ends: variables to complete with, variables that cannot be
\* serialised, a BusinessError, any other error, a panic that was recovered.
Outcome == {"ok", "badvars", "business", "technical", "panic"}

JobState == {"activatable", "activated", "backoff", "incident", "completed", "thrown"}

NoOutcome == "none"

VARIABLES job,      \* broker: state and retries of each job
          slot      \* daemon: what each slot is doing with which snapshot

vars == <<job, slot>>

FreeSlot == [stage |-> "free", job |-> NoJob, seen |-> 0, live |-> FALSE, outcome |-> NoOutcome]

Init == /\ job = [j \in Jobs |-> [st |-> "activatable", retries |-> Retries]]
        /\ slot = [s \in Slots |-> FreeSlot]

-----------------------------------------------------------------------------
(* Broker                                                                   *)

\* A job is handed to the daemon with a snapshot of its retries.
Activate(j, s) ==
    /\ job[j].st = "activatable" /\ slot[s].stage = "free"
    /\ job' = [job EXCEPT ![j].st = "activated"]
    /\ slot' = [slot EXCEPT ![s] = [stage |-> "queued", job |-> j, seen |-> job[j].retries,
                                    live |-> FALSE, outcome |-> NoOutcome]]

LockExpire(j) == /\ job[j].st = "activated"
                 /\ job' = [job EXCEPT ![j].st = "activatable"]
                 /\ UNCHANGED slot

BackoffElapse(j) == /\ job[j].st = "backoff"
                    /\ job' = [job EXCEPT ![j].st = "activatable"]
                    /\ UNCHANGED slot

\* What a command makes of a job; FailJob with no retries left is an incident.
Executed(cmd, left, old) ==
    CASE cmd = "complete" -> [old EXCEPT !.st = "completed"]
      [] cmd = "throw"    -> [old EXCEPT !.st = "thrown"]
      [] OTHER            -> [st |-> IF left = 0 THEN "incident" ELSE "backoff", retries |-> left]

Accepts(j) == job[j].st \in {"activatable", "activated"}

-----------------------------------------------------------------------------
(* Worker                                                                   *)

\* The dispatcher starts the handler; its context starts to count now.
Start(s) == /\ slot[s].stage = "queued"
            /\ Cardinality({t \in Slots : slot[t].stage \in {"running", "sending"}}) < Concurrency
            /\ slot' = [slot EXCEPT ![s].stage = "running", ![s].live = TRUE]
            /\ UNCHANGED job

\* context.WithTimeout: the same context bounds the handler and the command.
CtxExpire(s) == /\ slot[s].stage \in {"running", "sending"} /\ slot[s].live
                /\ slot' = [slot EXCEPT ![s].live = FALSE]
                /\ UNCHANGED job

\* The handler returns, or panics and is recovered.
Finish(s, outcome) == /\ slot[s].stage = "running"
                      /\ slot' = [slot EXCEPT ![s].stage = "sending", ![s].outcome = outcome]
                      /\ UNCHANGED job

\* Mutant of Command: the error of VariablesFromMap is overlooked.
CommandIgnoresVars(outcome) == CASE outcome \in {"ok", "badvars"} -> "complete"
                                 [] outcome = "business"          -> "throw"
                                 [] OTHER                         -> "fail"

\* Step 3 of the middleware: a nil error completes the job unless its variables
\* cannot be serialised, a BusinessError is thrown, all else goes to failJob.
Command(outcome) == CASE outcome = "ok"       -> "complete"
                      [] outcome = "business" -> "throw"
                      [] OTHER                -> "fail"

\* Mutant of NewRetries: the last retry is not granted.
NewRetriesEarly(seen) == IF seen - 1 <= 1 THEN 0 ELSE seen - 1

\* Mutant of NewRetries: the count of the copy is sent back as it is.
NewRetriesKept(seen) == IF seen <= 0 THEN 0 ELSE seen

\* failJob computes the retries from the snapshot taken at activation.
NewRetries(seen) == IF seen - 1 <= 0 THEN 0 ELSE seen - 1

\* Mutant of Release: the slot keeps what it was working on.
ReleaseKeeps(s) == slot' = [slot EXCEPT ![s].stage = "free"]
Release(s) == slot' = [slot EXCEPT ![s] = FreeSlot]

\* Send reaches the broker, which executes the command or rejects it; either
\* way the middleware only logs the answer.
Deliver(s) ==
    LET j == slot[s].job IN
    /\ slot[s].stage = "sending" /\ slot[s].live
    /\ \/ /\ Accepts(j)
          /\ job' = [job EXCEPT ![j] = Executed(Command(slot[s].outcome),
                                                NewRetries(slot[s].seen), job[j])]
       \/ ~Accepts(j) /\ UNCHANGED job
    /\ Release(s)

\* Send fails at once: the context the handler used up has expired.
SendExpired(s) == /\ slot[s].stage = "sending" /\ ~slot[s].live
                  /\ Release(s) /\ UNCHANGED job

\* Send fails: the gateway is unreachable.  The error is logged, nothing else.
SendLost(s) == /\ slot[s].stage = "sending" /\ slot[s].live
               /\ Release(s) /\ UNCHANGED job

\* The daemon dies and is restarted (docker-compose: restart unless-stopped).
Crash == /\ slot' = [s \in Slots |-> FreeSlot]
         /\ UNCHANGED job

Next == \/ \E j \in Jobs, s \in Slots : Activate(j, s)
        \/ \E j \in Jobs : LockExpire(j) \/ BackoffElapse(j)
        \/ \E s \in Slots : \/ Start(s) \/ CtxExpire(s) \/ Deliver(s)
                            \/ SendExpired(s) \/ SendLost(s)
                            \/ \E o \in Outcome : Finish(s, o)
        \/ Crash

Spec == Init /\ [][Next]_vars

\* The broker hands out available jobs, its locks and backoffs end; the daemon
\* works through its queue, every handler returns and every Send ends.  Which
\* job is handed out, and how a handler ends, is left open.
Fairness ==
    /\ WF_vars(\E j \in Jobs, s \in Slots : Activate(j, s))
    /\ \A j \in Jobs : WF_vars(LockExpire(j)) /\ WF_vars(BackoffElapse(j))
    /\ \A s \in Slots : /\ WF_vars(Start(s))
                        /\ WF_vars(\E o \in Outcome : Finish(s, o))
                        /\ WF_vars(Deliver(s) \/ SendExpired(s) \/ SendLost(s))

FairSpec == Spec /\ Fairness

-----------------------------------------------------------------------------
(* Properties                                                               *)

SlotType == [stage : {"free", "queued", "running", "sending"}, job : Jobs \cup {NoJob},
             seen : 0..Retries, live : BOOLEAN, outcome : Outcome \cup {NoOutcome}]

\* A slot holds a job exactly when it is not free, an outcome exactly when it
\* has one to report; only a job out of retries is in an incident.
TypeOK == /\ job \in [Jobs -> [st : JobState, retries : 0..Retries]]
          /\ slot \in [Slots -> SlotType]
          /\ \A s \in Slots : /\ slot[s].stage = "free" <=> slot[s].job = NoJob
                              /\ slot[s].stage = "sending" <=> slot[s].outcome # NoOutcome
                              /\ slot[s].stage # "free" => slot[s].seen > 0

Settled(j) == job[j].st \in {"completed", "thrown", "incident"}

\* A result that never reaches the broker through no fault of the handler.
Losses == Crash \/ \E s \in Slots : SendLost(s)

\* The retry contract for technical failures, network timeouts included: once
\* handlers only fail that way, and no crash or network loss interferes, every
\* job spends its retries and becomes an incident (unless it settled before).
OtherEnds == \E s \in Slots : \E o \in Outcome \ {"technical"} : Finish(s, o)
FailuresRunOut == <>[][~(Losses \/ OtherEnds)]_vars => \A j \in Jobs : <>Settled(j)
=============================================================================
