-------------------------- MODULE JobWorkerHistory --------------------------
(***************************************************************************)
(* JobWorker with what the handlers reported: which outcomes each job had,   *)
(* and how many of its executions failed (saturating at Retries).            *)
(***************************************************************************)
EXTENDS JobWorker

VARIABLES returned, failures

hvars == <<vars, returned, failures>>

\* The slots whose handler ends in this step, working on job j.
Ending(j) == {s \in Slots : /\ slot[s].stage = "running" /\ slot'[s].stage = "sending"
                            /\ slot[s].job = j}

Failed == Outcome \ {"ok", "business"}

Record ==
    /\ returned' = [j \in Jobs |-> returned[j] \cup {slot'[s].outcome : s \in Ending(j)}]
    /\ failures' = [j \in Jobs |->
           IF /\ failures[j] < Retries
              /\ \E s \in Ending(j) : slot'[s].outcome \in Failed
           THEN failures[j] + 1 ELSE failures[j]]

HInit == /\ Init
         /\ returned = [j \in Jobs |-> {}]
         /\ failures = [j \in Jobs |-> 0]
HNext == Next /\ Record
HSpec == HInit /\ [][HNext]_hvars

\* A job ends in the way one of its executions really ended: lost commands,
\* stale workers and repeated executions never complete a job no handler
\* finished, nor throw an error no handler raised.
EndJustified == \A j \in Jobs :
    /\ job[j].st = "completed" => "ok" \in returned[j]
    /\ job[j].st = "thrown"    => "business" \in returned[j]

\* No incident before the job has really failed Retries times: retries are
\* never spent twice for one failure, although several slots may report on the
\* same job from snapshots of different age.
RetriesPaidFor == \A j \in Jobs : Retries - failures[j] <= job[j].retries

HTypeOK == /\ returned \in [Jobs -> SUBSET Outcome]
           /\ failures \in [Jobs -> 0..Retries]

\* What keeps these two: every snapshot in the daemon is as well founded as the
\* broker's own record, and every outcome to be sent has been returned.
SlotFounded(s) ==
    slot[s].stage # "free" =>
        LET mine == IF slot[s].outcome \in Failed THEN 1 ELSE 0
        IN  /\ Retries - failures[slot[s].job] <= slot[s].seen - mine
            /\ slot[s].stage = "sending" => slot[s].outcome \in returned[slot[s].job]

HInv == /\ HTypeOK /\ EndJustified /\ RetriesPaidFor
        /\ \A s \in Slots : SlotFounded(s)
=============================================================================
