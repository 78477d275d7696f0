---------------------------- MODULE RetrySchedule ----------------------------
(***************************************************************************)
(* JobWorkerHistory with the copy each backoff was computed from.  failJob     *)
(* derives the interval from the copy of the job in its slot, so that reports  *)
(* that cross each other also carry intervals of different age.              *)
(***************************************************************************)
EXTENDS JobWorkerHistory, Backoff

CONSTANT Environments     \* settings of BACKOFF_* a daemon may be started with

ASSUME SettingsAreNumbers ==
    Environments \subseteq [initial : SUBSET Int, max : SUBSET Int, retries : SUBSET Int]

\* The attempt is computed in 32 bits without a check.  A BACKOFF_MAX_RETRIES that
\* the conversion turns into a number near -2^31 would make the difference wrap too,
\* and the first failure wait as long as the last; no such setting is considered.
ASSUME DifferenceFits ==
    \A env \in Environments : InitialRetries(Config(env)) - Retries >= -Word

VARIABLE asked            \* retries in the copy a job's backoff was computed from, or 0

svars == <<hvars, asked>>

SInit == HInit /\ asked = [j \in Jobs |-> 0]

\* The slot whose command the broker executes in this step.
Reporting(j) == CHOOSE s \in Slots : /\ slot[s].job = j /\ slot[s].stage = "sending"
                                     /\ slot'[s].stage = "free"

Schedule == asked' = [j \in Jobs |->
                IF job'[j].st # "backoff" THEN 0
                ELSE IF job[j].st = "backoff" THEN asked[j] ELSE slot[Reporting(j)].seen]

SNext == HNext /\ Schedule
SSpec == SInit /\ [][SNext]_svars

\* A job waits for what it has failed, and no longer than it is configured to: after
\* its n-th failure at most the (n-1)-th doubling of the initial interval, moved by
\* the difference between the configured retries and those of the task, whatever
\* copies of the job the reports that led to it were made from.
WaitsAsFailed ==
    \A j \in Jobs : job[j].st = "backoff" =>
        \A env \in Environments :
            LET b     == NewExponentialBackoff(Config(env))
                wait  == AskedFor(Config(env), asked[j])
                early == InitialRetries(Config(env)) - Retries
                nth   == early + failures[j] - 1
            IN  /\ wait \in 1..b.max
                /\ wait <= b.initial * 2^(IF nth < 0 THEN 0 ELSE nth)
=============================================================================
