----------------------------- MODULE RetryBudget -----------------------------
(***************************************************************************)
(* RetrySchedule with an account of the retries: the failure reports that the  *)
(* broker has executed for each job, and the locks of the job that expired,    *)
(* each of which may leave a slot with an old copy of it.                     *)
(***************************************************************************)
EXTENDS RetrySchedule

CONSTANT Expiries         \* the lock expiries of a job up to which it is followed

ASSUME ExpiriesIsPositive == Expiries \in Nat \ {0}

VARIABLES spent, expired

bvars == <<svars, spent, expired>>

BInit == /\ SInit
         /\ spent = [j \in Jobs |-> 0]
         /\ expired = [j \in Jobs |-> 0]

\* The lock of j expires in this step; a report of its failure is executed.
Expiring(j)  == job[j].st = "activated" /\ job'[j].st = "activatable"
Reported(j) == /\ job[j].st \in {"activated", "activatable"}
               /\ job'[j].st \in {"backoff", "incident"}

\* A job is followed until its locks have expired Expiries times.
Followed(j) == expired[j] < Expiries

Account ==
    /\ expired' = [j \in Jobs |-> IF Followed(j) /\ Expiring(j) THEN expired[j] + 1 ELSE expired[j]]
    /\ spent' = [j \in Jobs |-> IF ~Followed(j)' THEN 0
                                ELSE IF Reported(j) THEN spent[j] + 1 ELSE spent[j]]

BNext == SNext /\ Account
BSpec == BInit /\ [][BNext]_bvars

\* Every failure report costs a retry.  One made from an old copy of the job may give
\* back retries that others have spent since, but for that a lock must have expired,
\* and all that can come back for one lock are the retries of the job but the one its
\* own report costs: it fails Retries times, and Retries - 1 times more for each lock
\* that expired, and is an incident then.
RetriesAreSpent == \A j \in Jobs :
    Followed(j) => spent[j] + job[j].retries <= Retries + (Retries - 1) * expired[j]
=============================================================================
