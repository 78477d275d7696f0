----------------------------- MODULE MCTaskFeed -----------------------------
(* An instance of TaskFeed for TLC: a page with two searches in flight; its   *)
(* request and the reviewer command compete for one task.                    *)
EXTENDS TaskFeed

CONSTANTS t1, r1, q1, q2

OneTask    == {t1}
OneRequest == {r1}
TwoQueries == {q1, q2}
=============================================================================
