---------------------------- MODULE MCTaskReview ----------------------------
(* An instance of TaskReview for TLC: two requests of the web UI and the      *)
(* reviewer command compete for one task.                                     *)
EXTENDS TaskReview

CONSTANTS t1, r1, r2

OneTask     == {t1}
TwoRequests == {r1, r2}
=============================================================================
