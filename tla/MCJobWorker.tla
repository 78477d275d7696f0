----------------------------- MODULE MCJobWorker -----------------------------
(* Instances of JobWorker for TLC's liveness and action properties.         *)
EXTENDS JobWorker

CONSTANTS j1, j2, s1, s2

OneJob   == {j1}
TwoJobs  == {j1, j2}
TwoSlots == {s1, s2}
=============================================================================
