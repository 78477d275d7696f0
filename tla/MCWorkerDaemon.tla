--------------------------- MODULE MCWorkerDaemon ---------------------------
(* An instance of WorkerDaemon for TLC: two job types, so that one worker is  *)
(* closed while the other takes jobs, and one job of each; the worker that is  *)
(* closed first can hold its job twice.                                      *)
EXTENDS WorkerDaemon

CONSTANTS j1, j2, s1, s2, s3

TwoJobs    == {j1, j2}
ThreeSlots == {s1, s2, s3}
TheServes  == [s \in ThreeSlots |-> IF s = s3 THEN 2 ELSE 1]
TheKind    == [j \in TwoJobs |-> IF j = j1 THEN 1 ELSE 2]
=============================================================================
