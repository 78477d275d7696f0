--------------------------- MODULE OrderLifecycle ---------------------------
(***************************************************************************)
(* What both order processes promise of one order, whatever tasks, retries   *)
(* and repeated executions lie in between: it is cleared before it is charged, *)
(* charged before it is paid, paid before it is shipped; and an order that is  *)
(* refused is never charged, neither before nor after.                       *)
(***************************************************************************)
VARIABLES stage, charged

lifeVars == <<stage, charged>>

Stages == {"open", "cleared", "paid", "shipped", "refused"}

Init == stage = "open" /\ charged = FALSE

Clear  == stage = "open" /\ stage' = "cleared" /\ UNCHANGED charged

\* The gateway captures the amount, and the worker may fail to report it.
Charge == stage = "cleared" /\ charged' = TRUE /\ UNCHANGED stage

Pay    == stage = "cleared" /\ stage' = "paid" /\ charged' = TRUE
Ship   == stage = "paid" /\ stage' = "shipped" /\ UNCHANGED charged
Refuse == stage \in {"open", "cleared"} /\ ~charged /\ stage' = "refused" /\ UNCHANGED charged

Next == Clear \/ Charge \/ Pay \/ Ship \/ Refuse

Spec == Init /\ [][Next]_lifeVars
=============================================================================
