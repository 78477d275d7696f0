-------------------------- MODULE MCCircuitBreaker --------------------------
(* An instance of CircuitBreaker, its history and its refinement for TLC.   *)
EXTENDS CircuitBreakerHistory

CONSTANTS c1, c2, c3

ThreeCallers == {c1, c2, c3}
=============================================================================
