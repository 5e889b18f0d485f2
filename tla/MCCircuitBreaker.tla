-------------------------- MODULE MCCircuitBreaker --------------------------
(* Model-checking instance and mutated definitions of CircuitBreaker. *)
EXTENDS CircuitBreaker
=============================================================================
