-------------------------- MODULE MCCircuitBreaker --------------------------
(* CircuitBreaker on small instances, and the mutants of its definitions.   *)
EXTENDS CircuitBreaker, TLC

CallSymmetry == Permutations(Calls)
=============================================================================
