----------------------------- MODULE MCDispatch -----------------------------
(* Dispatch on small instances.                                             *)
EXTENDS Dispatch, TLC

CallSymmetry == Permutations(Calls)
=============================================================================
