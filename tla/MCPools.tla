------------------------------ MODULE MCPools -------------------------------
(* Pools for model checking.                                               *)
EXTENDS Pools, TLC

TaskSymmetry == Permutations(Tasks)

=============================================================================
