------------------------------ MODULE MCAgent -------------------------------
(* Agent for model checking: listeners are interchangeable, and so are     *)
(* connections.                                                            *)
EXTENDS Agent, TLC

Symmetry == Permutations(Listeners) \cup Permutations(Conns)

=============================================================================
