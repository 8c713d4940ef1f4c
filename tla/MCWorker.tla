------------------------------ MODULE MCWorker ------------------------------
(* Worker for model checking: NOTIFYs are interchangeable.                 *)
EXTENDS WorkerConnection, TLC

Symmetry == Permutations(Notifies)

=============================================================================
