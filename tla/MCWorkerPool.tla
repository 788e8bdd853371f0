---------------------------- MODULE MCWorkerPool ----------------------------
(* WorkerPool for TLC: worker objects and jobs are interchangeable. *)
EXTENDS WorkerPool, TLC

Symmetry == Permutations(Workers) \cup Permutations(Jobs)

=============================================================================
