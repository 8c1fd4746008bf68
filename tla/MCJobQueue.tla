----------------------------- MODULE MCJobQueue -----------------------------
(* Model-checking instance of the job queue.                               *)
EXTENDS JobQueue, TLC

Symmetry == Permutations(Jobs) \cup Permutations(Workers) \cup Permutations(Clients)
=============================================================================
