--------------------------- MODULE MCTaskiqQueue ---------------------------
(* Model-checking instance of the Python task queue.                       *)
EXTENDS TaskiqQueue, TLC

Symmetry == Permutations(Slots) \cup Permutations(Tasks)
=============================================================================
