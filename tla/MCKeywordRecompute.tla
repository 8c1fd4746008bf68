------------------------- MODULE MCKeywordRecompute -------------------------
(* Model-checking instance of the keyword recompute.                       *)
EXTENDS KeywordRecompute, TLC

Symmetry == Permutations(Tasks)
=============================================================================
