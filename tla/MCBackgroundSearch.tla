------------------------- MODULE MCBackgroundSearch -------------------------
(* Model-checking instance of the background search.                       *)
EXTENDS BackgroundSearch, TLC
=============================================================================
