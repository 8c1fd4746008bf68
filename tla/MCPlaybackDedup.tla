--------------------------- MODULE MCPlaybackDedup ---------------------------
(* Model-checking instance of the playback deduplication.                  *)
EXTENDS PlaybackDedup, TLC
=============================================================================
