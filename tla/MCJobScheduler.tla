--------------------------- MODULE MCJobScheduler ---------------------------
(* Model-checking instance of the cron scheduler.                          *)
EXTENDS JobScheduler
=============================================================================
