--------------------------- MODULE MCJobScheduler ---------------------------
(* JobScheduler for TLC: names for the jobs.                                *)
EXTENDS JobScheduler

CONSTANTS j1, j2
=============================================================================
