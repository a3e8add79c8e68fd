------------------------- MODULE MCProductionReplay -------------------------
(***************************************************************************)
(* Two adds, two searches, two workers and two targets; the ingest phase  *)
(* is recorded as well, and two things may go wrong.                       *)
(***************************************************************************)
EXTENDS ProductionReplay

MCTargets == <<"db", "memory">>
=============================================================================
