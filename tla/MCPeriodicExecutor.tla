------------------------- MODULE MCPeriodicExecutor ------------------------
(***************************************************************************)
(* PeriodicExecutor for TLC.                                               *)
(***************************************************************************)
EXTENDS PeriodicExecutor
=============================================================================
