------------------------- MODULE MCRetriedMutation -------------------------
(***************************************************************************)
(* RetriedMutation for TLC.                                                *)
(***************************************************************************)
EXTENDS RetriedMutation

MCContexts == Attempts
=============================================================================
