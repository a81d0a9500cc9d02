---- MODULE MCLogState ----
(* LogState for TLC.  No symmetry: the run checks a liveness property.     *)
EXTENDS LogState
=============================================================================
