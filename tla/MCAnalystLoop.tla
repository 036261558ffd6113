----------------------------- MODULE MCAnalystLoop -----------------------------
(******************************************************************************)
(* An instance of AnalystLoop for TLC.  A unit of time is about 2.5 seconds.  *)
(******************************************************************************)
EXTENDS AnalystLoop

MCCosts == {3}
MCDurations == {1, 3}
================================================================================
