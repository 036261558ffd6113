---------------------------- MODULE MCScoringRuns ---------------------------
(* Every game of up to three events, two teams and two periods. *)
EXTENDS ScoringRuns
=============================================================================
