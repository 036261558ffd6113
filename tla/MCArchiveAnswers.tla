-------------------------- MODULE MCArchiveAnswers -------------------------
(* Two requests for one question around a rollout that is restored. *)
EXTENDS ArchiveAnswers
=============================================================================
