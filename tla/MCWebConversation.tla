--------------------------- MODULE MCWebConversation ---------------------------
(******************************************************************************)
(* WebConversation for TLC; the bounds are in the configurations.             *)
(******************************************************************************)
EXTENDS WebConversation
================================================================================
