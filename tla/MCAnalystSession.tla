--------------------------- MODULE MCAnalystSession ---------------------------
(******************************************************************************)
(* AnalystSession for TLC: three or more attempts on the session turn t1      *)
(* founds.  Clients found it, with one of two questions; retry that turn with *)
(* the token and a revision a conflict told them; continue with turn t2 at    *)
(* the first or the second revision; and ask t2 as a first turn.              *)
(******************************************************************************)
EXTENDS AnalystSession, TLC

CONSTANTS t1, t2, q1, q2, a1, a2, a3

Ask(s, supplied, t, expected, digest) ==
  [session |-> s, supplied |-> supplied, turn |-> t,
   expected |-> expected, digest |-> digest]

MCRequests ==
  { Ask(t1, FALSE, t1, 0, q1), Ask(t1, FALSE, t1, 0, q2), Ask(t1, FALSE, t1, 1, q1),
    Ask(t1, TRUE, t1, 1, q1), Ask(t1, TRUE, t2, 0, q1), Ask(t1, TRUE, t2, 1, q1),
    Ask(t2, FALSE, t2, 0, q1) }
================================================================================
