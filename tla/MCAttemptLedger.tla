---------------------------- MODULE MCAttemptLedger ----------------------------
(******************************************************************************)
(* AttemptLedger for TLC: two callers of the run, a caller issued another run *)
(* and the harness, on one ledger path.  At a price of one a token, a context *)
(* of one token and two output tokens make a reservation of 3.  A bound of 5  *)
(* denies the second attempt until the first is settled for at most 2; the    *)
(* cap of 2 is the next limit.                                                *)
(******************************************************************************)
EXTENDS AttemptLedger

CONSTANTS c1, c2, x, h, run, other

MCRunOf == [p \in {c1, c2, x, h} |-> IF p = x THEN other ELSE run]
================================================================================
