--------------------------- MODULE MCBudgetLedger ----------------------------
(******************************************************************************)
(* BudgetLedger for TLC: reservations of one or two units against a cutoff of *)
(* three, settled at no cost, below, at or above what was reserved, with      *)
(* scripts that are sent twice.                                               *)
(******************************************************************************)
EXTENDS BudgetLedger, TLC

CONSTANTS r1, r2, r3

\* Calls differ by nothing but their names.
Symmetry == Permutations(Calls)
================================================================================
