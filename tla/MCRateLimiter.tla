--------------------------- MODULE MCRateLimiter ---------------------------
(* One instance of the API, which a restart gives a fresh table over the   *)
(* same Redis, two addresses and a table of two clients: a table fills,    *)
(* sweeps and refuses, an identity ends with its day, and a window of each *)
(* kind fills and expires within MaxTime.                                  *)
EXTENDS RateLimiter, TLC

Symmetry == Permutations(Ips) \union Permutations(Instances)
=============================================================================
