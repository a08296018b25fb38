------------------------------- MODULE Totals -------------------------------
(* What the values of a function add up to: the weights of a cache's entries. *)
EXTENDS FiniteSetsExt

Total(f) == MapThenSumSet(LAMBDA x : f[x], DOMAIN f)
=============================================================================
