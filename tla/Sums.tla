-------------------------------- MODULE Sums --------------------------------
(* The sum of a function over a finite set. *)
EXTENDS FiniteSetsExt

SumOver(f, S) == MapThenSumSet(LAMBDA x : f[x], S)
=============================================================================
