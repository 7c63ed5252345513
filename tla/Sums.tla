-------------------------------- MODULE Sums --------------------------------
(* Running totals, as a recursive function so that they can be proved about. *)
EXTENDS Integers

\* The first n values of f, added up.
Total(f, n) == LET sum[k \in 0 .. n] == IF k = 0 THEN 0 ELSE sum[k - 1] + f[k]
               IN  sum[n]
=============================================================================
