-------------------------------- MODULE Sums --------------------------------
(* Sums over the places of a list, by a recursive function: unlike the folds  *)
(* of the community modules, a sum written so can be reasoned about.          *)
EXTENDS Integers

\* f[1] + ... + f[n].
Total(f, n) ==
  LET sum[i \in 0 .. n] == IF i = 0 THEN 0 ELSE sum[i-1] + f[i]
  IN  sum[n]
=============================================================================
