-------------------------------- MODULE Sums --------------------------------
(***************************************************************************)
(* The sum of the first n values of a function, which the modules about    *)
(* totals share.                                                           *)
(***************************************************************************)
EXTENDS Integers

SumTo(f, n) ==
    LET sum[i \in 0..n] == IF i = 0 THEN 0 ELSE sum[i - 1] + f[i]
    IN  sum[n]
=============================================================================
