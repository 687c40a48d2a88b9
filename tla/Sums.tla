-------------------------------- MODULE Sums --------------------------------
(***************************************************************************)
(* Sums along a sequence, by a recursive function so that what they add up *)
(* to can be proved as well as evaluated.                                  *)
(***************************************************************************)
EXTENDS Integers

\* f[1] + ... + f[n].
SumUpTo(f, n) == LET sum[k \in 0..n] == IF k = 0 THEN 0 ELSE sum[k - 1] + f[k] IN sum[n]

\* The sum of f[i] for those i in 1..n that lie in S.
SumOver(f, S, n) == SumUpTo([i \in 1..n |-> IF i \in S THEN f[i] ELSE 0], n)

Excess(a, b) == IF a > b THEN a - b ELSE 0

=============================================================================
