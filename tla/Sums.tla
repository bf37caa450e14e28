-------------------------------- MODULE Sums --------------------------------
(***************************************************************************)
(* Totals over indexed quantities: the balances of the chains 1..N, the    *)
(* amounts of the messages of a log.                                       *)
(***************************************************************************)
EXTENDS Integers

(* p[i] = f[1] + ... + f[i], for i in 0..n. *)
Partial(f, n) ==
    LET p[i \in 0..n] == IF i = 0 THEN 0 ELSE p[i - 1] + f[i] IN p

(* f[1] + ... + f[n]. *)
Total(f, n) == Partial(f, n)[n]

(* The equation that Partial solves. *)
PartialEqn(f, n, p) == p = [i \in 0..n |-> IF i = 0 THEN 0 ELSE p[i - 1] + f[i]]
=============================================================================
