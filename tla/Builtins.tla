---- MODULE Builtins ----
(***************************************************************************)
(* What the code takes from Python: sorted(), reversed(), sum(), min(),    *)
(* max() and None, written so that they can be reasoned about: the place   *)
(* of an element is the number of those before it.                         *)
(***************************************************************************)
EXTENDS Integers, FiniteSets, FiniteSetsExt

\* None, where a number may be.
NoValue == -1

Smaller(a, b) == IF a < b THEN a ELSE b
Larger(a, b) == IF a > b THEN a ELSE b
Absolute(a) == IF a < 0 THEN -a ELSE a

\* R holds the pairs <<i, j>> of S with i before j: a strict total order of S.
Ahead(S, R, i) == {j \in S : <<j, i>> \in R}
Ordered(S, R) ==
    LET ranked == {<<Cardinality(Ahead(S, R, i)), i>> : i \in S}
    IN  [k \in 1..Cardinality(S) |-> (CHOOSE r \in ranked : r[1] = k - 1)[2]]

\* Numbers, the least or the greatest first.
Ascending(S) == Ordered(S, {p \in S \X S : p[1] < p[2]})
Descending(S) == Ordered(S, {p \in S \X S : p[1] > p[2]})

\* The sum of the values of a function.
Total(w) == MapThenSumSet(LAMBDA i : w[i], DOMAIN w)
====
