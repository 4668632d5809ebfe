-------------------------------- MODULE Sums --------------------------------
(* Sums of integers, over an interval and over a finite set, and what a set selects of a *)
(* sequence, in a form that can be proved about.                                         *)
EXTENDS Integers, Sequences, FiniteSets

\* The sums f[1], f[1] + f[2], ..., from 0.
PartialSums(n, f) ==
  LET s[i \in 0 .. n] == IF i = 0 THEN 0 ELSE s[i - 1] + f[i]
  IN  s

\* f[1] + ... + f[n]
SumTo(n, f) == PartialSums(n, f)[n]

\* The elements of a finite set, one after another.
Enumeration(S) ==
  CHOOSE e \in [1 .. Cardinality(S) -> S] :
    \A i, k \in 1 .. Cardinality(S) : e[i] = e[k] => i = k

\* The sum of f over a finite set.
SumOver(S, f) == SumTo(Cardinality(S), [i \in 1 .. Cardinality(S) |-> f[Enumeration(S)[i]]])

\* The members of a sequence that are in a set, in their order.
Among(s, S) ==
  LET among[n \in 0 .. Len(s)] ==
        IF n = 0 THEN <<>> ELSE IF s[n] \in S THEN Append(among[n - 1], s[n]) ELSE among[n - 1]
  IN  among[Len(s)]
=============================================================================
