-------------------------- MODULE MCMetricsCollector --------------------------
(* Small instances of MetricsCollector for TLC. *)
EXTENDS MetricsCollector, TLC

CONSTANTS q1, q2, a1, a2, b1, k1, k2

OneQueue == {q1}
TwoQueues == {q1, q2}
OneAdapter == {a1}
TwoAdapters == {a1, a2}
OneTick == {k1}
TwoTicks == {k1, k2}

\* One adapter object per queue, for the whole life of the process.
OneEach == [a \in TwoAdapters |-> IF a = a1 THEN q1 ELSE q2]
Only1 == [a \in OneAdapter |-> q1]
\* The queue is wrapped again for setQueues.
Rewrapped == [a \in {a1, b1} |-> q1]
BothOfOne == {a1, b1}
\* For the invariants and the action property only.
Symmetry == Permutations(TwoTicks)
=============================================================================
