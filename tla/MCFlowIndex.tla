------------------------------ MODULE MCFlowIndex ------------------------------
(* Small instances of FlowIndex for TLC. *)
EXTENDS FlowIndex, TLC

CONSTANTS h1, h2, c1, t1, t2, x1, x2, x3, y1, ka, kb, kc

TwoHandlers == {h1, h2}
OneClearer == {c1}
TwoTraces == {t1, t2}
ThreeKeys == {ka, kb, kc}

\* Three jobs of one trace, with different keys, and one of another.
FourJobs == {x1, x2, x3, y1}
Carries == [j \in FourJobs |-> IF j = y1 THEN t2 ELSE t1]
Names == [j \in FourJobs |-> IF j = x2 THEN <<kb, ka, kc>> ELSE <<ka>>]
Children == {x2}

\* x1 and x3 are jobs alike.
Symmetry == Permutations(TwoHandlers) \cup Permutations({x1, x3})
=============================================================================
