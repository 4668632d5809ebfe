--------------------------- MODULE MCAgentMetrics ---------------------------
(* Small instances of AgentMetrics for TLC. *)
EXTENDS AgentMetrics, TLC

CONSTANTS r1, r2, h1, h2, j1, j2, j3

OneJob == {j1}
TwoJobs == {j1, j2}
OneReplica == {r1}
TwoReplicas == {r1, r2}
TwoHandlers == {h1, h2}
None == {}

\* Every execution awaits finish() and is final.
Recorded == {<<"run", "final">>}
\* Everything a worker may leave behind.
AnyOutcome == {"run", "both", "late", "skip", "nothing"} \X {"retry", "final", "removed"}
                \cup {<<"value", "final">>}

Symmetry == Permutations(TwoHandlers) \cup Permutations(TwoReplicas) \cup Permutations(TwoJobs)
=============================================================================
