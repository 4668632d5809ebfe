----------------------------- MODULE MCQueueReads -----------------------------
(* Small instances of QueueReads for TLC. *)
EXTENDS QueueReads

TwoQueues == <<"q1", "q2">>
TwoStatuses == <<"waiting", "active">>
SixJobs == {"a", "b", "c", "d", "e", "f"}
Wanted == {"b", "d", "f"}

\* Without its data one job matches as before and one that did not match does.
WantedGone == {"a", "b"}

\* The ways to have the first jobs of a sequence waiting and the others active.
Splits(seq) ==
  {[s \in {"waiting", "active"} |->
      IF s = "waiting" THEN SubSeq(seq, 1, n) ELSE SubSeq(seq, n + 1, Len(seq))] : n \in 0 .. Len(seq)}

\* Up to four jobs of q1 and one or two of q2.
Small ==
  {[q \in {"q1", "q2"} |-> IF q = "q1" THEN l1 ELSE l2] :
     l1 \in Splits(<<>>) \cup Splits(<<"a">>) \cup Splits(<<"a", "b", "e">>)
             \cup Splits(<<"a", "b", "e", "f">>),
     l2 \in Splits(<<"c", "d">>) \cup Splits(<<"d">>)}
=============================================================================
