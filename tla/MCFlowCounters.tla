---------------------------- MODULE MCFlowCounters ----------------------------
(* A small instance of FlowCounters for TLC. *)
EXTENDS FlowCounters

TwoQueues == {"q1", "q2"}

\* A job of the entry, one of the last step, and one that no step takes.
ThreeKinds == {<<"q1", "n1">>, <<"q2", "n1">>, <<"q2", "n2">>}

\* Two steps share a queue, the catch-all first; the other has no catch-all.
ThreeSteps ==
  [q \in TwoQueues |->
     IF q = "q1" THEN <<[id |-> "rest", all |-> TRUE, names |-> {}],
                        [id |-> "entry", all |-> FALSE, names |-> {"n1"}]>>
                 ELSE <<[id |-> "last", all |-> FALSE, names |-> {"n1"}]>>]

EntryStep == {"entry"}
LastStep == {"last"}
=============================================================================
