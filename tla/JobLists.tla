------------------------------- MODULE JobLists -------------------------------
(***************************************************************************)
(* The jobs of some queues, in a list for each status, as the dashboard's  *)
(* readers find them: while a reader works, workers take jobs and jobs     *)
(* are removed.  The lists are those of Bull and BullMQ, read by position  *)
(* from their start.                                                       *)
(***************************************************************************)
EXTENDS Integers, Sequences, FiniteSets, SequencesExt, Sums

CONSTANTS
  Job,
  Queue,        \* the queues, in the order of the flow's steps
  Status,       \* the statuses, in the order they are read
  Arrangements, \* how the jobs may lie in the lists at first
  MaxMoves      \* bound: changes of the lists

VARIABLES
  lists,  \* the jobs of each queue and status
  gone,   \* the jobs that were removed
  moves   \* what is left of the bound

listVars == <<lists, gone, moves>>

\* A queue has a job in one place at most.
Once(byStatus) ==
  \A s, t \in ToSet(Status) : \A i \in DOMAIN byStatus[s], k \in DOMAIN byStatus[t] :
    byStatus[s][i] = byStatus[t][k] => s = t /\ i = k

ASSUME JobListsAssumption ==
  /\ Queue \in Seq(Range(Queue)) /\ IsInjective(Queue)
  /\ Status \in Seq(Range(Status)) /\ Status # <<>>
  /\ Arrangements \subseteq [ToSet(Queue) -> [ToSet(Status) -> Seq(Job)]]
  /\ \A a \in Arrangements, q \in ToSet(Queue) : Once(a[q])
  /\ MaxMoves \in Nat

\* The lists have not changed.
Quiet == moves = MaxMoves

ListsInit == lists \in Arrangements /\ gone = {} /\ moves = MaxMoves

\* A job goes from a list to the start of another, or is removed.
Move(q, s, i, to) ==
  /\ moves > 0 /\ i \in DOMAIN lists[q][s] /\ to # s
  /\ moves' = moves - 1
  /\ LET job == lists[q][s][i]
         rest == [lists[q] EXCEPT ![s] = RemoveAt(@, i)]
     IN  IF to \in ToSet(Status)
         THEN /\ lists' = [lists EXCEPT ![q] = [rest EXCEPT ![to] = <<job>> \o @]]
              /\ UNCHANGED gone
         ELSE lists' = [lists EXCEPT ![q] = rest] /\ gone' = gone \cup {job}

\* The n members of a sequence after the first ones, or as many as there are.
Slice(s, after, n) == SubSeq(s, after + 1, IF after + n <= Len(s) THEN after + n ELSE Len(s))

\* The definitions marked WRONG are bugs the readers could have had: each is put in place of the
\* definition after it to see that a property notices.
=============================================================================
