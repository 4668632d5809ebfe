------------------------------ MODULE PendingScan ------------------------------
(***************************************************************************)
(* The pending scan of a trace                                             *)
(* (packages/root/src/gql/data-sources/flows/index.ts, _scanPending and    *)
(* _scanQueue): the queues of a flow are read page by page, all at once,   *)
(* each status after the other, for the jobs of a trace that have not      *)
(* ended.  A page is reserved from a budget all the queues share, and what *)
(* it did not need is given back.                                          *)
(***************************************************************************)
EXTENDS JobLists

CONSTANTS
  OfTrace,    \* the jobs of the trace
  Page,       \* PENDING_PAGE
  Limit,      \* flowsOptions.pendingScanLimit
  Total,      \* FLOW_SCAN_TOTAL_MAX
  MaxFaults   \* bound: reads that fail

ASSUME PendingScanAssumption ==
  /\ OfTrace \subseteq Job
  /\ Page \in Nat \ {0} /\ Limit \in Nat \ {0} /\ Total \in Nat \ {0} /\ MaxFaults \in Nat

VARIABLES
  asked,   \* how many queues have begun
  left,    \* budget.left
  scan,    \* the progress of each queue
  faults,  \* what is left of the bound
  cut      \* whether a page was shortened by what was left for all

scanVars == <<asked, left, scan, faults, cut>>

Least(a, b) == IF a <= b THEN a ELSE b

\* A scan that has not begun.
Fresh == [pc |-> "idle", status |-> 1, start |-> 0, size |-> 0, read |-> 0, found |-> {},
          partial |-> FALSE]

\* WRONG: what is left for all the queues is not looked at.
PageSizeAlone(s, budget) == Least(Page, Limit - s.read)

\* The size of the next page.
PageSize(s, budget) == Least(Least(Page, Limit - s.read), budget)

\* WRONG: a scan that reaches a limit ends like any other.
StoppedSilently(s) == [s EXCEPT !.pc = "done"]

Stopped(s) == [s EXCEPT !.pc = "done", !.partial = TRUE]

\* A queue after it asked for a page of what the budget holds, if there is any to ask for.
Asked(s, budget) ==
  IF PageSize(s, budget) <= 0 THEN Stopped(s)
  ELSE [s EXCEPT !.pc = "reads", !.size = PageSize(s, budget)]

Shortened(s, budget) == budget < Least(Page, Limit - s.read)

Reserved(s) == IF s.pc = "reads" THEN s.size ELSE 0

\* All the queues have asked.
AllAsked == asked = Len(Queue)

\* _scanPending: the queues ask for their first page one after the other, before any is read.
Begin ==
  LET q == Queue[asked + 1]
      next == Asked(Fresh, left)
  IN  /\ ~AllAsked
      /\ asked' = asked + 1
      /\ scan' = [scan EXCEPT ![q] = next]
      /\ left' = left - Reserved(next)
      /\ cut' = (cut \/ Shortened(Fresh, left))
      /\ UNCHANGED faults

\* A page that is not full is the last of its status.
Exhausted(s, page) == Len(page) < s.size

\* A queue after a page: at the next one of the status, or at the next status.
After(s, page) ==
  LET s1 == [s EXCEPT !.read = @ + Len(page), !.found = @ \cup (ToSet(page) \cap OfTrace),
                      !.size = 0]
  IN  IF Exhausted(s, page) THEN [s1 EXCEPT !.status = @ + 1, !.start = 0]
      ELSE [s1 EXCEPT !.start = @ + Page]

\* WRONG: what a page did not need is not given back.
GivenBackNone(s, page) == 0

GivenBack(s, page) == s.size - Len(page)

\* A page is read, what it did not need is given back, and the next is asked for.
Answer(q, page) ==
  LET s == After(scan[q], page)
      budget == left + GivenBack(scan[q], page)
      next == IF s.status > Len(Status) THEN [s EXCEPT !.pc = "done"] ELSE Asked(s, budget)
  IN  /\ scan' = [scan EXCEPT ![q] = next]
      /\ left' = budget - Reserved(next)
      /\ cut' = (cut \/ (s.status <= Len(Status) /\ Shortened(s, budget)))

\* getJobs gives the jobs at these positions of the list as it is now.
ReadPage(q) ==
  LET s == scan[q] IN
  /\ AllAsked /\ s.pc = "reads"
  /\ Answer(q, Slice(lists[q][Status[s.status]], s.start, s.size))
  /\ UNCHANGED <<asked, faults>>

\* getJobs fails, which is taken for an empty page.
ReadFails(q) ==
  /\ AllAsked /\ scan[q].pc = "reads" /\ faults > 0
  /\ Answer(q, <<>>)
  /\ faults' = faults - 1
  /\ UNCHANGED asked

ScanInit ==
  /\ asked = 0 /\ left = Total /\ cut = FALSE /\ faults = MaxFaults
  /\ scan = [q \in ToSet(Queue) |-> Fresh]

ScanNext == Begin \/ \E q \in ToSet(Queue) : ReadPage(q) \/ ReadFails(q)

-----------------------------------------------------------------------------
(* Properties *)

ScanTypeOK ==
  /\ asked \in 0 .. Len(Queue) /\ left \in Nat /\ faults \in Nat /\ cut \in BOOLEAN
  /\ scan \in [ToSet(Queue) ->
                 [pc : {"idle", "reads", "done"}, status : Nat, start : Nat, size : Nat,
                  read : Nat, found : SUBSET Job, partial : BOOLEAN]]

Scanned == \A q \in ToSet(Queue) : scan[q].pc = "done"
Flagged == \E q \in ToSet(Queue) : scan[q].partial
Found == UNION {scan[q].found : q \in ToSet(Queue)}
Pending == {job \in OfTrace : \E q \in ToSet(Queue), s \in ToSet(Status) : job \in ToSet(lists[q][s])}

\* What each queue has of the budget.
Taken == [n \in 1 .. Len(Queue) |-> scan[Queue[n]].read + Reserved(scan[Queue[n]])]

\* However the pages of the queues interleave, a scan reads no more than the total, nor a queue
\* more than its limit, and every job not read yet is reserved or left (_scanQueue).
BudgetKept ==
  /\ left >= 0
  /\ left + SumTo(Len(Queue), Taken) = Total
  /\ \A q \in ToSet(Queue) : scan[q].read + Reserved(scan[q]) <= Limit

\* While the lists are still and every read succeeds, a scan not flagged partial has found every
\* pending job of the trace; here, when no page was shortened by the budget of all.
CompleteUnlessCut ==
  Scanned /\ ~Flagged /\ Quiet /\ faults = MaxFaults /\ ~cut => Found = Pending

\* "Past the budget a trace comes from the index only, flagged partial": a scan that is not
\* flagged has found every pending job of the trace.
UnflaggedIsComplete == Scanned /\ ~Flagged /\ Quiet /\ faults = MaxFaults => Found = Pending
=============================================================================
