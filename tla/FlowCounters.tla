----------------------------- MODULE FlowCounters -----------------------------
(***************************************************************************)
(* How a trace travels with the jobs of a flow                             *)
(* (packages/root/src/flow/trace.ts) and what the monitor counts of them   *)
(* when they end (packages/root/src/metrics/flow-metrics.ts, _ingest).     *)
(*                                                                         *)
(* A terminal event is counted into the point being accumulated.  Part of  *)
(* it is counted at once, and part after the parent has been looked up,    *)
(* into the point that was current before: a tick may have drained it by   *)
(* then.  A drain copies the numbers of a point and shares its maps, which *)
(* are read when the point is pushed to its raw list and again when it is  *)
(* folded into the rollup tiers.                                           *)
(*                                                                         *)
(* Abstracted: one flow and one monitor process; completed and failed are  *)
(* one count per point, durations are left out (clocks agree, so that none  *)
(* is negative), and a tier is one bucket.                                 *)
(***************************************************************************)
EXTENDS Integers, Sequences, FiniteSets, Sums

CONSTANTS
  Kind,         \* the jobs there are: a queue and a name each
  Candidates,   \* the steps of each queue, in the order of the flow
  Entry,        \* flow.entry
  Complete,     \* flow.complete
  MaxHop,       \* FLOW_MAX_HOP
  MaxEdges,     \* FLOW_MAX_EDGES
  MaxJobs,      \* bound: jobs enqueued
  Origins,      \* bound: the jobs startTrace may name as a parent, by their number
  MaxPoints     \* bound: points accumulated

Queue == {k[1] : k \in Kind}
Step == UNION {{Candidates[q][i].id : i \in DOMAIN Candidates[q]} : q \in Queue}

ASSUME FlowCountersAssumption ==
  /\ \A q \in Queue : \A i \in DOMAIN Candidates[q] : Candidates[q][i].all \in BOOLEAN
  /\ Entry \subseteq Step /\ Complete \subseteq Step
  /\ MaxHop \in Nat /\ MaxEdges \in Nat \ {0} /\ {MaxJobs, MaxPoints} \subseteq Nat

VARIABLES
  jobs,     \* the jobs: the trace in the data, how far the event was handled, into which point,
            \* and what had become of the point by then
  points,   \* the accumulators: what became of each, its value, and that of the raw list
  current,  \* the one events are counted into, or 0
  tier      \* the bucket they are folded into

vars == <<jobs, points, current, tier>>

None == "none"
Other == <<"(other)", "(other)">>
Unknown == "(unknown)"

-----------------------------------------------------------------------------
(* Traces *)

\* The definitions marked WRONG are bugs this code could have had: each is put in place of the
\* definition after it to see that a property notices.

NoTrace == [id |-> 0, hop |-> 0, parent |-> 0]

\* A generated trace id, and those a job carries already.
FreshId == Len(jobs) + 1
KnownIds == {jobs[i].trace.id : i \in DOMAIN jobs} \ {0}

\* The trace startTrace and withTrace open, with the job it came through, or 0 when it is not
\* known.
NewTrace(id, parent) == [id |-> id, hop |-> 0, parent |-> parent]

\* WRONG: the hop limit is off by one.
AtHopLimitLate(trace) == trace.hop > MaxHop

AtHopLimit(trace) == trace.hop >= MaxHop

\* withTrace, and encodeTrace then continueTrace: the trace of a job, one hop on, or none past
\* the limit.
NextTrace(i, parent) ==
  IF AtHopLimit(jobs[i].trace) THEN NoTrace
  ELSE [jobs[i].trace EXCEPT !.hop = @ + 1, !.parent = parent]

Traced(i) == jobs[i].trace.id # 0

Add(kind, trace) ==
  /\ Len(jobs) < MaxJobs
  /\ jobs' = Append(jobs, [kind |-> kind, trace |-> trace, status |-> "queued",
                           ends |-> FALSE, point |-> 0, found |-> "live"])
  /\ UNCHANGED <<points, current, tier>>

\* A job arrives at the flow without a trace, or startTrace opens one for it: under a generated
\* id or one from outside, which other jobs may carry already, and with any job as its parent.
Start(kind) ==
  \/ Add(kind, NoTrace)
  \/ \E id \in KnownIds \cup {FreshId}, parent \in {0} \cup (Origins \cap DOMAIN jobs) :
       Add(kind, NewTrace(id, parent))

\* A job is enqueued by another, in its processor or by a callback from outside after it ended.
\* Under a parent without a trace it opens one when the flow is given. The parent may be missing
\* in the trace (no reference to it could be read, or it was not encoded), and so may the trace.
Child(i, kind) ==
  \/ Add(kind, NoTrace)
  \/ \E parent \in {i, 0} :
       Add(kind, IF Traced(i) THEN NextTrace(i, parent) ELSE NewTrace(FreshId, parent))

-----------------------------------------------------------------------------
(* Steps *)

\* resolveFlowStep: the first candidate that names the job, or else the first that names none.
Resolve(queue, name) ==
  LET c == Candidates[queue]
      named == {i \in DOMAIN c : ~c[i].all /\ name \in c[i].names}
      unnamed == {i \in DOMAIN c : c[i].all}
      First(s) == c[CHOOSE i \in s : \A k \in s : i <= k].id
  IN  IF named # {} THEN First(named) ELSE IF unnamed # {} THEN First(unnamed) ELSE None

StepOf(i) == Resolve(jobs[i].kind[1], jobs[i].kind[2])

-----------------------------------------------------------------------------
(* Points *)

\* addCapped: whether an edge of its own may be added.
Room(edges) ==
  Cardinality(DOMAIN edges) < (IF Other \in DOMAIN edges THEN MaxEdges ELSE MaxEdges - 1)

\* WRONG: the count of an edge is set, not added.
AddEdgeOver(edges, edge, n) ==
  LET key == IF edge \in DOMAIN edges \/ Room(edges) THEN edge ELSE Other
  IN  [e \in DOMAIN edges \cup {key} |-> IF e = key THEN n ELSE edges[e]]

\* addCapped: an edge past the limit is counted with the others.
AddEdge(edges, edge, n) ==
  LET key == IF edge \in DOMAIN edges \/ Room(edges) THEN edge ELSE Other
  IN  [e \in DOMAIN edges \cup {key} |->
         (IF e \in DOMAIN edges THEN edges[e] ELSE 0) + (IF e = key THEN n ELSE 0)]

NoEdges == [e \in {} |-> 0]

EmptyPoint == [count |-> 0, lost |-> 0, entries |-> 0, done |-> 0, e2e |-> 0, edges |-> NoEdges]

\* The edges of a point, after one after another of those of another was added.
EdgesAfter(edges, more, order) ==
  LET merged[n \in 0 .. Cardinality(DOMAIN more)] ==
        IF n = 0 THEN edges ELSE AddEdge(merged[n - 1], order[n], more[order[n]])
  IN  merged

\* mergeFlowPoints adds the edges of a point one after another, in the order they came.
MergeEdges(edges, more) ==
  EdgesAfter(edges, more, Enumeration(DOMAIN more))[Cardinality(DOMAIN more)]

Merge(a, b) ==
  [count |-> a.count + b.count, lost |-> a.lost + b.lost, entries |-> a.entries + b.entries,
   done |-> a.done + b.done, e2e |-> a.e2e + b.e2e, edges |-> MergeEdges(a.edges, b.edges)]

-----------------------------------------------------------------------------
(* Terminal events *)

\* The point events are counted into: the current one, or a new one.
Accumulator == IF current = 0 THEN Len(points) + 1 ELSE current

\* The points with a change to the one being accumulated.
Accumulate(Change(_)) ==
  /\ Accumulator <= MaxPoints
  /\ current' = Accumulator
  /\ points' = IF current = 0
               THEN Append(points, [stage |-> "live", value |-> Change(EmptyPoint), raw |-> EmptyPoint])
               ELSE [points EXCEPT ![current].value = Change(@)]

\* A job that completes ends its trace, its own or the one it opens by arriving at an entry.
Ends(i, completed) ==
  completed /\ StepOf(i) \in Complete /\ (Traced(i) \/ StepOf(i) \in Entry)

\* WRONG: the duration of a job that does not end its trace is added too.
CountedLong(i, ends, p) ==
  LET One(b) == IF b THEN 1 ELSE 0
  IN  [p EXCEPT !.count = @ + 1, !.entries = @ + One(StepOf(i) \in Entry),
                !.done = @ + One(ends), !.e2e = @ + 1]

\* What is counted of an event at once: with no parent to wait for, the completion too.
Counted(i, ends, p) ==
  LET One(b) == IF b THEN 1 ELSE 0
  IN  [p EXCEPT !.count = @ + 1, !.entries = @ + One(StepOf(i) \in Entry),
                !.done = @ + One(ends), !.e2e = @ + One(ends)]

\* Whether the parent of the job is looked up.
Waits(i) == jobs[i].trace.parent # 0

\* A job ends, and its event is ingested up to the lookup of the parent if it has one.
Ingest(i, completed) ==
  /\ jobs[i].status = "queued" /\ StepOf(i) # None
  /\ Accumulate(LAMBDA p : Counted(i, Ends(i, completed) /\ ~Waits(i), p))
  /\ jobs' = [jobs EXCEPT ![i] = [@ EXCEPT !.status = IF Waits(i) THEN "waits" ELSE "counted",
                                           !.ends = Ends(i, completed), !.point = Accumulator]]
  /\ UNCHANGED tier

\* The job belongs to no step of the flow.
Ignore(i) ==
  /\ jobs[i].status = "queued" /\ StepOf(i) = None
  /\ jobs' = [jobs EXCEPT ![i].status = "ignored"]
  /\ UNCHANGED <<points, current, tier>>

\* The job was removed before it could be read.
Lose(i) ==
  /\ jobs[i].status = "queued"
  /\ Accumulate(LAMBDA p : [p EXCEPT !.lost = @ + 1])
  /\ jobs' = [jobs EXCEPT ![i] = [@ EXCEPT !.status = "lost", !.point = Accumulator]]
  /\ UNCHANGED tier

\* WRONG: the numbers of a drained point are those of the accumulator still.
CountDoneAnyway(p, ends) == IF ends THEN [p.value EXCEPT !.done = @ + 1, !.e2e = @ + 1] ELSE p.value

\* A completion, counted into a point that may have been drained: its histogram is shared with
\* what was drained, its numbers were copied.
CountDone(p, ends) ==
  IF ~ends THEN p.value
  ELSE IF p.stage = "live" THEN [p.value EXCEPT !.done = @ + 1, !.e2e = @ + 1]
  ELSE [p.value EXCEPT !.e2e = @ + 1]

\* _resolveParent gave the step of the parent, or nothing: the edge and the completion are
\* counted into the point the event was counted into.
Resolved(i) ==
  LET g == jobs[i].point
      after == CountDone(points[g], jobs[i].ends)
  IN  /\ jobs[i].status = "waits"
      /\ \E from \in {StepOf(jobs[i].trace.parent), Unknown} :
           points' = [points EXCEPT ![g].value =
             IF jobs[i].trace.hop > 0
             THEN [after EXCEPT !.edges = AddEdge(@, <<from, StepOf(i)>>, 1)] ELSE after]
      /\ jobs' = [jobs EXCEPT ![i] = [@ EXCEPT !.status = "counted", !.found = points[g].stage]]
      /\ UNCHANGED <<current, tier>>

-----------------------------------------------------------------------------
(* Ticks *)

\* WRONG: the accumulator is drained and goes on.
DrainedOn == current

DrainedTo == 0

\* drain: the accumulator is taken.
Drain ==
  /\ current # 0
  /\ points' = [points EXCEPT ![current].stage = "drained"]
  /\ current' = DrainedTo
  /\ UNCHANGED <<jobs, tier>>

\* append pushes the point as it is now.
PushRaw(g) ==
  /\ points[g].stage = "drained"
  /\ points' = [points EXCEPT ![g] = [@ EXCEPT !.stage = "raw", !.raw = points[g].value]]
  /\ UNCHANGED <<jobs, current, tier>>

\* _rollUp merges it, as it is by then.
Fold(g) ==
  /\ points[g].stage = "raw"
  /\ points' = [points EXCEPT ![g].stage = "folded"]
  /\ tier' = Merge(tier, points[g].value)
  /\ UNCHANGED <<jobs, current>>

-----------------------------------------------------------------------------

Init ==
  /\ jobs = <<>> /\ points = <<>> /\ current = 0
  /\ tier = EmptyPoint

Next ==
  \/ \E kind \in Kind : Start(kind) \/ \E i \in DOMAIN jobs : Child(i, kind)
  \/ \E i \in DOMAIN jobs :
       \/ Ignore(i) \/ Lose(i) \/ Resolved(i)
       \/ \E completed \in BOOLEAN : Ingest(i, completed)
  \/ Drain
  \/ \E g \in DOMAIN points : PushRaw(g) \/ Fold(g)

Spec == Init /\ [][Next]_vars

-----------------------------------------------------------------------------
(* Properties *)

\* The types of the jobs and the points.
TypeOK ==
  /\ jobs \in Seq([kind : Kind,
                   trace : [id : 0 .. MaxJobs, hop : 0 .. MaxHop, parent : 0 .. MaxJobs],
                   status : {"queued", "waits", "counted", "ignored", "lost"}, ends : BOOLEAN,
                   point : 0 .. MaxPoints, found : {"live", "drained", "raw", "folded"}])
  /\ \A g \in DOMAIN points :
       /\ points[g].stage \in {"live", "drained", "raw", "folded"}
       /\ points[g].stage = "live" <=> g = current
  /\ current \in 0 .. MaxPoints

\* How many edges were counted: each once for each time.
EdgeCount(edges) == Cardinality(UNION {{e} \X (1 .. edges[e]) : e \in DOMAIN edges})

Amount(p, field) == IF field = "edges" THEN EdgeCount(p.edges) ELSE p[field]

\* What the points not yet in the bucket count, and what they and the bucket count together.
Unfolded(field) ==
  [g \in 1 .. Len(points) |->
    IF points[g].stage = "folded" THEN 0 ELSE Amount(points[g].value, field)]
Total(field) == Amount(tier, field) + SumTo(Len(points), Unfolded(field))

Having(Is(_)) == Cardinality({i \in DOMAIN jobs : Is(i)})

Ingested(i) == jobs[i].status \in {"waits", "counted"}

\* Whatever is drained, pushed and folded while parents are looked up, every event is in the
\* counters of its step, or in lost, once (_ingest up to the lookup, drain).
EventsCountedOnce ==
  /\ Total("count") = Having(Ingested)
  /\ Total("lost") = Having(LAMBDA i : jobs[i].status = "lost")
  /\ Total("entries") = Having(LAMBDA i : Ingested(i) /\ StepOf(i) \in Entry)

Ended(i) == jobs[i].status = "counted" /\ jobs[i].ends

\* The flow's completions are missed, in done or in the histogram of their durations, only by a
\* point drained, or folded, while the parent of the job was looked up; and none counts twice.
CompletionsCounted ==
  /\ Total("done") = Having(LAMBDA i : Ended(i) /\ jobs[i].found = "live")
  /\ Total("e2e") = Having(LAMBDA i : Ended(i) /\ jobs[i].found # "folded")

\* A stored point is whole, the same in the raw list and in the bucket, with as many durations as
\* completions, unless an event was still looking for its parent when it was drained.
TornOnlyInFlight ==
  \A g \in DOMAIN points :
    points[g].stage = "folded" /\ (\A i \in DOMAIN jobs : jobs[i].point = g => jobs[i].found = "live")
      => points[g].raw = points[g].value /\ points[g].raw.done = points[g].raw.e2e

\* No point and no bucket holds more edges than the limit, and folding the excess into the others
\* loses none: every job that names the one it follows in its trace is an edge, once.
EdgesKept ==
  /\ \A g \in DOMAIN points : Cardinality(DOMAIN points[g].value.edges) <= MaxEdges
  /\ Cardinality(DOMAIN tier.edges) <= MaxEdges
  /\ Total("edges") = Having(LAMBDA i : /\ jobs[i].status = "counted" /\ jobs[i].found # "folded"
                                        /\ jobs[i].trace.hop > 0 /\ Waits(i))

\* No trace goes past MaxHop hops, and each hop continues one: a job at a later hop than the first
\* was enqueued after a job of the same trace one hop before, and when it names a parent it is
\* that job, though several jobs may open a trace of the same id (withTrace, continueTrace).
HopsFollow ==
  \A i \in DOMAIN jobs : LET t == jobs[i].trace IN
    /\ t.hop <= MaxHop
    /\ t.hop > 0 => \E k \in 1 .. i - 1 : /\ jobs[k].trace.id = t.id
                                         /\ jobs[k].trace.hop = t.hop - 1
                                         /\ t.parent \in {0, k}
=============================================================================
