------------------------------ MODULE FlowIndex ------------------------------
(***************************************************************************)
(* The trace index of one flow (packages/root/src/metrics/flow-metrics.ts, *)
(* _resolveParent, _index and _evict): which traces are known, the jobs of *)
(* each, and the business keys they are found by.                          *)
(*                                                                         *)
(* A terminal event of a job that carries a trace is handled by several    *)
(* Redis calls, each awaited: every one is a step, so the handlers of one  *)
(* monitor process and of several interleave between them, and with the    *)
(* DELs of the "clear metrics" mutations (metrics-collector.ts, clear and   *)
(* clearAll), which are a pipeline and no transaction.                     *)
(*                                                                         *)
(* Abstracted: a job here is one execution of a job (queue, id, attempt);  *)
(* its member of the jobs zset is told apart by the parent it was written  *)
(* with, the one part of the entry that can differ between two reads.      *)
(* A trace's score is the clock of the process that added it, read just    *)
(* before its MULTI: clocks disagree and ties go by id, so a trace may     *)
(* take any place among the ones already there.                            *)
(***************************************************************************)
EXTENDS Integers, Sequences, FiniteSets, SequencesExt

CONSTANTS
  Handler,       \* slots for concurrent onJobFinished calls, over all replicas
  Clearer,       \* slots for clear pipelines; one that goes no further was cut short
  Trace,         \* trace ids
  Job,           \* executions of the flow's jobs
  Key,           \* business keys
  TraceOf,       \* the trace a job carries
  KeysOf,        \* the business keys of a job, in order
  Parented,      \* jobs whose parent is looked up in the predecessors' queues
  RecentTraces,  \* flowsOptions.recentTraces
  JobsPerTrace,  \* flowsOptions.jobsPerTrace
  KeysPerTrace,  \* FLOW_MAX_KEYS_PER_TRACE
  MaxEvents,     \* bound: events delivered, duplicates and other replicas' included
  MaxFaults      \* bound: failing calls and clear mutations

ASSUME FlowIndexAssumption ==
  /\ IsFiniteSet(Handler)
  /\ TraceOf \in [Job -> Trace] /\ KeysOf \in [Job -> Seq(Key)]
  /\ Parented \subseteq Job
  /\ RecentTraces \in Nat \ {0} /\ JobsPerTrace \in Nat \ {0} /\ KeysPerTrace \in Nat
  /\ MaxEvents \in Nat /\ MaxFaults \in Nat

VARIABLES
  traces,    \* zset by ingestion time: the trace ids, lowest score first
  meta,      \* hash: the traces it has an entry for
  jobs,      \* jobs zset: the entries, with the parent each was written with
  marks,     \* jobs zset: traces with the truncation marker
  markers,   \* jobs zset: the keys mirrored under each trace
  keys,      \* keys zset: which trace each business key leads to
  task,      \* the handlers' progress
  clear,     \* the key of the index each clear pipeline deletes next
  orphaned,  \* jobs whose parent job was removed
  events, faults,  \* what is left of the bounds
  failed,    \* history: whether a call failed
  torn       \* history: traces written while a clear was in progress

index == <<traces, meta, jobs, marks, markers, keys, torn>>
vars == <<traces, meta, jobs, marks, markers, keys, torn, task, clear, orphaned, events, faults,
          failed>>

Idle == [pc |-> "idle"]
Busy(h) == task[h] # Idle
At(h, pc) == task[h].pc = pc
Goto(h, pc) == task' = [task EXCEPT ![h].pc = pc]
Done(h) == task' = [task EXCEPT ![h] = Idle]

TraceAt(h) == TraceOf[task[h].job]
EntryOf(h) == [job |-> task[h].job, parent |-> task[h].parent]

JobsOf(t) == {e \in jobs : TraceOf[e.job] = t}
MarkersOf(t) == {m \in markers : m[1] = t}

\* A clear has deleted part of the index and not yet the rest.
InClear == \E c \in Clearer : clear[c] # "idle"

\* The sequence s without the elements of a set.
Without(s, gone) ==
  LET kept[i \in 0 .. Len(s)] ==
        IF i = 0 THEN <<>>
        ELSE IF s[i] \in gone THEN kept[i - 1] ELSE Append(kept[i - 1], s[i])
  IN  kept[Len(s)]

-----------------------------------------------------------------------------

\* An event of a job reaches a replica: for the first time, again, or for another replica.
OnEvent(h, j) ==
  /\ ~Busy(h) /\ events > 0
  /\ events' = events - 1
  /\ task' = [task EXCEPT ![h] =
                [pc |-> IF j \in Parented THEN "parent" ELSE "known", job |-> j, parent |-> FALSE,
                 known |-> {}, all |-> 0, truncated |-> FALSE, excess |-> 0, oldest |-> <<>>,
                 read |-> 0, owned |-> {}]]
  /\ UNCHANGED <<index, clear, orphaned, faults, failed>>

\* The parent of a job is removed from its queue.
RemoveParent(j) ==
  /\ j \in Parented \ orphaned
  /\ orphaned' = orphaned \cup {j}
  /\ UNCHANGED <<index, clear, task, events, faults, failed>>

\* _resolveParent: the queue of the parent is known while the parent is there.
ResolveParent(h) ==
  /\ At(h, "parent")
  /\ task' = [task EXCEPT ![h] = [@ EXCEPT !.pc = "known", !.parent = task[h].job \notin orphaned]]
  /\ UNCHANGED <<index, clear, orphaned, events, faults, failed>>

\* ZRANGEBYLEX: the keys the trace already has.
ReadKnown(h) ==
  /\ At(h, "known")
  /\ task' = [task EXCEPT ![h] = [@ EXCEPT !.pc = "count",
                                           !.known = {m[2] : m \in MarkersOf(TraceAt(h))}]]
  /\ UNCHANGED <<index, clear, orphaned, events, faults, failed>>

\* ZLEXCOUNT: every member of the trace, whatever it is.
CountMembers(h) ==
  LET t == TraceAt(h) IN
  /\ At(h, "count")
  /\ task' = [task EXCEPT ![h] = [@ EXCEPT !.pc = "mark", !.all =
                Cardinality(JobsOf(t)) + Cardinality(MarkersOf(t)) + Cardinality({t} \cap marks)]]
  /\ UNCHANGED <<index, clear, orphaned, events, faults, failed>>

\* The definitions marked WRONG are bugs this code could have had: each is put in place of the
\* definition after it to see that a property notices.

\* The trace holds as many jobs as it may.
AtLimit(count) == count >= JobsPerTrace

\* ZSCORE of the truncation marker; what remains counts the jobs.
ReadMark(h) ==
  LET marked == Cardinality({TraceAt(h)} \cap marks)
      count == task[h].all - Cardinality(task[h].known) - marked
  IN  /\ At(h, "mark")
      /\ Goto(h, IF AtLimit(count) THEN "exists" ELSE "write")
      /\ UNCHANGED <<index, clear, orphaned, events, faults, failed>>

\* ZSCORE of the member: one that is there may be written again.
ReadMember(h) ==
  /\ At(h, "exists")
  /\ task' = [task EXCEPT ![h] = [@ EXCEPT !.pc = "write", !.truncated = EntryOf(h) \notin jobs]]
  /\ UNCHANGED <<index, clear, orphaned, events, faults, failed>>

\* WRONG: every key the trace does not have.
FreshKeysUnlimited(h) == ToSet(KeysOf[task[h].job]) \ task[h].known

\* The keys of the job the trace does not have, as far as it may have more.
FreshKeys(h) ==
  LET s == task[h]
      news == Without(KeysOf[s.job], s.known)
      room == KeysPerTrace - Cardinality(s.known)
  IN  {news[i] : i \in {n \in DOMAIN news : n <= room}}

\* WRONG: the two parts of a member are swapped.
FreshMembersSwapped(h) == FreshKeys(h) \X {TraceAt(h)}

\* The members written for the fresh keys, in the keys zset and under the trace.
FreshMembers(h) == {TraceAt(h)} \X FreshKeys(h)

\* MULTI: the trace, its meta, the job or the truncation marker, and the fresh keys.
IndexJob(h) ==
  LET t == TraceAt(h)
      fresh == FreshMembers(h)
  IN  /\ IF t \in ToSet(traces) THEN UNCHANGED traces
         ELSE \E i \in 1 .. Len(traces) + 1 : traces' = InsertAt(traces, i, t)
      /\ meta' = meta \cup {t}
      /\ IF task[h].truncated THEN marks' = marks \cup {t} /\ UNCHANGED jobs
         ELSE jobs' = jobs \cup {EntryOf(h)} /\ UNCHANGED marks
      /\ keys' = keys \cup fresh
      /\ markers' = markers \cup fresh
      /\ torn' = torn \cup (IF InClear THEN {t} ELSE {})

\* _evict is called with none of what was read for the job.
Written(s) == [s EXCEPT !.pc = "card", !.parent = FALSE, !.known = {}, !.all = 0, !.truncated = FALSE]

Write(h) ==
  /\ At(h, "write")
  /\ IndexJob(h)
  /\ task' = [task EXCEPT ![h] = Written(@)]
  /\ UNCHANGED <<clear, orphaned, events, faults, failed>>

\* WRONG: one trace past the cap is tolerated.
ExcessButOne == Len(traces) - RecentTraces - 1

\* How many traces are past the cap.
Excess == Len(traces) - RecentTraces

\* _evict: ZCARD.
ReadCard(h) ==
  /\ At(h, "card")
  /\ IF Excess <= 0 THEN Done(h)
     ELSE task' = [task EXCEPT ![h] = [@ EXCEPT !.pc = "oldest", !.excess = Excess]]
  /\ UNCHANGED <<index, clear, orphaned, events, faults, failed>>

\* ZRANGE 0 .. card - cap - 1.
ReadOldest(h) ==
  LET n == IF task[h].excess < Len(traces) THEN task[h].excess ELSE Len(traces)
      oldest == SubSeq(traces, 1, n)
  IN  /\ At(h, "oldest")
      /\ IF oldest = <<>> THEN Done(h)
         ELSE task' = [task EXCEPT ![h] = [@ EXCEPT !.pc = "owned", !.oldest = oldest]]
      /\ UNCHANGED <<index, clear, orphaned, events, faults, failed>>

\* ZRANGEBYLEX: the keys of one of the traces to evict, in turn.
ReadOwned(h) ==
  LET s == task[h]
      n == s.read + 1
  IN  /\ At(h, "owned")
      /\ task' = [task EXCEPT ![h] = [s EXCEPT !.owned = @ \cup MarkersOf(s.oldest[n]),
                                               !.read = n,
                                               !.pc = IF n = Len(s.oldest) THEN "evict" ELSE @]]
      /\ UNCHANGED <<index, clear, orphaned, events, faults, failed>>

\* WRONG: the keys of an evicted trace go for every trace that has them.
OwnedByAny(h) == Trace \X {m[2] : m \in task[h].owned}

\* The members of the keys zset that were read under the traces to evict.
Owned(h) == task[h].owned

\* WRONG: the meta of the evicted traces stays.
EvictTracesButMeta(h) ==
  LET gone == ToSet(task[h].oldest) IN
  /\ traces' = Without(traces, gone)
  /\ jobs' = {e \in jobs : TraceOf[e.job] \notin gone}
  /\ marks' = marks \ gone
  /\ markers' = {m \in markers : m[1] \notin gone}
  /\ keys' = keys \ Owned(h)
  /\ torn' = torn \ gone
  /\ UNCHANGED meta

\* MULTI: the traces read before go, with their members and the keys read before.
EvictTraces(h) ==
  LET gone == ToSet(task[h].oldest) IN
  /\ traces' = Without(traces, gone)
  /\ meta' = meta \ gone
  /\ jobs' = {e \in jobs : TraceOf[e.job] \notin gone}
  /\ marks' = marks \ gone
  /\ markers' = {m \in markers : m[1] \notin gone}
  /\ keys' = keys \ Owned(h)
  /\ torn' = torn \ gone

Evict(h) ==
  /\ At(h, "evict")
  /\ EvictTraces(h)
  /\ Done(h)
  /\ UNCHANGED <<clear, orphaned, events, faults, failed>>

\* The awaited call throws, or the process dies: a MULTI was executed or not; the event is
\* given up.
CallFails(h) ==
  /\ Busy(h) /\ faults > 0
  /\ faults' = faults - 1 /\ failed' = TRUE
  /\ Done(h)
  /\ \/ UNCHANGED index
     \/ At(h, "write") /\ IndexJob(h)
     \/ At(h, "evict") /\ EvictTraces(h)
  /\ UNCHANGED <<clear, orphaned, events>>

-----------------------------------------------------------------------------
(* clear and clearAll: one DEL per key of the flow, those of the index in this order. *)

ClearTraces(c) ==
  /\ clear[c] = "idle" /\ faults > 0
  /\ faults' = faults - 1
  /\ traces' = <<>>
  /\ clear' = [clear EXCEPT ![c] = "jobs"]
  /\ UNCHANGED <<meta, jobs, marks, markers, keys, torn, task, orphaned, events, failed>>

\* The entries and the markers of every trace share one zset.
ClearJobs(c) ==
  /\ clear[c] = "jobs"
  /\ jobs' = {} /\ marks' = {} /\ markers' = {}
  /\ torn' = torn \cap ToSet(traces)
  /\ clear' = [clear EXCEPT ![c] = "keys"]
  /\ UNCHANGED <<traces, meta, keys, task, orphaned, events, faults, failed>>

ClearKeys(c) ==
  /\ clear[c] = "keys"
  /\ keys' = {}
  /\ clear' = [clear EXCEPT ![c] = "meta"]
  /\ UNCHANGED <<traces, meta, jobs, marks, markers, torn, task, orphaned, events, faults, failed>>

ClearMeta(c) ==
  /\ clear[c] = "meta"
  /\ meta' = {}
  /\ clear' = [clear EXCEPT ![c] = "idle"]
  /\ UNCHANGED <<traces, jobs, marks, markers, keys, torn, task, orphaned, events, faults, failed>>

-----------------------------------------------------------------------------

Init ==
  /\ traces = <<>> /\ meta = {} /\ jobs = {} /\ marks = {} /\ markers = {} /\ keys = {}
  /\ task = [h \in Handler |-> Idle]
  /\ clear = [c \in Clearer |-> "idle"]
  /\ orphaned = {} /\ failed = FALSE /\ torn = {}
  /\ events = MaxEvents /\ faults = MaxFaults

Next ==
  \/ \E h \in Handler, j \in Job : OnEvent(h, j)
  \/ \E h \in Handler :
       \/ ResolveParent(h) \/ ReadKnown(h) \/ CountMembers(h) \/ ReadMark(h) \/ ReadMember(h)
       \/ Write(h) \/ ReadCard(h) \/ ReadOldest(h) \/ ReadOwned(h) \/ Evict(h) \/ CallFails(h)
  \/ \E j \in Job : RemoveParent(j)
  \/ \E c \in Clearer : ClearTraces(c) \/ ClearJobs(c) \/ ClearKeys(c) \/ ClearMeta(c)

Spec == Init /\ [][Next]_vars

-----------------------------------------------------------------------------

Entry == [job : Job, parent : BOOLEAN]
Task == [pc : {"parent", "known", "count", "mark", "exists", "write", "card", "oldest", "owned",
               "evict"},
         job : Job, parent : BOOLEAN, known : SUBSET Key, all : Nat, truncated : BOOLEAN,
         excess : Nat, oldest : Seq(Trace),
         read : Nat, owned : SUBSET (Trace \X Key)]

IndexType ==
  /\ traces \in Seq(Trace) /\ IsInjective(traces)
  /\ meta \subseteq Trace /\ marks \subseteq Trace /\ torn \subseteq Trace
  /\ jobs \subseteq Entry
  /\ markers \subseteq Trace \X Key /\ keys \subseteq Trace \X Key
  /\ IsFiniteSet(jobs) /\ IsFiniteSet(markers)
TaskType == task \in [Handler -> Task \cup {Idle}]
ClearType == clear \in [Clearer -> {"idle", "jobs", "keys", "meta"}]
RestType == orphaned \subseteq Parented /\ events \in Nat /\ faults \in Nat /\ failed \in BOOLEAN

\* Every variable stays in its type; the traces zset holds each id once.
TypeOK == IndexType /\ TaskType /\ ClearType /\ RestType

\* The traces there is an entry or a truncation marker of.
Held == {TraceOf[e.job] : e \in jobs} \cup marks

\* Evictions and clears leave nothing behind: while no clear is in progress, what there is of meta
\* and jobs belongs to a trace that can be evicted, and each trace has both unless it was written
\* while a clear was in progress.  An eviction, however stale the reads it was decided on, takes a
\* trace whole or not at all.
IndexAgrees ==
  ~InClear => /\ meta \subseteq Held /\ Held \subseteq ToSet(traces)
              /\ ToSet(traces) \ torn \subseteq meta

\* A key mirrored under a trace can be searched for: no eviction, of the trace or of another,
\* removes the entry of a key whose trace still owns it, and a clear does so only for a trace that
\* was written while it was in progress.
MarkersSearchable == \A m \in markers : m \in keys \/ m[1] \in torn

AtRest == \A h \in Handler : ~Busy(h)

\* When the handlers are done and no call failed, the index is within its cap, whatever they saw of
\* one another and of a clear.
TracesTrimmed == AtRest /\ ~failed => Len(traces) <= RecentTraces

\* Concurrent handlers overrun the limits of a trace only by what they have in flight, and however
\* many events arrive the overrun does not add up.  For the jobs it is one per handler: those that
\* counted before the trace was full, and those that counted before the truncation marker and
\* looked for the marker after it; a handler alone keeps the limit.  For the keys, each handler is
\* within the budget.
OverrunBounded ==
  LET n == Cardinality(Handler) IN
  \A t \in Trace :
    /\ Cardinality(JobsOf(t)) <= JobsPerTrace + (IF n = 1 THEN 0 ELSE n)
    /\ Cardinality(MarkersOf(t)) <= KeysPerTrace * n
=============================================================================
