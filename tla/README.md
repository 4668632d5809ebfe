# A TLA+ model of bull-horizon's monitor

bull-horizon watches Bull and BullMQ queues. A *monitor* process mounts a GraphQL API and a
dashboard next to an application, listens to the terminal events of the queues it is given,
and keeps metrics in the Redis of those queues. Several monitors (*replicas*) may watch the
same queues. *Workers*, which are other processes, leave agent runs in the log of the jobs they
execute, and hand a trace from job to job.

This directory holds a specification of the parts of that system in which order matters: how a
worker records a run and hands on a trace, what happens between an event and the numbers in
Redis, and the readers that take several reads of a moving queue. Paths below are relative to
`packages/root/src/` unless they start with `docs/` or `packages/`.

## 1. Inventory

| Component | State it keeps | Operations | What is hard | What makes it correct |
|---|---|---|---|---|
| `metrics-collector.ts`, `main.ts` | per-queue gauges and totals, the list of queues, callbacks on adapters, the scheduler job | terminal events, the tick (`_taskFn`), `setQueues`, start, stop, clear, reads | every `await` of a tick lets events, reconfiguration and another tick in; series are persisted in order and the first failure ends the tick | an event is counted once, persisted at most once, and not lost silently; totals only grow; an active collector listens to its queues |
| `metrics/tiered-series.ts` | per series, a raw list and one list per rollup tier | `append`, `_rollUp`, `since`, `range`, keys for clear | read-modify-write of the tail; trims after the push; a restart or a clear in between; two replicas on one list | a tier is a ledger: only the open bucket grows, closed ones are immutable, the oldest is forgotten at the cap; a windowed read is complete |
| `metrics/agent-metrics.ts` | accumulators, timers; in Redis the recent runs zset and the hash beside it | `onJobFinished`, `_ingest`, the re-read timer, start, stop, drain, reads | duplicated events, retries, lines that land late, several replicas, four Redis round trips per run | a run is counted once; each execution ends up as a run, skipped, unrecorded or lost; zset and hash agree and stay capped |
| `metrics/flow-metrics.ts` | the points being accumulated; in Redis the traces zset, the jobs zset (jobs, keys and truncation marker of each trace), the keys zset and the meta hash | `onJobFinished`, `_ingest`, `_resolveParent`, `_index`, `_evict`, drain, reads | six reads before the writes they decide; an eviction that races an indexing; limits counted before being enforced; a clear that is no transaction; a point that a tick drains, pushes and folds while the parent of an event counted in it is looked up | an event is counted once; the four structures agree; a trace goes whole or not at all; limits are overrun only by what is in flight |
| `agent/*` (recorder, limits, detail, summarize, contract) | a run in memory, `_closed`, `_closing` | steps, tools, note, finish, fail, skip | user callbacks inside the close that may throw or call the recorder again; a bounded write that still lands later | one closing line per execution, of the first call; no call holds the worker |
| `shared/attempt.ts` | none | the attempt a job is in, or ended with | Bull, BullMQ before 5 and BullMQ 5 count differently, and at different moments | same number from the worker and the monitor |
| `flow/*` (definition, trace, contract, yaml) | the normalised flow graph; the trace in a job's data | normalise, start, encode, continue, resolve a step | cycles, duplicated step ids, two ways to hand a trace on, each with its hop limit | every hop continues one of its trace, and no trace grows without bound; only valid graphs are kept |
| `metrics/histogram.ts` | sparse bands | add, merge, percentile | boundaries | merge is a sum; percentiles stay within their band |
| `queue.ts`, `bull-adapter.ts`, `bullmq-adapter.ts` | the wrapped queue, one callback per event and adapter | getters, job operations, callback setters | two adapters of one queue | setting a callback replaces the previous one |
| `gql/data-sources/bull`, `policies` | a loader per request | job and queue mutations behind the readonly policy | a memo that is stale after a mutation; many jobs in one mutation, one of which fails | no mutation of a readonly queue |
| `gql/data-sources/agents`, `flows`, `metrics` | per request, the budget of a scan | aggregate reads, pending scan, trace search | queues scanned at once from one budget; index entries that go while being read | what is shown was stored; a scan that is not flagged partial is complete |
| `data-search.ts` | a cursor | scan with a filter | the queue moves under the scan; a cursor that counts what could be read | every match once, and the end is reached |
| `prometheus.ts` | none | render | counters that reset | — |
| `gql/*`, framework adapters, CLI | none | map and mount | — | — |
| `packages/ui` | client stores | navigation, polling | — | — |

Interactions: adapters call the collector's callbacks; the collector hands each event to the
agents (which read the job themselves) and to the flows (with the job it read); on a tick it
drains both and appends to three `TieredSeries`; the data sources read the same keys; the
mutations `clearMetrics` and `clearAllMetrics` delete them with a pipeline of `DEL`s.

`PROJECT.json` lists the same components with their status, and under `hazards` the places in
the code where something may go wrong that a test would hardly reach, with the properties that
watch them.

## 2. Modules

| Module | Models | Extends |
|---|---|---|
| `AgentRecorder` | `Recorder.finish`, `fail`, `skip`, `note` and `createAgentRun`, `writeLogLine`; `currentAttempt` and `terminalAttempts` over the life of a job in each library | standard modules |
| `AgentMetrics` | `AgentMetrics.onJobFinished`, `_ingest`, re-reads, and what they depend on: the worker's executions, the log, the events, the connection of each replica, stops, crashes, failed calls, clear | standard modules |
| `RollupLedger` | what a rollup tier promises (abstract) | standard modules |
| `TieredSeries` | `TieredSeries.append`, `_rollUp`, `since`, clear; instantiates `RollupLedger` with the lists read as ledgers | `Sums`, `SequencesExt` |
| `MetricsCollector` | events, the tick, `setQueues`, start, stop, clear, restart, over the three series | `Sums` |
| `FlowCounters` | `startTrace`, `withTrace`, `encodeTrace`, `continueTrace`, `resolveFlowStep`; the counters of `FlowMetrics._ingest` against `drain`, the push and the fold of a point | `Sums` |
| `FlowIndex` | `FlowMetrics._resolveParent`, `_index`, `_evict`, and the clear of a flow's index | `SequencesExt` |
| `JobLists` | the lists of jobs a reader finds, and how they change under it | `SequencesExt`, `Sums` |
| `PendingScan` | `_scanPending`, `_scanQueue` of the flows' data source | `JobLists` |
| `ListSearch` | `PowerSearch.search` over a `ListIterator` | `JobLists` |
| `QueueReads` | the two readers over the same changing lists | `PendingScan`, `ListSearch` |
| `Sums` | sums over an interval and over a finite set; the members of a sequence that a set selects | standard modules |
| `Sums_proofs` | induction over the naturals, lemmas about `Sums` | `Sums`, `TLAPS` and its libraries |
| `AgentRecorder_proofs`, `AgentMetrics_proofs`, `TieredSeries_proofs`, `MetricsCollector_proofs`, `FlowCounters_proofs`, `FlowIndex_proofs`, `QueueReads_proofs` | theorems about each module | the module; `Sums_proofs` and the libraries where needed |
| `MC*` | the instances TLC checks | the module they instantiate |

### Correspondence

**AgentRecorder.** The recorder is synchronous code that calls the application back, so its calls
are frames of `stack`: a frame stands at a callback (`pc`) while the calls made from the callback
run above it, and `next` is where it goes on when the error listener returns. `rec` is the recorder
of the latest attempt, with `_closed` and `_closing`; `rec.first` is history. `writes` is every call
of `job.log`: `log` is whether Redis has settled it, `call` what the worker was told, by Redis or by
the timer. `job` is the life of the job in its library: when `attemptsMade` and `attemptsStarted`
change differs between the three, and `Activate`, `End`, `Stall` and `ManualRetry` change them as
each library does (external, as the code in `shared/attempt.ts` relies on it). A stalled job is put
back, or failed past its limit of stalls (`docs/flows.md:302-304`).

**AgentMetrics.** `task[h]` is one call of `onJobFinished`; `pc` names the Redis call it awaits
and the other fields are its local variables. `sent[r]` is the order in which the index commands
of one process wait on its single connection: it is what makes concurrent handlers of *one*
process safe where two processes are not. `job`, `log`, `late` and `ended` are the worker's
side. `index` and `data` are the zset and the hash. A run is `<<job, attempt>>`, standing for the
member `jobId:attempt:startedAt`. `processedOn` and `isCurrentAttemptRun` compare times; the
model compares the attempt that started last with that of a line, and the
hash of a job in `Untimed` may lack its `processedOn`. `counted`, `evicted` and `broken` are history, read by no action's guard.

**TieredSeries.** `writer[w]` is one `append` in progress. `Stamp` takes the time when the tick
takes it, which may be long before the first push. A writer is a chain of ticks that do not
overlap: the normal process is one writer, two replicas (or ticks that overlap) are two. A clear
deletes the keys one by one, raw list first, in the order of `keys()`. `widen` and `since` are
pure operators on a list.

**MetricsCollector.** A *cell* is a series of a queue. `held` is everything in memory (gauges
and the accumulators of agents and flows), `tick[k].taken` what a running tick has taken out,
`stored` what reached Redis, `dropped` what the code knowingly gives up. An *adapter* is an
object that wraps a queue: `listens` holds those whose callbacks are set, which is not the same
as those configured. `reset` is history: the queues whose running total went back to zero, with the
process or with a `setQueues` that removed them. `append` is one step here; `TieredSeries` takes it apart.

**FlowCounters.** `jobs` is every job enqueued, with the trace its data carries; `Start` is a job
that arrives from outside, `Child` one enqueued by another, in its processor (`withTrace`) or by a
callback (`encodeTrace`, `continueTrace`), which the model does not tell apart because both end at
the same limit. `startTrace` may be given an id from outside, which other jobs carry already, and a
parent; a trace handed on may lack its parent when no reference to it could be read. `Ingest` is `_ingest` up to the lookup of the parent and `Resolved` what follows it.
In between the point (`jobs[i].point`) may be drained, pushed and folded: a drain copies its numbers
and shares its maps, so a point has the value that goes on changing (`value`) and the one that was
pushed (`raw`). `found` is history: what had become of the point by then.

**FlowIndex.** `task[h]` is one call of `_index` followed by `_evict`. The jobs zset of the code
holds three kinds of members, kept apart here as `jobs`, `marks` (truncation) and `markers`
(keys). An entry carries whether its parent was found, which is what makes two members of one
execution differ. `traces` is ordered by score; a new trace may take any place, since clocks of
replicas disagree. `read` counts the traces whose keys `_evict` has read so far, one call each.
`clear[c]` is one `clear` or `clearAll`: the key of the index it deletes next, in the order of `keys()`;
the commands of a pipeline follow one another on its connection, and those of other processes fall in
between. One that is cut short stays where it is. `torn` is history: the traces written while a clear was
in progress.

**PendingScan, ListSearch.** `lists[q][s]` is what `LRANGE` sees. `scan[q]` is one `_scanQueue`
with its local variables, `left` the budget object they share; all of them reserve their first page
before any read answers, because the code up to the first `await` is synchronous. `cut` is history.
`search` is one `PowerSearch.search`: the ids read once, the cursor, the accumulator. A job removed
since the ids were read is still evaluated, without its data: `MatchingGone` are those that match then. A behaviour of
`QueueReads` serves one request, a scan or a search, so that the two need not be multiplied.

A definition whose comment starts with WRONG is a plausible bug (a dropped guard, a missing
reset, an off-by-one). None is used by a specification: each is what `PROJECT.json` puts in
place of the definition below it, under `mutants`, to show that a property notices.

## 3. Runs

| Run | What it shows | Instance |
|---|---|---|
| `agent_index` | a run is counted once per admission to the index, its entry is there, the index is trimmed | 2 replicas, 2 concurrent handlers, 2 jobs, cap 1, 1 redelivered event, 2 faults (a fault is a failed call, a lost reply, a stop, a crash or a clear) |
| `agent_accounting` | whatever an execution leaves behind, it is accounted for when its job has settled; every event settles; in one process the hash follows the index | 1 replica, 2 handlers, 1 job executed twice by retry or by hand, all outcomes, with and without `processedOn` |
| `agent_recorder` | one closing line per attempt, of the first call; the number the worker writes is the one the monitor computes; every call resolves | 3 libraries, 3 calls, nested up to 2 deep from the event and the error listener, 2 activations, stalls that put the job back or fail it, 2 exceptions anywhere but in the clock |
| `tiered_series` | tiers implement the ledger, conserve what was folded, stay aligned and bounded; windowed reads are complete | 1 writer, raw cap 4, tiers of 2 and 4 time units keeping 2 and 1 buckets, 5 instants, 1 failure, 1 clear; the reader's interval (3) is not the writer's (1) |
| `collector` | nothing is persisted twice or vanishes; until a running total is set back the series stays within it, and the totals of kept queues grow; an active collector listens | 2 queues, 2 overlapping ticks, 2 events, 2 changes, no failure |
| `collector_liveness` | what is held is taken in the end, and with failing calls too nothing is persisted twice or vanishes | 1 queue, 2 ticks, 1 event, 2 changes, 2 failures or restarts |
| `flow_counters` | every hop continues one of its trace, within the limit; every event is counted once; a stored point is torn only by a lookup in flight; edges are folded, not lost | 3 jobs of 3 kinds over 2 queues and 3 steps, 2 points, hop limit 1, 2 edges; `startTrace` is given ids from outside but no parent |
| `flow_index` | between clears the index structures agree but for traces written during one, no key of the others goes, they are trimmed at rest, and overrun their limits only by what is in flight | 2 handlers, 2 traces, 4 jobs, caps of 1 on traces, jobs and keys, 4 events, 1 failed call or clear |
| `queue_reads` | a scan keeps its budget, and is complete when it is neither flagged nor cut; a search gives every match once and in order; both end | 2 queues of up to 4 and 2 jobs in 2 statuses, in every split, pages of 2, limit 3, total 5, 1 change of the lists, 1 failed read; a removed job may match or not, whatever it did before |

The bounds are small, but each cap is below what the events can produce, so that evicting,
trimming, truncating, cutting a page and folding an edge are the normal case; two handlers (or ticks,
or scanned queues) are enough for every
pairwise interleaving of the read-decide-write sequences, all of which involve two parties. The
budgets (`MaxRepeats`, `MaxFaults`, ...) bound the number of disturbances in one behaviour, not
where they fall. The constants that bound counters are marked `bound:` in each module. In
`flow_counters` three jobs are the least that give a chain past the hop limit and a fan-out, and two
points the least that let one be folded while an event of the other waits; a trace
that is opened with a parent is one `withTrace` opens for an untraced job, so that `Origins`, the parents
`startTrace` may be given, is empty there (the proofs have any). In `flow_index` the jobs `x1` and `x3`,
and the two handlers, are alike and permuted.

What the runs do not reach: a re-read that fires after its collector stopped (the two-replica run has no
late lines, the other no stops); two faults of a flow's index in one behaviour; a search in the presence of
failed reads beyond that it ends, for the cursor then goes by the jobs that could be read and one may be
given twice.

Only the collector's runs ask for deadlock freedom, since its tick always goes on. The others stop
when their bounds are used up, or when the request they model is answered.

### Disagreements with the documentation

Three runs check one property each that a document or comment states, and TLC finds a behaviour of
the code that breaks it:

| Run | Statement | What happens |
|---|---|---|
| `agent_counted_twice` | `docs/agent-runs.md:674-676`: duplicated events do not double count | the deduplication record is the capped index: a run that left it is new again |
| `collector_rewrapped` | `metrics-collector.ts:27-30`: completed and failed count the jobs that finished | `setQueues` with a new adapter for a queue leaves the old adapter's callbacks on |
| `scan_unflagged` | `gql/data-sources/flows/index.ts:72-78`: past the budget a trace is flagged partial | a page cut by the shared budget is followed by one that starts a whole `PENDING_PAGE` later; if another queue gives its share back in between, the jobs skipped are never read and nothing is flagged |

The models show more of them, which have no run of their own. To see one, change the instance as said:

- `data \subseteq index` fails with two processes: another replica evicts a member between its ZADD
  and its HSET, and the entry stays in the hash for good, though
  `metrics/agent-metrics.ts:684-687` says HDEL removes exactly what ZREM removes. In one process the
  order of the replies on the connection protects it, but when a run that left the index comes back,
  read again from an old line, while another handler still holds it in its overflow. This is why
  `HashFollowsIndex` supposes that no run was counted twice. (Two replicas, two handlers, no fault; or
  one replica, three handlers, two jobs and one redelivery, without `CountedOnce`.)
- `RollupConserves` fails with two writers: a late LSET with a stale tail overwrites the next bucket
  with the previous total, though `docs/agent-runs.md:674-676` says several replicas do not double
  count. (Two writers, one tier of 2 keeping 2, `MaxTime` 2.) The theorem has one writer for its
  assumption.
- `AtRest => keys \subseteq markers` fails in `flow_index`: a key written between the eviction's
  read and its MULTI stays (`metrics/flow-metrics.ts:755-756`).
- `~InClear => ToSet(traces) = meta` and `markers \subseteq keys` fail in `flow_index`: "clear metrics" is a
  pipeline and no transaction (`metrics-collector.ts:245-263`), so a MULTI between two of its DELs leaves a
  trace without its meta or its jobs until it is evicted or written again, and one between the DEL of the
  jobs and that of the keys leaves a key that later events of the trace take for known and nobody finds.
  `IndexAgrees` and `MarkersSearchable` say that this happens to such a trace only.
- `\A e, f \in jobs : e.job = f.job => e = f` fails in `flow_index`: the parent is removed between two
  deliveries of an event, the members differ, and the execution is listed twice, though
  `docs/flows.md:379-381` says the trace index is idempotent.
- `OneClosingLine` fails when the clock may throw or call the recorder (add `"clock"` to `Throwing`
  or `Reentrant`): `skip` marks nothing until its line is made, so a close gets in between, against
  "only the first call writes" (`docs/agent-runs.md:275`). The clock is an option of the
  recorder, meant for tests; the theorem has a clock that only answers for its assumption.

## 4. Fairness

`AgentMetrics!FairSpec`: a handler that awaits a reply gets one or fails (weak fairness per
handler: promises settle), and a delivered event or a due timer eventually starts a handler
(strong fairness, because the slots of the model are bounded while the code's are not). Nothing
is assumed of the worker, of redeliveries, of failures or of start and stop.

`AgentRecorder!FairSpec`: a call on the stack goes on (it is synchronous code) and the timer against a
log write fires. Nothing is assumed of Redis: that every call resolves though `job.log` never
answers is the point.

`MetricsCollector!FairSpec`: the scheduler fires while the collector is active and a tick that
waits for a reply goes on (weak fairness per tick), and a job read returns. Failures are not
fair and are bounded: a series whose append failed forever would indeed keep the next ones from
being drained.

`QueueReads!FairSpec`: Redis answers, or fails, what a reader asks.

## 5. Proofs

Each theorem holds for every value of the constants that satisfies the module's named assumption:
any number of replicas, handlers, jobs, queues, adapters, tiers, and any bounds. The runs check the same
invariants on a small instance.

**AgentMetrics** (`AgentMetricsAssumption`; no set needs to be finite)

- `TypeCorrect`. `TypeOK` is a conjunction of parts (`WorkerType`,
  `PendingType`, `TaskType`, `SentType`, `IndexType`, `HistoryType`) and is inductive; there is a
  lemma per action for the parts it may disturb. Beyond types it says that a handler about to
  index has a run to index, and that the lines left to do are lines it has read: without the
  first, the next two theorems do not go through.
- `CountedOncePerAdmissionHolds`, inductive
  relative to `TypeOK`. The argument is local to a run: an action that counts it (`Zadd`) also
  admits it, and finds it absent; an action that removes it (`Multi`, `ReplyLost`, `ClearIndex`)
  counts an eviction; the others touch none of the three terms.
- `IndexedRunHasEntryHolds`, inductive relative to `TypeOK`. The
  two cases that matter: a handler that leaves the stages after its ZADD either wrote the entry
  or marked the run broken; and whatever HDEL removes, ZREM removes in the same MULTI.
- `IndexTrimmedHolds`. `TrimInv`: while nothing failed and the index is over its cap, some handler has
  yet to read what is over, or has read enough of it. A handler that adds a run is one of these; what
  others evict meanwhile only leaves less to do.
- `HashFollowsIndexHolds`, assuming one replica and that no step is `ClearIndex`. It is the deepest
  argument of the module, in layers: a run that a handler or the index knows has ended, and its finish
  time, the score, does not change (`RunsInv`); a handler waits for a reply exactly when it is on its
  connection, once (`QueueInv`); a run in an overflow has as many newer runs in the index as the cap,
  whoever adds or evicts since (`AgeInv`); what is or was indexed was counted (`CountedInv`), so that a
  run that comes back is counted twice. From these, `EntryInv`: the run a handler is about to write is
  in the index, and whoever is to evict it is answered after it.
- `SettledJobAccountedHolds`, assuming that there is a replica and that no step is a `Fault` (a failed call,
  a lost reply, a stop or a crash: each loses an event or a handler, which the code accepts; clears are
  allowed). `IndexCounted`: what is indexed was counted, so that a known run needs no more. `RecordInv` says what
  a job's record, its lines and its late lines may be together. `AccountInv`: of a finished job, either
  something is still pending, an event, a timer, or a handler that has not read it, or each part of its
  account, run by run, the value, the skip and the unrecorded, was counted or is owed by a handler whose
  reads are recent enough to count it. The work is to say when a stale read does not matter.

**AgentRecorder** (`AgentRecorderAssumption`)

- `TypeCorrect`: `TypeOK` is inductive once the frames are known to be well formed.
- `OneClosingLineHolds`, assuming `ClockOnlyAnswers` (the clock neither throws nor calls back; see
  section 3 for what happens otherwise). The invariant `RecorderInv` adds two parts. `CallsInv` says
  where frames may stand: at most one finish or fail is on the stack, just when the recorder is
  closing, and a skip makes its line before anything can run above it. `LinesInv` relates the
  closing lines to `_closed` and to the call that came first. An exception between the two is
  the case that takes the work: the frame falls back to the skeleton line, or leaves the recorder open.
- `LinesOfLastAttemptHolds`, for all three libraries. `NumbersInv` says what each library's counters
  are while a job waits, runs and has ended, relative to the number of activations; that a recorder
  that may still be called has the number of the attempt under way; and that a line keeps the
  number of the activation that wrote it. The exceptions the property states are Bull's, which does
  not count a stall: the attempt after one has its number again, and a job failed for its stalls that of the
  attempt that failed before.

**TieredSeries** (`TieredSeriesAssumption`)

- `TypeCorrect`, with any number of writers.
- `LengthBoundedHolds`, with any number of writers (the set is finite): a push puts its writer among those
  that trim, and a trim or a failure takes it out.
- `RollupConservesHolds`, assuming `OneWriter`. What a tier holds is a sum over its list: a push adds
  the point's count, a merge into the last bucket adds it there, a trim takes off the first. `TailInv`
  is what one writer gives: from the read of the tail to the write, the tail is the last element of the
  list, or a clear has emptied it, and then LSET fails. Two writers break just that.
- `BucketsIncreasingHolds`, assuming `OneWriter`. `OrderInv` adds that no bucket is after the last point
  stamped, that an append carries that point, and that a tier to be trimmed is over its retention.
- `ImplementsLedgerHolds`, assuming `OneWriter`: the refinement of `RollupLedger`, from the same
  invariant. Each step maps to a fold into the newest bucket or a new one, to forgetting the oldest, to a
  clear, or to a stutter; the mapping reads a list whose buckets increase as a function, and it is
  there that no bucket may appear twice.
- `WindowIsCompleteHolds`, assuming `OneWriter`. `RawInv`: the raw points increase too. On an increasing
  list a read whose first point is not after the start of the window missed none of its points, and
  the widening ends with such a read, with the whole list, or at the cap: a lemma about `since` for every list,
  window and estimate.

**MetricsCollector** (`MetricsCollectorAssumption`)

- `ListensWhenActiveHolds`, inductive as it stands but for what a
  tick leaves alone.
- `TotalCoversSeriesHolds`. `TotalsInv`: a total that was never set back is all that was counted of its
  queue, and a window in memory is part of the total always. It rests on `Conserved` and on
  `CountersType`, the part of the type invariant about counters, which also says that only the agents and
  the flows read a job before they count it: without that, a late read could bump a window without its
  total.
- `TotalsGrowHolds`, the action property, from `CountersType`.
- `ConservedHolds`: what is held, taken by the ticks, stored and dropped sum up to what happened, per
  cell. The ticks' part is a sum over a finite set; every action changes one tick, so
  `SumOverChange` gives the difference, and the difference goes to the term the action moves it to.
- `TypeCorrect`, from the same parts.

**FlowCounters** (`FlowCountersAssumption`)

- `HopsFollowHolds`. `TraceInv` adds that a trace id is not above the number of jobs, so that a generated
  one is new: several jobs may open a trace of one id, and what follows them follows one that was there.
- `TypeCorrect`, `EventsCountedOnceHolds`, `CompletionsCountedHolds`, `TornOnlyInFlightHolds` and
  `EdgesKeptHolds`, from one invariant, `CountInv`. `Accounted` states for every field at once that
  its total over the points and the tier is the number of jobs due in it; a step changes one job and one
  point, so it moves a field's total and the number of jobs due by the same amount. A fold moves
  a point's value into the tier and its jobs stay due, which is why `found` records whether the point was
  folded by the time a lookup came back. `WholeInv` says which points are not torn, before they are drained
  and after. The merge of two edge maps keeps the sum of their counts whichever edges it folds into the
  others.

**FlowIndex** (`FlowIndexAssumption`): `TypeCorrect`, `IndexAgreesHolds`, `MarkersSearchableHolds`,
`TracesTrimmedHolds` and `OverrunBoundedHolds`. The first three are from one invariant, `IInv`. To the
properties it adds `ClearInv`, what a clear between two of its DELs may have left of a trace or taken from
one, and `Progress`, what a handler may rely on: before an eviction, nothing of what it read;
while it reads the keys of the traces to evict, that there is one left to read; and always that the
keys it is to remove were read under traces it is to remove. That
is why the eviction takes no key from a trace that lives on, however old its reads are, and why
the index agrees: each MULTI writes or removes a trace in all the structures, and what a clear leaves
behind at one DEL is deleted by a later one.
`TracesTrimmedHolds` adds `TrimInv`: while no call failed and the traces are past the cap, some handler
will bring them back, because it is about to count them, or it counted enough to remove (`oldest`), or
the traces it has read to remove leave no more than the cap. The evictions of others only leave it
less to do, and a handler that adds a trace is itself about to count.
`OverrunBoundedHolds` adds `LimitInv`, per trace: its keys and what each handler may still add are within
the handlers' budgets together, a sum over the handlers; and once its jobs are past the limit, they and
the handlers that may still add one do not exceed it by more than the number of handlers. A handler may
still add when it counted too early, or when the keys it knows of are gone and it subtracts too many. The number of
handlers is finite, as an assumption: it is what the bound is in.

**QueueReads** (`JobListsAssumption`, `PendingScanAssumption`, `ListSearchAssumption`): `QueueInv` is the
invariant of the four.

- `TypeCorrect` and `BudgetKeptHolds`. A queue that has not asked holds nothing and a reading
  queue is at one of the statuses; an answer moves what a page did not need from the queue's term of
  the sum to what is left, and no queue appears twice in the flow's order, so that the sum changes in
  one place only.
- `CompleteUnlessCutHolds`. `StillSound`: while nothing changes, fails or is cut, a queue has found exactly
  the jobs of the trace before its place, in the statuses before its own and before `start` in this one, and
  its next page is as long as a page or its limit allows, so that a short page is the last.
- `SearchExactHolds`. `Faultless`: what the search has found is what `Among` selects of the ids before the
  cursor, in order; with jobs removed meanwhile, it is one-to-one, and differs from that by those only.

**Sums.** The provers have no induction over data, and the libraries' induction theorems take an
operator. `Sums_proofs` states induction for a *set* (`SetInduction`: a set with 0, and with n + 1 for
each n of it, holds every natural number), from the least element principle, which follows from the
library's well-founded order on `Nat`. A predicate becomes the set of the n it holds for, and
so the partial sums of `Sums`, its selection `Among` and the filter `Without` of `FlowIndex` exist and
have the properties one expects: a sum changes by what one term does, and is at most its length times a
bound of its terms; a selection of a concatenation is the concatenation of the selections. This is why these
are written as recursive functions; no module uses `RECURSIVE`.

Every invariant of the passing runs, the action property `TotalsGrow` and the refinement
`ImplementsLedger` are proved. What several of the theorems assume beyond the constants' assumptions is a
part of their statement (one writer, one replica, a clock that only answers, no
clear of the index, no fault), and is said above together with what happens otherwise.

Model checked only: liveness (`EventsSettle`, `CallsResolve`, `HeldIsTaken`, `ReadsEnd`), which with
`ENABLED` is out of the provers' reach. TLC checks these on the instances of section 3.

## 6. What is not modelled

- The content of points (latencies, tools, models, job counts, processing times) and their
  rendering: no control depends on it. So the histogram is left out.
- `ai.jobs`: `AgentJob` is a constant of the model, but the instances only have agent jobs; a
  job of another name leaves `onJobFinished` right after it was read.
- The 200-line log tail: a job of the instances has at most four lines.
- Of the recorder: steps, tools and the cutting of a line to its size (content); a call on the
  recorder of an attempt that another one has followed; a note whose text cannot be converted.
- Of the flows: the validation of a configuration and of a received trace (one synchronous pass that
  refuses what it does not understand); durations; the trace view and the search over the index; the
  limit of scans per request, a counter.
- Of the search: the walk over a sorted set, which follows Redis's ZSCAN cursor and has its
  guarantees, no more.
- The mutations of jobs and queues and the readonly policy: each is a synchronous check and one
  call of Bull or BullMQ; many jobs in one mutation are read, then acted on, all at once. They keep
  nothing; the per-request memo of counts is as old as the request. The manual retry is in the
  life of a job of `AgentRecorder` and `AgentMetrics`.
- The readers of agents and metrics fold over what was stored.
- The dashboard, demo fixtures, generated typings, the framework adapters, the CLI, the exporter and
  the schema. They are most of the lines of the repository: stateless mappings, or state of a
  browser (navigation, preferences, polling) of which no other part depends.

## 7. Plan

Done: the recorder and attempt numbers, the ingestion of runs, the tiered series, the collector, trace
propagation and counters, the flow index, the two readers of moving queues, and the proofs above.

Left, in this order:

1. The mutations of several jobs with the memo of a request.
2. The flow definition: normalisation as operators, against a reference reachability.
3. `FlowCounters` composed with `FlowIndex` in place of its constant `TraceOf`.
