--------------------------- MODULE MetricsCollector ---------------------------
(***************************************************************************)
(* The metrics collector of one monitor process (packages/root/src/        *)
(* metrics-collector.ts, with the life cycle main.ts gives it): terminal   *)
(* events bump in-memory counters, and a scheduled tick takes the window   *)
(* and persists three series in order: throughput, agents, flows.          *)
(*                                                                         *)
(* Every await of _taskFn is a step of its own, so events, setQueues, stop *)
(* and start fall inside a tick; ticks may overlap, for the version range  *)
(* of toad-scheduler the package allows does not settle whether they can.  *)
(*                                                                         *)
(* Abstracted: completed and failed events, which the same statements      *)
(* count; one event is one unit, in every series it reaches; the flows'    *)
(* points are kept apart by the queue the event came from; append is one   *)
(* step (TieredSeries takes it apart), partial when it fails.              *)
(***************************************************************************)
EXTENDS Integers, FiniteSets, Sums

CONSTANTS
  Queue,       \* queue ids
  Adapter,     \* adapter objects a configuration may wrap a queue in
  QueueOf,     \* the queue id of each adapter
  AgentQueue,  \* queues marked as agent queues
  FlowQueue,   \* queues that hold a step of some flow
  Tick,        \* ticks that may be in progress at once
  MaxEvents,   \* bound: jobs that finish
  MaxChanges,  \* bound: setQueues, stop, clear
  MaxFaults    \* bound: failing calls, restarts

ASSUME MetricsCollectorAssumption ==
  /\ QueueOf \in [Adapter -> Queue] /\ IsFiniteSet(Adapter) /\ IsFiniteSet(Tick)
  /\ AgentQueue \subseteq Queue /\ FlowQueue \subseteq Queue
  /\ {MaxEvents, MaxChanges, MaxFaults} \subseteq Nat

Series == {"throughput", "agents", "flows"}
Cell == Series \X Queue

VARIABLES
  queues,    \* the adapters configured now
  active,    \* _isActive, and the scheduler job runs
  listens,   \* adapters whose terminal callbacks are set
  held,      \* what is counted in memory: the gauges, and the agents' and flows' _pending
  total,     \* the cumulative counters behind prometheus
  reading,   \* events whose job is still being read for the agents or the flows
  tick,      \* the ticks in progress: their next await and what they hold
  stored,    \* what was persisted
  budget,    \* what is left of the bounds
  reset,     \* history: queues whose cumulative counter was set back
  finished,  \* history: jobs that finished, per queue
  counted,   \* history: units ever added to held
  dropped    \* history: units given up: failed calls, removed queues, restarts, clears

vars == <<queues, active, listens, held, total, reading, tick, stored, budget, reset, finished,
          counted, dropped>>

Ids(adapters) == {QueueOf[a] : a \in adapters}
Nothing == [c \in Cell |-> 0]
Idle == [pc |-> "idle", taken |-> Nothing]

Plus(f, g) == [c \in Cell |-> f[c] + g[c]]
Only(f, cells) == [c \in Cell |-> IF c \in cells THEN f[c] ELSE 0]
CellsOf(series, ids) == {series} \X ids

\* A list of queues: no two adapters of it wrap the same queue.
Configurations == {s \in SUBSET Adapter : \A a, b \in s : QueueOf[a] = QueueOf[b] => a = b}

Spend(what) == budget[what] > 0 /\ budget' = [budget EXCEPT ![what] = @ - 1]

-----------------------------------------------------------------------------
\* Events.

\* The definitions marked WRONG are bugs this code could have had: each is put in place of the
\* definition after it to see that a property notices.

\* The callbacks an event of the queue reaches.
Calls(q) == Cardinality({a \in listens : QueueOf[a] = q})

\* A job of the queue finishes: every adapter listening to that queue calls its callback,
\* which bumps the counters at once and reads the job for the agents and the flows.
JobFinishes(q) ==
  LET calls == Calls(q)
      bump(c) == IF c = <<"throughput", q>> THEN calls ELSE 0
      read(c) == IF c \in CellsOf("agents", AgentQueue \cap {q})
                          \cup CellsOf("flows", FlowQueue \cap {q}) THEN calls ELSE 0
  IN  /\ Spend("events")
      /\ finished' = [finished EXCEPT ![q] = @ + 1]
      /\ held' = [c \in Cell |-> held[c] + bump(c)]
      /\ counted' = [c \in Cell |-> counted[c] + bump(c)]
      /\ total' = [total EXCEPT ![q] = @ + calls]
      /\ reading' = [c \in Cell |-> reading[c] + read(c)]
      /\ UNCHANGED <<queues, active, listens, tick, stored, reset, dropped>>

\* The job was read: it counts in the accumulator, or not (no run of its own, already indexed,
\* a failed read; for the flows, also when its queue has left the configuration).
JobRead(c) ==
  /\ reading[c] > 0
  /\ reading' = [reading EXCEPT ![c] = @ - 1]
  /\ \/ UNCHANGED <<held, counted>>
     \/ /\ c[1] = "flows" => c[2] \in Ids(queues)
        /\ held' = [held EXCEPT ![c] = @ + 1]
        /\ counted' = [counted EXCEPT ![c] = @ + 1]
  /\ UNCHANGED <<queues, active, listens, total, tick, stored, budget, reset, finished, dropped>>

-----------------------------------------------------------------------------
\* A tick: _taskFn.

Advance(k, pc, taken) == tick' = [tick EXCEPT ![k] = [pc |-> pc, taken |-> taken]]

\* WRONG: the windows are not zeroed when they are taken.
CollectKeeps(k) ==
  /\ active /\ tick[k] = Idle
  /\ Advance(k, "counts", Only(held, CellsOf("throughput", Ids(queues))))
  /\ UNCHANGED <<queues, active, listens, held, total, reading, stored, budget, reset, finished,
                 counted, dropped>>

\* _collect up to its await: the windows of the configured queues are taken and zeroed.
Collect(k) ==
  LET cells == CellsOf("throughput", Ids(queues)) IN
  /\ active /\ tick[k] = Idle
  /\ Advance(k, "counts", Only(held, cells))
  /\ held' = [c \in Cell |-> IF c \in cells THEN 0 ELSE held[c]]
  /\ UNCHANGED <<queues, active, listens, total, reading, stored, budget, reset, finished,
                 counted, dropped>>

\* WRONG: the tick returns early, with the windows it has taken.
CountsReturnsEarly(k) ==
  /\ tick[k].pc = "counts"
  /\ tick' = [tick EXCEPT ![k].pc = "idle"]
  /\ UNCHANGED <<queues, active, listens, held, total, reading, stored, budget, reset, finished,
                 counted, dropped>>

\* getJobCounts returned for every queue.
Counts(k) ==
  /\ tick[k].pc = "counts"
  /\ tick' = [tick EXCEPT ![k].pc = "throughput"]
  /\ UNCHANGED <<queues, active, listens, held, total, reading, stored, budget, reset, finished,
                 counted, dropped>>

\* WRONG: an accumulator is never due.
DrainNothing(k, series) == Advance(k, series, Nothing) /\ UNCHANGED <<held, dropped>>

\* The next series is drained: what its accumulator holds is taken, for the queues still
\* configured (the agents) or all of it (the flows), and the accumulator is emptied.
Drain(k, series) ==
  LET all == CellsOf(series, Queue)
      cells == IF series = "agents" THEN CellsOf(series, Ids(queues)) ELSE all
  IN  /\ Advance(k, series, Only(held, cells))
      /\ held' = [c \in Cell |-> IF c \in all THEN 0 ELSE held[c]]
      /\ dropped' = Plus(dropped, Only(held, all \ cells))

\* append took the points; the Redis client it used is that of the first queue.
Persisted(k) ==
  LET s == tick[k] IN
  /\ s.pc = "throughput" \/ s.taken # Nothing => queues # {}
  /\ stored' = Plus(stored, s.taken)
  /\ \/ s.pc = "throughput" /\ Drain(k, "agents")
     \/ s.pc = "agents" /\ Drain(k, "flows")
     \/ s.pc = "flows" /\ tick' = [tick EXCEPT ![k] = Idle] /\ UNCHANGED <<held, dropped>>
  /\ UNCHANGED <<queues, active, listens, total, reading, budget, reset, finished, counted>>

\* WRONG: a failed append is tried again with every point.
GiveUpToRetry(k) ==
  LET s == tick[k] IN
  /\ \E written \in SUBSET {c \in Cell : s.taken[c] > 0} :
       /\ s.pc = "counts" => written = {}
       /\ stored' = Plus(stored, Only(s.taken, written))
  /\ UNCHANGED <<queues, active, listens, held, total, reading, tick, reset, finished, counted,
                 dropped>>

\* A call of the tick throws: some of the points may have been written, the other ones are
\* gone, and the series after this one are not drained.
GiveUp(k) ==
  LET s == tick[k] IN
  /\ \E written \in SUBSET {c \in Cell : s.taken[c] > 0} :
       /\ s.pc = "counts" => written = {}
       /\ stored' = Plus(stored, Only(s.taken, written))
       /\ dropped' = Plus(dropped, Only(s.taken, Cell \ written))
  /\ tick' = [tick EXCEPT ![k] = Idle]
  /\ UNCHANGED <<queues, active, listens, held, total, reading, reset, finished, counted>>

CallFails(k) == tick[k] # Idle /\ Spend("faults") /\ GiveUp(k)

\* No queue is configured any more: there is no client to persist with.
NoClient(k) ==
  /\ queues = {}
  /\ tick[k].pc = "throughput" \/ (tick[k].pc \in {"agents", "flows"} /\ tick[k].taken # Nothing)
  /\ GiveUp(k)
  /\ stored' = stored /\ UNCHANGED budget

-----------------------------------------------------------------------------
\* The life cycle.

\* stopCollecting: the callbacks of the configured queues are taken off; a running tick goes on.
Stop ==
  /\ Spend("changes")
  /\ active' = FALSE
  /\ listens' = listens \ queues
  /\ UNCHANGED <<queues, held, total, reading, tick, stored, reset, finished, counted, dropped>>

Start ==
  /\ ~active
  /\ active' = TRUE
  /\ listens' = listens \cup queues
  /\ UNCHANGED <<queues, held, total, reading, tick, stored, budget, reset, finished, counted,
                 dropped>>

\* WRONG: the window of a removed queue stays.
ForgottenNever(new) == {}

\* The windows setQueues deletes: those of the queues it removes.
Forgotten(new) == CellsOf("throughput", Queue \ Ids(new))

\* WRONG: setQueues forgets the totals of the queues it keeps.
TotalsReset(new) == [q \in Queue |-> 0]

\* The totals setQueues leaves: those of the removed queues are deleted.
TotalsAfter(new) == [q \in Queue |-> IF q \in Ids(new) THEN total[q] ELSE 0]

\* WRONG: the callbacks wait for the next start.
AttachedLater(new) == listens

\* While the collector is active the callbacks are set on the new list.
Attached(new) == IF active THEN listens \cup new ELSE listens

\* The queues whose cumulative counter this step sets back.
SetBack == {q \in Queue : total'[q] < total[q]}

\* setQueues, to another list of queues.
SetQueues(new) ==
  LET gone == Forgotten(new) IN
  /\ new # queues /\ Spend("changes")
  /\ queues' = new
  /\ held' = [c \in Cell |-> IF c \in gone THEN 0 ELSE held[c]]
  /\ dropped' = Plus(dropped, Only(held, gone))
  /\ total' = TotalsAfter(new)
  /\ listens' = Attached(new)
  /\ reset' = reset \cup SetBack
  /\ UNCHANGED <<active, reading, tick, stored, finished, counted>>

\* clear: the keys of a queue, and those of the flows it takes part in.
Clear(q) ==
  LET cells == {<<"throughput", q>>, <<"agents", q>>}
                 \cup (IF q \in FlowQueue THEN CellsOf("flows", Queue) ELSE {})
  IN  /\ q \in Ids(queues) /\ Spend("changes")
      /\ stored' = [c \in Cell |-> IF c \in cells THEN 0 ELSE stored[c]]
      /\ dropped' = Plus(dropped, Only(stored, cells))
      /\ UNCHANGED <<queues, active, listens, held, total, reading, tick, reset, finished, counted>>

\* What the ticks in progress hold.
InTicks(c) == SumOver(Tick, [k \in Tick |-> tick[k].taken[c]])

\* The process restarts with the same configuration: what was in memory is gone.
Restart ==
  /\ Spend("faults")
  /\ active' = TRUE /\ listens' = queues
  /\ held' = Nothing /\ reading' = Nothing
  /\ total' = [q \in Queue |-> 0]
  /\ tick' = [k \in Tick |-> Idle]
  /\ dropped' = [c \in Cell |-> dropped[c] + held[c] + InTicks(c)]
  /\ reset' = reset \cup SetBack
  /\ UNCHANGED <<queues, stored, finished, counted>>

-----------------------------------------------------------------------------

Init ==
  /\ queues \in Configurations \ {{}}
  /\ active = TRUE /\ listens = queues
  /\ held = Nothing /\ reading = Nothing /\ stored = Nothing
  /\ counted = Nothing /\ dropped = Nothing
  /\ total = [q \in Queue |-> 0] /\ finished = [q \in Queue |-> 0] /\ reset = {}
  /\ tick = [k \in Tick |-> Idle]
  /\ budget = [events |-> MaxEvents, changes |-> MaxChanges, faults |-> MaxFaults]

Step(k) == Collect(k) \/ Counts(k) \/ Persisted(k) \/ NoClient(k)

Next ==
  \/ \E q \in Queue : JobFinishes(q) \/ Clear(q)
  \/ \E c \in Cell : JobRead(c)
  \/ \E k \in Tick : Collect(k) \/ Counts(k) \/ Persisted(k) \/ NoClient(k) \/ CallFails(k)
  \/ \E new \in Configurations : SetQueues(new)
  \/ Stop \/ Start \/ Restart

Spec == Init /\ [][Next]_vars

\* The scheduler fires while the collector is active, a tick runs to its end, a read returns.
FairSpec ==
  /\ Spec
  /\ \A k \in Tick : WF_vars(Step(k))
  /\ \A c \in Cell : WF_vars(JobRead(c))

-----------------------------------------------------------------------------

\* Every variable stays in its type, and an idle tick holds nothing.
TypeOK ==
  /\ queues \in Configurations /\ active \in BOOLEAN /\ listens \subseteq Adapter
  /\ held \in [Cell -> Nat] /\ reading \in [Cell -> Nat] /\ stored \in [Cell -> Nat]
  /\ counted \in [Cell -> Nat] /\ dropped \in [Cell -> Nat]
  /\ total \in [Queue -> Nat] /\ finished \in [Queue -> Nat] /\ reset \subseteq Queue
  /\ tick \in [Tick -> [pc : {"idle", "counts", "throughput", "agents", "flows"},
                        taken : [Cell -> Nat]]]
  /\ \A k \in Tick : tick[k].pc = "idle" => tick[k] = Idle
  /\ budget \in [{"events", "changes", "faults"} -> Nat]

\* Every unit counted is in memory, in one running tick, persisted once, or known to be given
\* up: however events, overlapping ticks, setQueues and failures interleave, none is persisted
\* twice and none vanishes.
Conserved ==
  \A c \in Cell : counted[c] = held[c] + InTicks(c) + stored[c] + dropped[c]

\* The completed and failed counters of a queue count jobs: never more than finished. (It does
\* not hold once a configuration wraps a queue in a second adapter.)
WindowCountsJobs == \A q \in Queue : counted[<<"throughput", q>>] <= finished[q]

\* The two accounts of a queue agree: its persisted series, with the points on their way to it,
\* never exceeds the cumulative counter prometheus scrapes, until a restart or a removal of the
\* queue sets the counter back; from then on only the window in memory is known to be part of
\* it, for setQueues deletes the two together while points already taken are persisted later.
TotalCoversSeries ==
  \A q \in Queue : LET c == <<"throughput", q>> IN
    /\ held[c] <= total[q]
    /\ q \notin reset => held[c] + InTicks(c) + stored[c] <= total[q]

\* An active collector listens to every configured queue, whatever setQueues, stops and
\* starts came before.
ListensWhenActive == active => queues \subseteq listens

\* The prometheus counter of a queue that stays configured only goes back to zero with the
\* process. (Removing the queue resets it too, and adding it again starts from zero.)
TotalsGrow ==
  [][Restart \/ \A q \in Ids(queues') : total'[q] >= total[q]]_vars

\* What a configured queue has in memory is taken by a tick in the end, unless the collector
\* is stopped or the queue removed: a failing series cannot starve the ones after it for good.
HeldIsTaken ==
  \A c \in Cell : held[c] > 0 ~> (held[c] = 0 \/ ~active \/ c[2] \notin Ids(queues))
=============================================================================
