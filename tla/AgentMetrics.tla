---------------------------- MODULE AgentMetrics ----------------------------
(***************************************************************************)
(* Ingestion of agent runs by the monitor (packages/root/src/metrics/      *)
(* agent-metrics.ts), for one agent queue of one Redis server watched by   *)
(* any number of monitor processes (replicas).                             *)
(*                                                                         *)
(* A worker executes jobs; each execution leaves a run line, a skip line,  *)
(* nothing, or a run in the job's returnvalue, and its terminal event      *)
(* reaches every listening replica.  A replica handles an event in         *)
(* onJobFinished, an async function: every await is a step of its own, so  *)
(* handlers of one process and of several interleave between their Redis   *)
(* calls.  What a handler adds to its replica's accumulator is counted     *)
(* here; MetricsCollector models how a tick drains and persists it.        *)
(*                                                                         *)
(* Abstracted: the content of a run (latency bands, tools, models), the    *)
(* detail level and the size caps; a run is the pair <<job, attempt>>, the *)
(* k-th execution of a job being its attempt k, and its finish time is its *)
(* rank in the order in which executions ended.                            *)
(***************************************************************************)
EXTENDS Integers, Sequences, FiniteSets

CONSTANTS
  Replica,     \* monitor processes
  Handler,     \* slots for concurrent onJobFinished calls, over all replicas
  Job,         \* ids of the jobs of the queue
  AgentJob,    \* the jobs queue.isAgentJob accepts
  Untimed,     \* the jobs whose processedOn may be missing
  RecentRuns,  \* ai.recentRuns: the cap of the recent runs index
  Outcomes,    \* how an execution may end: what it records, and the job's fate
  MaxAttempt,  \* bound: executions of one job
  MaxEnded,    \* bound: executions that end
  MaxRepeats,  \* bound: redelivered events
  MaxFaults    \* bound: failed Redis calls, stops, crashes and "clear metrics" mutations

ASSUME AgentMetricsAssumption ==
  /\ AgentJob \subseteq Job /\ Untimed \subseteq Job
  /\ RecentRuns \in Nat
  /\ Outcomes \subseteq {"run", "both", "late", "skip", "value", "nothing"} \X {"retry", "final", "removed"}
  /\ {MaxAttempt, MaxEnded, MaxRepeats, MaxFaults} \subseteq Nat

Attempt == 1 .. MaxAttempt
Run == Job \X Attempt
Line == [kind : {"run", "skip"}, attempt : Attempt]

\* What an accumulated point counts, one unit at a time.  The code keeps the sums.
Tally == [kind : {"run", "lost", "unrecorded", "skipped"}, job : Job, attempt : 0 .. MaxAttempt]
RunTally(run) == [kind |-> "run", job |-> run[1], attempt |-> run[2]]
JobTally(kind, j) == [kind |-> kind, job |-> j, attempt |-> 0]

VARIABLES
  job,       \* the job hash: state, executions started, the one processedOn is of (0 when it is
             \* missing), the one the returnvalue is of (0: none), and whether it is there
  log,       \* the job's log lines
  late,      \* runs whose finish() was not awaited: their line lands later, if ever
  ended,     \* finish time of each run that ended, 0 before
  event,     \* terminal events on their way to each replica
  task,      \* the onJobFinished calls in progress
  sent,      \* handlers with an index command on their replica's connection, in order
  timer,     \* re-reads scheduled in each replica
  index,     \* the recent runs zset: its members
  data,      \* the hash beside it: the members it has an entry for
  listening, \* replicas whose collector is started
  clearing,  \* a "clear metrics" pipeline stands between its two deletions
  budget,    \* what is left of the bounds
  counted,   \* history: how often each unit was ever added to an accumulator
  evicted,   \* history: how often each run left the index
  broken     \* history: runs whose entry may be missing after a failed call or a clear

worker == <<job, log, late, ended>>
redis  == <<index, data>>
vars   == <<job, log, late, ended, event, task, sent, timer, index, data,
            listening, clearing, budget, counted, evicted, broken>>

Cap == IF RecentRuns > 1 THEN RecentRuns ELSE 1

Idle == [pc |-> "idle"]

\* A member older than another: ZSET order (score, then member; scores are distinct here).
Older(a, b) == ended[a] < ended[b]

\* The definitions marked WRONG are bugs this code could have had: each is put in place of the
\* definition after it to see that a property notices.

\* WRONG: the range ends one member too early.
IsOverflowButOne(o, members) ==
  /\ o \subseteq members
  /\ \A a \in o, b \in members \ o : Older(a, b)
  /\ IF Cardinality(members) <= Cap + 1 THEN o = {} ELSE Cardinality(members \ o) = Cap + 1

\* ZRANGE runs 0 -(cap + 1): all but the newest `cap` members of the zset.
IsOverflow(o, members) ==
  /\ o \subseteq members
  /\ \A a \in o, b \in members \ o : Older(a, b)
  /\ IF Cardinality(members) <= Cap THEN o = {} ELSE Cardinality(members \ o) = Cap

RunLines(lines) == {i \in DOMAIN lines : lines[i].kind = "run"}
AttemptsOf(lines, kind) == {lines[i].attempt : i \in {k \in DOMAIN lines : lines[k].kind = kind}}

Budget == {"ended", "repeats", "faults"}
Spend(what) == budget[what] > 0 /\ budget' = [budget EXCEPT ![what] = @ - 1]

-----------------------------------------------------------------------------
\* The worker.

Start(j) ==
  /\ job[j].state = "waiting" /\ job[j].attempt < MaxAttempt
  /\ \E since \in {job[j].attempt + 1} \cup (IF j \in Untimed THEN {0} ELSE {}) :
       job' = [job EXCEPT ![j] = [job[j] EXCEPT !.state = "active", !.attempt = job[j].attempt + 1,
                                                !.since = since, !.value = 0]]
  /\ UNCHANGED <<log, late, ended, event, task, sent, timer, redis, listening,
                 clearing, budget, counted, evicted, broken>>

\* An execution ends with what it recorded; only the last one of a job emits an event,
\* which may come with the removal of the job (removeOnComplete).
End(j, record, fate) ==
  LET run == <<j, job[j].attempt>>
      line(kind) == [kind |-> kind, attempt |-> run[2]]
      lines == CASE record = "run"  -> <<line("run")>>
                 [] record = "skip" -> <<line("skip")>>
                 [] record = "both" -> <<line("skip"), line("run")>>
                 [] OTHER           -> <<>>
  IN  /\ job[j].state = "active"
      /\ Spend("ended")
      /\ record = "value" => fate = "final"
      /\ job' = [job EXCEPT ![j] = [job[j] EXCEPT
                   !.state = IF fate = "retry" THEN "waiting" ELSE "done",
                   !.value = IF record = "value" THEN run[2] ELSE 0,
                   !.kept  = fate # "removed"]]
      /\ log' = [log EXCEPT ![j] = IF fate = "removed" THEN <<>> ELSE @ \o lines]
      /\ late' = IF record = "late" THEN late \cup {run} ELSE late
      /\ ended' = [ended EXCEPT ![run] = IF record \notin {"skip", "nothing"}
                                         THEN MaxEnded + 1 - budget["ended"] ELSE @]
      /\ event' = [r \in Replica |->
                     [event[r] EXCEPT ![j] = IF fate # "retry" /\ r \in listening
                                             THEN @ + 1 ELSE @]]
      /\ UNCHANGED <<task, sent, timer, redis, listening, clearing, counted,
                     evicted, broken>>

\* The un-awaited finish() reaches the log.
LateLine(run) ==
  /\ run \in late /\ job[run[1]].kept
  /\ run[2] \notin AttemptsOf(log[run[1]], "run")
  /\ log' = [log EXCEPT ![run[1]] = Append(@, [kind |-> "run", attempt |-> run[2]])]
  /\ UNCHANGED <<job, late, ended, event, task, sent, timer, redis, listening, clearing,
                 budget, counted, evicted, broken>>

\* A finished job is put back in the queue from the dashboard.
ManualRetry(j) ==
  /\ job[j].state = "done" /\ job[j].kept /\ job[j].attempt < MaxAttempt
  /\ job' = [job EXCEPT ![j].state = "waiting"]
  /\ UNCHANGED <<log, late, ended, event, task, sent, timer, redis, listening,
                 clearing, budget, counted, evicted, broken>>

\* The event of a finished job reaches a replica once more.
Redeliver(r, j) ==
  /\ r \in listening /\ job[j].state = "done"
  /\ Spend("repeats")
  /\ event' = [event EXCEPT ![r][j] = @ + 1]
  /\ UNCHANGED <<worker, task, sent, timer, redis, listening, clearing, counted,
                 evicted, broken>>

-----------------------------------------------------------------------------
\* onJobFinished and _ingest, one step per awaited call.

\* Adds one unit to the accumulator of a replica.
Count(t) == counted' = [counted EXCEPT ![t] = @ + 1]

Finish(h) == task' = [task EXCEPT ![h] = Idle]

\* The index commands of a replica share one connection, which answers them in order: the
\* oldest one is answered, and its handler goes on at once, sending another command or none.
Send(r, h) == sent' = [sent EXCEPT ![r] = Append(@, h)]
Answered(h, again) ==
  LET r == task[h].at IN
  /\ sent[r] # <<>> /\ Head(sent[r]) = h
  /\ sent' = [sent EXCEPT ![r] = IF again THEN Append(Tail(@), h) ELSE Tail(@)]

Begin(h, r, j, isReread) ==
  task' = [task EXCEPT ![h] = [pc |-> "getJob", at |-> r, job |-> j, reread |-> isReread,
                               since |-> 0, value |-> 0, lines |-> <<>>, todo |-> {},
                               run |-> <<j, 0>>, overflow |-> {}, fallback |-> FALSE]]

\* A handler with these lines goes on to the first of the run lines left, or to the decision
\* that follows the last one.
Proceed(h, lines, left) ==
  \/ /\ left = {}
     /\ task' = [task EXCEPT ![h] = [task[h] EXCEPT !.pc = "decide", !.lines = lines, !.todo = {},
                                              !.overflow = {}]]
  \/ \E first \in left :
       /\ \A i \in left : first <= i
       /\ task' = [task EXCEPT ![h] =
            [task[h] EXCEPT !.pc = "zadd", !.lines = lines, !.todo = left \ {first}, !.overflow = {},
                      !.run = <<task[h].job, lines[first].attempt>>]]

OnEvent(h, r, j) ==
  /\ task[h] = Idle /\ event[r][j] > 0
  /\ event' = [event EXCEPT ![r][j] = @ - 1]
  /\ Begin(h, r, j, FALSE)
  /\ UNCHANGED <<worker, sent, timer, redis, listening, clearing, budget, counted,
                 evicted, broken>>

\* The timer of _scheduleReread fires.
OnTimer(h, r, j) ==
  /\ task[h] = Idle /\ timer[r][j] > 0
  /\ timer' = [timer EXCEPT ![r][j] = @ - 1]
  /\ Begin(h, r, j, TRUE)
  /\ UNCHANGED <<worker, event, sent, redis, listening, clearing, budget, counted,
                 evicted, broken>>

GetJob(h) ==
  LET j == task[h].job IN
  /\ task[h].pc = "getJob"
  /\ \/ /\ ~job[j].kept
        /\ Count(JobTally("lost", j))
        /\ Finish(h)
     \/ /\ job[j].kept /\ j \notin AgentJob
        /\ Finish(h)
        /\ UNCHANGED counted
     \/ /\ job[j].kept /\ j \in AgentJob
        /\ task' = [task EXCEPT ![h] = [task[h] EXCEPT !.pc = "getLogs", !.value = job[j].value,
                                                  !.since = job[j].since]]
        /\ UNCHANGED counted
  /\ UNCHANGED <<worker, event, sent, timer, redis, listening, clearing, budget, evicted,
                 broken>>

GetLogs(h) ==
  LET j == task[h].job IN
  /\ task[h].pc = "getLogs"
  /\ Proceed(h, log[j], RunLines(log[j]))
  /\ IF RunLines(log[j]) # {} THEN Send(task[h].at, h) ELSE UNCHANGED sent
  /\ UNCHANGED <<worker, event, timer, redis, listening, clearing, budget,
                 counted, evicted, broken>>

\* WRONG: ZADD without NX, whose reply does not tell a member that was there.
IsNewAlways(run) == run \in Run

\* ZADD NX answers 1: the member was not there.
IsNew(run) == run \notin index

\* ZADD NX: only a member that was not there is counted and indexed.
Zadd(h) ==
  LET run == task[h].run IN
  /\ task[h].pc = "zadd"
  /\ \/ /\ IsNew(run)
        /\ index' = index \cup {run}
        /\ Count(RunTally(run))
        /\ Answered(h, TRUE)
        /\ task' = [task EXCEPT ![h].pc = "zrange"]
     \/ /\ ~IsNew(run)
        /\ Answered(h, task[h].todo # {})
        /\ Proceed(h, task[h].lines, task[h].todo)
        /\ UNCHANGED <<index, counted>>
  /\ UNCHANGED <<worker, event, timer, data, listening, clearing, budget, evicted,
                 broken>>

Zrange(h) ==
  /\ task[h].pc = "zrange"
  /\ Answered(h, TRUE)
  /\ \E o \in SUBSET index :
       /\ IsOverflow(o, index)
       /\ task' = [task EXCEPT ![h] = [task[h] EXCEPT !.pc = "multi", !.overflow = o]]
  /\ UNCHANGED <<worker, event, timer, redis, listening, clearing, budget,
                 counted, evicted, broken>>

\* WRONG: the overflow leaves the hash but not the zset.
IndexEntryWithoutZrem(h) ==
  /\ data' = (data \cup {task[h].run}) \ task[h].overflow
  /\ UNCHANGED <<index, evicted>>

\* WRONG: the overflow leaves the zset but not the hash.
IndexEntryWithoutHdel(h) ==
  LET gone == task[h].overflow IN
  /\ data' = data \cup {task[h].run}
  /\ index' = index \ gone
  /\ evicted' = [run \in Run |-> IF run \in gone \cap index THEN evicted[run] + 1
                                 ELSE evicted[run]]

\* MULTI: HSET the entry, ZREM and HDEL the overflow read before.
IndexEntry(h) ==
  LET gone == task[h].overflow IN
  /\ data' = (data \cup {task[h].run}) \ gone
  /\ index' = index \ gone
  /\ evicted' = [run \in Run |-> IF run \in gone \cap index THEN evicted[run] + 1
                                 ELSE evicted[run]]

Multi(h) ==
  /\ task[h].pc = "multi"
  /\ Answered(h, task[h].todo # {})
  /\ IndexEntry(h)
  /\ Proceed(h, task[h].lines, task[h].todo)
  /\ UNCHANGED <<worker, event, timer, listening, clearing, budget, counted,
                 broken>>

\* Whether a line of an attempt belongs to the execution the job was read in
\* (isCurrentAttemptRun: never, when the start is unknown).
IsCurrent(h, attempt) == task[h].since > 0 /\ attempt >= task[h].since

CurrentSeen(h) == \E a \in AttemptsOf(task[h].lines, "run") : IsCurrent(h, a)
LiveSkips(h) == AttemptsOf(task[h].lines, "skip") \ AttemptsOf(task[h].lines, "run")

\* WRONG: the skip line of an earlier attempt closes this one.
SkippedByAnyLine(h) == ~CurrentSeen(h) /\ LiveSkips(h) # {}

\* A skip line closes its attempt like a run line would.
CurrentSkipped(h) ==
  /\ ~CurrentSeen(h)
  /\ IF task[h].since > 0
     THEN \E a \in LiveSkips(h) : IsCurrent(h, a)
     ELSE LiveSkips(h) # {} /\ AttemptsOf(task[h].lines, "run") = {}

\* WRONG: a re-read schedules another one.
ReadAgainForever(h) == ~CurrentSeen(h)

\* The attempt that ended has no line yet, and this is the first read.
ReadAgain(h) == ~CurrentSeen(h) /\ ~task[h].reread

\* WRONG: a returnvalue that is not a run is taken for one.
AnyValueFallsBack(h) == task[h].value \notin AttemptsOf(task[h].lines, "run")

\* The returnvalue holds the run of an attempt no line covers.
FallsBack(h) == task[h].value > 0 /\ task[h].value \notin AttemptsOf(task[h].lines, "run")

\* After the last run line: skipped, read again later, returnvalue, or unrecorded.
Decide(h) ==
  LET j == task[h].job
      r == task[h].at
      attempts == AttemptsOf(task[h].lines, "run")
      value == task[h].value
  IN
  /\ task[h].pc = "decide"
  /\ \/ /\ task[h].fallback
        /\ Finish(h)
        /\ UNCHANGED <<sent, timer, counted>>
     \/ /\ ~task[h].fallback /\ CurrentSkipped(h)
        /\ Count(JobTally("skipped", j))
        /\ Finish(h)
        /\ UNCHANGED <<sent, timer>>
     \/ /\ ~task[h].fallback /\ ~CurrentSkipped(h) /\ ReadAgain(h)
        /\ timer' = [timer EXCEPT ![r][j] = @ + 1]
        /\ Finish(h)
        /\ UNCHANGED <<sent, counted>>
     \/ /\ ~task[h].fallback /\ ~CurrentSkipped(h) /\ ~ReadAgain(h) /\ FallsBack(h)
        /\ task' = [task EXCEPT ![h] = [task[h] EXCEPT !.pc = "zadd", !.run = <<j, value>>,
                                                 !.fallback = TRUE]]
        /\ Send(r, h)
        /\ UNCHANGED <<timer, counted>>
     \/ /\ ~task[h].fallback /\ ~CurrentSkipped(h) /\ ~ReadAgain(h) /\ ~FallsBack(h)
        /\ IF value = 0 /\ attempts = {} /\ AttemptsOf(task[h].lines, "skip") = {}
           THEN Count(JobTally("unrecorded", j))
           ELSE UNCHANGED counted
        /\ Finish(h)
        /\ UNCHANGED <<sent, timer>>
  /\ UNCHANGED <<worker, event, redis, listening, clearing, budget, evicted, broken>>

-----------------------------------------------------------------------------
\* Failures, the collector's life cycle and its tick, and the clear mutation.

\* The awaited call throws without effect: onJobFinished logs and gives up.
CallFails(h) ==
  /\ task[h] # Idle /\ task[h].pc # "decide"
  /\ Spend("faults")
  /\ Finish(h)
  /\ IF task[h].pc \in {"getJob", "getLogs"} THEN UNCHANGED sent ELSE Answered(h, FALSE)
  /\ broken' = IF task[h].pc \in {"zrange", "multi"} THEN broken \cup {task[h].run}
               ELSE broken
  /\ UNCHANGED <<worker, event, timer, redis, listening, clearing, counted,
                 evicted>>

\* Redis executes the write but its reply is lost, so the call throws all the same.
ReplyLost(h) ==
  /\ Spend("faults")
  /\ Finish(h)
  /\ \/ /\ task[h].pc = "zadd" /\ task[h].run \notin index
        /\ Answered(h, FALSE)
        /\ index' = index \cup {task[h].run}
        /\ broken' = broken \cup {task[h].run}
        /\ UNCHANGED <<data, evicted>>
     \/ /\ task[h].pc = "multi"
        /\ Answered(h, FALSE)
        /\ IndexEntry(h)
        /\ UNCHANGED broken
  /\ UNCHANGED <<worker, event, timer, listening, clearing, counted>>

\* stopCollecting: listeners off, scheduled re-reads dropped; calls in progress go on.
Stop(r) ==
  /\ r \in listening
  /\ Spend("faults")
  /\ listening' = listening \ {r}
  /\ event' = [event EXCEPT ![r] = [j \in Job |-> 0]]
  /\ timer' = [timer EXCEPT ![r] = [j \in Job |-> 0]]
  /\ UNCHANGED <<worker, task, sent, redis, clearing, counted, evicted, broken>>

StartCollecting(r) ==
  /\ r \notin listening
  /\ listening' = listening \cup {r}
  /\ UNCHANGED <<worker, event, task, sent, timer, redis, clearing, budget, counted,
                 evicted, broken>>

\* The process dies: everything it held in memory is gone.
Crash(r) ==
  LET dead == {h \in Handler : task[h] # Idle /\ task[h].at = r} IN
  /\ Spend("faults")
  /\ listening' = listening \ {r}
  /\ event' = [event EXCEPT ![r] = [j \in Job |-> 0]]
  /\ timer' = [timer EXCEPT ![r] = [j \in Job |-> 0]]
  /\ task' = [h \in Handler |-> IF h \in dead THEN Idle ELSE task[h]]
  /\ sent' = [sent EXCEPT ![r] = <<>>]
  /\ broken' = broken \cup {task[h].run : h \in {d \in dead : task[d].pc \in {"zrange", "multi"}}}
  /\ UNCHANGED <<worker, redis, clearing, counted, evicted>>

\* MetricsCollector.clear: a pipeline, not a transaction, of one DEL per key.
ClearIndex ==
  /\ ~clearing
  /\ Spend("faults")
  /\ clearing' = TRUE
  /\ index' = {}
  /\ evicted' = [run \in Run |-> IF run \in index THEN evicted[run] + 1 ELSE evicted[run]]
  /\ UNCHANGED <<worker, event, task, sent, timer, data, listening, counted, broken>>

ClearData ==
  /\ clearing
  /\ clearing' = FALSE
  /\ data' = {}
  /\ broken' = broken \cup index
  /\ UNCHANGED <<worker, event, task, sent, timer, index, listening, budget, counted,
                 evicted>>

-----------------------------------------------------------------------------

Init ==
  /\ job = [j \in Job |-> [state |-> "waiting", attempt |-> 0, since |-> 0, value |-> 0, kept |-> TRUE]]
  /\ log = [j \in Job |-> <<>>]
  /\ late = {}
  /\ ended = [run \in Run |-> 0]
  /\ event = [r \in Replica |-> [j \in Job |-> 0]]
  /\ task = [h \in Handler |-> Idle]
  /\ sent = [r \in Replica |-> <<>>]
  /\ timer = [r \in Replica |-> [j \in Job |-> 0]]
  /\ index = {} /\ data = {}
  /\ listening = Replica
  /\ clearing = FALSE
  /\ budget = [b \in Budget |-> CASE b = "ended" -> MaxEnded [] b = "repeats" -> MaxRepeats
                                 [] b = "faults" -> MaxFaults]
  /\ counted = [t \in Tally |-> 0]
  /\ evicted = [run \in Run |-> 0]
  /\ broken = {}

Worker ==
  \/ \E j \in Job : Start(j)
  \/ \E j \in Job, outcome \in Outcomes : End(j, outcome[1], outcome[2])
  \/ \E run \in Run : LateLine(run)
  \/ \E j \in Job : ManualRetry(j)
  \/ \E r \in Replica, j \in Job : Redeliver(r, j)

Monitor ==
  \/ \E h \in Handler, r \in Replica, j \in Job : OnEvent(h, r, j) \/ OnTimer(h, r, j)
  \/ \E h \in Handler : GetJob(h) \/ GetLogs(h) \/ Zadd(h) \/ Zrange(h) \/ Multi(h) \/ Decide(h)

Environment ==
  \/ \E h \in Handler : CallFails(h) \/ ReplyLost(h)
  \/ \E r \in Replica : Stop(r) \/ StartCollecting(r) \/ Crash(r)
  \/ ClearIndex \/ ClearData

Next == Worker \/ Monitor \/ Environment
Spec == Init /\ [][Next]_vars

\* Handlers run to their end, and timers and delivered events start one when a slot is free.
FairSpec ==
  /\ Spec
  /\ \A h \in Handler : WF_vars(GetJob(h) \/ GetLogs(h) \/ Zadd(h) \/ Zrange(h) \/ Multi(h)
                               \/ Decide(h))
  /\ \A r \in Replica, j \in Job :
       SF_vars(\E h \in Handler : OnEvent(h, r, j)) /\ SF_vars(\E h \in Handler : OnTimer(h, r, j))

-----------------------------------------------------------------------------

Task == [pc : {"getJob", "getLogs", "zadd", "zrange", "multi", "decide"}, at : Replica, job : Job,
         reread : BOOLEAN, since : 0 .. MaxAttempt, value : 0 .. MaxAttempt, lines : Seq(Line),
         todo : SUBSET Nat, run : Job \X (0 .. MaxAttempt), overflow : SUBSET Run, fallback : BOOLEAN]

JobHash == [state : {"waiting", "active", "done"}, attempt : 0 .. MaxAttempt,
            since : 0 .. MaxAttempt, value : 0 .. MaxAttempt, kept : BOOLEAN]
WorkerType ==
  /\ job \in [Job -> JobHash]
  /\ \A j \in Job : job[j].state = "active" => job[j].attempt \in Attempt
  /\ log \in [Job -> Seq(Line)]
  /\ late \subseteq Run
  /\ ended \in [Run -> 0 .. MaxEnded]
PendingType ==
  /\ event \in [Replica -> [Job -> Nat]] /\ timer \in [Replica -> [Job -> Nat]]
  /\ listening \subseteq Replica /\ clearing \in BOOLEAN
  /\ budget \in [Budget -> Nat] /\ budget["ended"] <= MaxEnded
TaskType ==
  /\ task \in [Handler -> {Idle} \cup Task]
  /\ \A h \in Handler : task[h] # Idle => task[h].todo \subseteq DOMAIN task[h].lines
  /\ \A h \in Handler : task[h].pc \in {"zadd", "zrange", "multi"} => task[h].run \in Run
SentType == sent \in [Replica -> Seq(Handler)]
IndexType == index \subseteq Run /\ data \subseteq Run /\ broken \subseteq Run
HistoryType == counted \in [Tally -> Nat] /\ evicted \in [Run -> Nat]

\* Every variable stays in its type, and a handler that is writing an index entry has a run
\* to write it for.
TypeOK == WorkerType /\ PendingType /\ TaskType /\ SentType /\ IndexType /\ HistoryType

\* Handlers between the ZADD of a run and the MULTI that writes its entry.
Indexing == {h \in Handler : task[h].pc \in {"zrange", "multi"}}

\* A run is counted once for every time it entered the index, whatever the duplicated events,
\* retries, replicas and failures: it can only be counted again after it was evicted or cleared.
CountedOncePerAdmission ==
  \A run \in Run : counted[RunTally(run)] <= evicted[run] + (IF run \in index THEN 1 ELSE 0)

\* A member of the index has its entry in the hash, unless a handler is about to write it, or
\* a failed call or a concurrent clear took it: HDEL never removes more than ZREM.
IndexedRunHasEntry ==
  \A run \in index : \/ run \in data \cup broken
                     \/ \E h \in Indexing : task[h].run = run

\* Handlers that trim concurrently, on overflows they read at different moments, still leave
\* the index within its cap when the last of them is done.
IndexTrimmed == (Indexing = {} /\ broken = {}) => Cardinality(index) <= Cap

\* Deduplication makes ingestion idempotent: no run is ever counted twice.
CountedOnce == \A run \in Run : counted[RunTally(run)] <= 1

\* ZREM and HDEL remove the same members, and one connection answers the commands of all handlers
\* in their order: with one process, as long as no run comes back that had left the index, the hash
\* never holds what the index does not.
HashFollowsIndex == (broken = {} /\ CountedOnce) => data \subseteq index

\* Nothing about a job is on its way to, or in progress in, any replica.
Settled(j) ==
  /\ \A r \in Replica : event[r][j] = 0 /\ timer[r][j] = 0
  /\ \A h \in Handler : task[h] # Idle => task[h].job # j

\* Once everything about a finished job has settled without a failure or a stop, its last
\* execution is accounted for: its run if it left one in time, its skip, or, when the job
\* left no line at all, as unrecorded; a removed job counts as lost.  For a job read without
\* its start only the lines of other attempts may hide the last one.
SettledJobAccounted ==
  \A j \in AgentJob :
    LET last == job[j].attempt
        runs == AttemptsOf(log[j], "run")
        skips == AttemptsOf(log[j], "skip")
        timed == job[j].since > 0
        tallied(kind) == counted[JobTally(kind, j)] > 0
    IN  (job[j].state = "done" /\ Settled(j)) =>
          IF ~job[j].kept THEN tallied("lost")
          ELSE /\ \A a \in runs : <<j, a>> \in late \/ counted[RunTally(<<j, a>>)] > 0
               /\ job[j].value = last /\ (~timed => skips = {}) =>
                    counted[RunTally(<<j, last>>)] > 0
               /\ last \in skips \ runs /\ (~timed => runs = {}) => tallied("skipped")
               /\ runs \cup skips = {} /\ job[j].value = 0 => tallied("unrecorded")

\* A terminal event is dealt with for good: its handler ends, and the one re-read it may
\* schedule does not schedule another.
EventsSettle ==
  \A r \in Replica, j \in Job :
    event[r][j] > 0 ~> (event[r][j] = 0 /\ timer[r][j] = 0 /\
                        \A h \in Handler : task[h] # Idle => <<task[h].at, task[h].job>> # <<r, j>>)

=============================================================================
