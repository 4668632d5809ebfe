------------------------- MODULE AgentMetrics_proofs -------------------------
(***************************************************************************)
(* Proofs about AgentMetrics, for any replicas, handlers, jobs, cap and    *)
(* bounds.                                                                 *)
(***************************************************************************)
EXTENDS AgentMetrics, Sums_proofs

LEMMA Bounds == MaxAttempt \in Nat /\ MaxEnded \in Nat /\ MaxRepeats \in Nat /\ MaxFaults \in Nat
  BY AgentMetricsAssumption DEF AgentMetricsAssumption

\* A record with one field replaced by a value of that field's type keeps its type.
LEMMA JobFields ==
  ASSUME NEW r \in JobHash
  PROVE  /\ \A x \in {"waiting", "active", "done"} : [r EXCEPT !.state = x] \in JobHash
         /\ \A x \in 0 .. MaxAttempt : [r EXCEPT !.attempt = x] \in JobHash
         /\ \A x \in 0 .. MaxAttempt : [r EXCEPT !.since = x] \in JobHash
         /\ \A x \in 0 .. MaxAttempt : [r EXCEPT !.value = x] \in JobHash
         /\ \A x \in BOOLEAN : [r EXCEPT !.kept = x] \in JobHash
  BY DEF JobHash

LEMMA JobUpdate ==
  ASSUME NEW r \in JobHash, NEW st \in {"waiting", "active", "done"}, NEW a \in 0 .. MaxAttempt,
         NEW b \in 0 .. MaxAttempt, NEW v \in 0 .. MaxAttempt, NEW k \in BOOLEAN
  PROVE  /\ [r EXCEPT !.state = st, !.attempt = a, !.since = b, !.value = v] \in JobHash
         /\ [r EXCEPT !.state = st, !.value = v, !.kept = k] \in JobHash
<1> DEFINE s == [r EXCEPT !.state = st]
           sa == [s EXCEPT !.attempt = a]
           sab == [sa EXCEPT !.since = b]
           sabv == [sab EXCEPT !.value = v]
           sv == [s EXCEPT !.value = v]
           svk == [sv EXCEPT !.kept = k]
<1>1. s \in JobHash
  BY JobFields
<1>2. sa \in JobHash /\ sv \in JobHash
  BY <1>1, JobFields
<1>3. sab \in JobHash /\ svk \in JobHash
  BY <1>2, JobFields
<1>4. sabv \in JobHash
  BY <1>3, JobFields
<1>5. /\ [r EXCEPT !.state = st, !.attempt = a, !.since = b, !.value = v] = sabv
      /\ [r EXCEPT !.state = st, !.value = v, !.kept = k] = svk
  OBVIOUS
<1> QED
  BY <1>3, <1>4, <1>5

LEMMA TaskFields ==
  ASSUME NEW t \in Task
  PROVE  /\ \A x \in {"getJob", "getLogs", "zadd", "zrange", "multi", "decide"} : [t EXCEPT !.pc = x] \in Task
         /\ \A x \in 0 .. MaxAttempt : [t EXCEPT !.since = x] \in Task
         /\ \A x \in 0 .. MaxAttempt : [t EXCEPT !.value = x] \in Task
         /\ \A x \in Seq(Line) : [t EXCEPT !.lines = x] \in Task
         /\ \A x \in SUBSET Nat : [t EXCEPT !.todo = x] \in Task
         /\ \A x \in SUBSET Run : [t EXCEPT !.overflow = x] \in Task
         /\ \A x \in Job \X (0 .. MaxAttempt) : [t EXCEPT !.run = x] \in Task
         /\ \A x \in BOOLEAN : [t EXCEPT !.fallback = x] \in Task
  BY DEF Task

LEMMA InitType == Init => TypeOK
<1> SUFFICES ASSUME Init PROVE TypeOK
  OBVIOUS
<1>1. WorkerType
  BY Bounds DEF Init, WorkerType, JobHash
<1>2. PendingType
  <2>1. budget \in [Budget -> Nat] /\ budget["ended"] = MaxEnded
    BY Bounds DEF Init, Budget
  <2>2. event \in [Replica -> [Job -> Nat]] /\ timer \in [Replica -> [Job -> Nat]]
    BY DEF Init
  <2>3. listening \subseteq Replica /\ clearing \in BOOLEAN
    BY DEF Init
  <2> QED
    BY <2>1, <2>2, <2>3, Bounds DEF PendingType
<1>3. TaskType
  BY DEF Init, TaskType, Idle
<1>4. SentType /\ IndexType /\ HistoryType
  BY DEF Init, SentType, IndexType, HistoryType
<1> QED
  BY <1>1, <1>2, <1>3, <1>4 DEF TypeOK

\* A step of the worker leaves the monitor's own state alone.
LEMMA WorkerKeepsType == TypeOK /\ Worker => TypeOK'
<1> SUFFICES ASSUME TypeOK, Worker PROVE TypeOK'
  OBVIOUS
<1> USE Bounds DEF TypeOK, Run, Attempt
<1>1. ASSUME NEW j \in Job, Start(j)
      PROVE  WorkerType' /\ PendingType' /\ UNCHANGED <<task, sent, redis, counted, evicted, broken>>
  <2>0. PICK since \in {job[j].attempt + 1, 0} :
          job' = [job EXCEPT ![j] = [job[j] EXCEPT !.state = "active", !.attempt = job[j].attempt + 1,
                                                   !.since = since, !.value = 0]]
    BY <1>1 DEF Start
  <2> DEFINE new == [job[j] EXCEPT !.state = "active", !.attempt = job[j].attempt + 1,
                                   !.since = since, !.value = 0]
  <2>1. job[j] \in JobHash /\ job[j].attempt < MaxAttempt /\ job' = [job EXCEPT ![j] = new]
    BY <1>1, <2>0 DEF WorkerType, Start
  <2>2. job[j].attempt \in 0 .. MaxAttempt /\ job[j].attempt + 1 \in 1 .. MaxAttempt
    BY <2>1 DEF JobHash
  <2>3. new \in JobHash /\ new.attempt \in Attempt
    <3>1. job[j].attempt + 1 \in 0 .. MaxAttempt /\ since \in 0 .. MaxAttempt /\ 0 \in 0 .. MaxAttempt
      BY <2>0, <2>2
    <3>2. new \in JobHash
      BY <2>1, <3>1, JobUpdate
    <3>3. new.attempt = job[j].attempt + 1
      BY <2>1 DEF JobHash
    <3> QED
      BY <2>2, <3>2, <3>3
  <2>4. job' \in [Job -> JobHash]
    BY <2>1, <2>3 DEF WorkerType
  <2>5. \A i \in Job : job'[i].state = "active" => job'[i].attempt \in Attempt
    BY <2>1, <2>3 DEF WorkerType
  <2> QED
    BY <1>1, <2>4, <2>5 DEF Start, WorkerType, PendingType
<1>2. ASSUME NEW j \in Job, NEW outcome \in Outcomes, End(j, outcome[1], outcome[2])
      PROVE  WorkerType' /\ PendingType' /\ UNCHANGED <<task, sent, redis, counted, evicted, broken>>
  <2> DEFINE record == outcome[1]
             fate == outcome[2]
             k == job[j].attempt
             new == [job[j] EXCEPT !.state = IF fate = "retry" THEN "waiting" ELSE "done",
                                   !.value = IF record = "value" THEN k ELSE 0,
                                   !.kept  = fate # "removed"]
  <2>1. job[j] \in JobHash /\ k \in Attempt /\ job' = [job EXCEPT ![j] = new]
    BY <1>2 DEF WorkerType, End
  <2>2. new \in JobHash /\ new.state # "active"
    <3> DEFINE st == IF fate = "retry" THEN "waiting" ELSE "done"
               v == IF record = "value" THEN k ELSE 0
               kept == fate # "removed"
    <3>1. st \in {"waiting", "active", "done"} /\ v \in 0 .. MaxAttempt /\ kept \in BOOLEAN
      BY <2>1
    <3>3. new.state = st
      BY <2>1 DEF JobHash
    <3>4. st # "active"
      OBVIOUS
    <3>5. [job[j] EXCEPT !.state = st, !.value = v, !.kept = kept] \in JobHash
      <4> HIDE DEF st, v, kept
      <4> QED
        BY <2>1, <3>1, JobUpdate
    <3> QED
      BY <3>3, <3>4, <3>5
  <2>3. job' \in [Job -> JobHash] /\ \A i \in Job : job'[i].state = "active" => job'[i].attempt \in Attempt
    BY <2>1, <2>2 DEF WorkerType
  <2>4. late' \subseteq Run
    BY <1>2, <2>1 DEF End, WorkerType
  <2>5. MaxEnded + 1 - budget["ended"] \in 0 .. MaxEnded /\ PendingType'
    <3>1. budget["ended"] \in Nat /\ budget["ended"] > 0 /\ budget["ended"] <= MaxEnded
      BY <1>2 DEF End, Spend, PendingType, Budget
    <3>2. budget' \in [Budget -> Nat] /\ budget'["ended"] <= MaxEnded
      BY <1>2, <3>1 DEF End, Spend, PendingType, Budget
    <3>3. event' \in [Replica -> [Job -> Nat]]
      BY <1>2 DEF End, PendingType
    <3> QED
      BY <1>2, <3>1, <3>2, <3>3 DEF End, PendingType
  <2>6. ended' \in [Run -> 0 .. MaxEnded]
    BY <1>2, <2>1, <2>5 DEF End, WorkerType
  <2>7. log' \in [Job -> Seq(Line)]
    <3>1. [kind |-> "run", attempt |-> k] \in Line /\ [kind |-> "skip", attempt |-> k] \in Line
      BY <2>1 DEF Line
    <3>2. log[j] \in Seq(Line)
      BY DEF WorkerType
    <3> QED
      BY <1>2, <3>1, <3>2 DEF End, WorkerType
  <2> QED
    BY <1>2, <2>3, <2>4, <2>5, <2>6, <2>7 DEF End, WorkerType
<1>3. ASSUME NEW run \in Run, LateLine(run) PROVE WorkerType' /\ PendingType' /\ UNCHANGED <<task, sent, redis, counted, evicted, broken>>
  <2>1. run[1] \in Job /\ [kind |-> "run", attempt |-> run[2]] \in Line
    BY DEF Line
  <2>2. Append(log[run[1]], [kind |-> "run", attempt |-> run[2]]) \in Seq(Line)
    BY <2>1 DEF WorkerType
  <2>3. log' \in [Job -> Seq(Line)]
    BY <1>3, <2>1, <2>2 DEF LateLine, WorkerType
  <2> QED
    BY <1>3, <2>3 DEF LateLine, WorkerType, PendingType
<1>4. ASSUME NEW j \in Job, ManualRetry(j)
      PROVE  WorkerType' /\ PendingType' /\ UNCHANGED <<task, sent, redis, counted, evicted, broken>>
  <2>1. job[j] \in JobHash /\ job' = [job EXCEPT ![j].state = "waiting"]
    BY <1>4 DEF ManualRetry, WorkerType
  <2>2. [job[j] EXCEPT !.state = "waiting"] \in JobHash
    BY <2>1 DEF JobHash
  <2>3. job' \in [Job -> JobHash] /\ \A i \in Job : job'[i].state = "active" => job'[i].attempt \in Attempt
    BY <2>1, <2>2 DEF WorkerType, JobHash
  <2> QED
    BY <1>4, <2>3 DEF ManualRetry, WorkerType, PendingType
<1>5. ASSUME NEW r \in Replica, NEW j \in Job, Redeliver(r, j)
      PROVE  WorkerType' /\ PendingType' /\ UNCHANGED <<task, sent, redis, counted, evicted, broken>>
  BY <1>5 DEF Redeliver, WorkerType, PendingType, Spend, Budget, worker
<1>6. WorkerType' /\ PendingType' /\ UNCHANGED <<task, sent, redis, counted, evicted, broken>>
  BY <1>1, <1>2, <1>3, <1>4, <1>5 DEF Worker
<1> QED
  BY <1>6 DEF TaskType, SentType, IndexType, HistoryType, redis

-----------------------------------------------------------------------------
\* What the helpers of the handlers keep.

Writing == {"zadd", "zrange", "multi"}
Stages == {"getJob", "getLogs", "decide"} \cup Writing

LEMMA TaskAtStage ==
  ASSUME TaskType, NEW h \in Handler, task[h].pc \in Stages
  PROVE  task[h] \in Task /\ task[h] # Idle
  BY DEF TaskType, Stages, Writing, Idle

LEMMA SetTaskKeepsType ==
  ASSUME TaskType, NEW h \in Handler, NEW t \in {Idle} \cup Task, task' = [task EXCEPT ![h] = t],
         t # Idle => t.todo \subseteq DOMAIN t.lines,
         t.pc \in Writing => t.run \in Run
  PROVE  TaskType'
  BY DEF TaskType, Writing

LEMMA FinishKeepsType ==
  ASSUME TaskType, NEW h \in Handler, Finish(h)
  PROVE  TaskType'
  BY SetTaskKeepsType DEF Finish, Idle, Writing

LEMMA TallyType ==
  /\ \A run \in Run : RunTally(run) \in Tally
  /\ \A j \in Job, kind \in {"lost", "unrecorded", "skipped"} : JobTally(kind, j) \in Tally
  BY Bounds DEF RunTally, JobTally, Tally, Run, Attempt

LEMMA CountKeepsType ==
  ASSUME counted \in [Tally -> Nat], NEW t \in Tally, Count(t)
  PROVE  counted' \in [Tally -> Nat]
  BY DEF Count

LEMMA AnsweredKeepsType ==
  ASSUME SentType, NEW h \in Handler, task[h] \in Task, NEW again, Answered(h, again)
  PROVE  SentType'
<1> DEFINE r == task[h].at
<1>1. r \in Replica /\ sent[r] \in Seq(Handler) /\ sent[r] # <<>>
  BY DEF Task, SentType, Answered
<1>2. Tail(sent[r]) \in Seq(Handler) /\ Append(Tail(sent[r]), h) \in Seq(Handler)
  BY <1>1
<1>3. sent' = [sent EXCEPT ![r] = IF again THEN Append(Tail(sent[r]), h) ELSE Tail(sent[r])]
  BY DEF Answered
<1> HIDE DEF r
<1> QED
  BY <1>1, <1>2, <1>3 DEF SentType

LEMMA SendKeepsType ==
  ASSUME SentType, NEW h \in Handler, NEW r \in Replica, Send(r, h)
  PROVE  SentType'
  BY DEF SentType, Send

LEMMA ProceedKeepsType ==
  ASSUME TaskType, NEW h \in Handler, task[h] \in Task, NEW lines \in Seq(Line),
         NEW left \in SUBSET (DOMAIN lines), Proceed(h, lines, left)
  PROVE  TaskType'
<1> DEFINE t == task[h]
<1>1. CASE left = {} /\ task' = [task EXCEPT ![h] = [t EXCEPT !.pc = "decide", !.lines = lines,
                                                         !.todo = {}, !.overflow = {}]]
  <2> DEFINE p == [t EXCEPT !.pc = "decide"]
             l == [p EXCEPT !.lines = lines]
             d == [l EXCEPT !.todo = {}]
             o == [d EXCEPT !.overflow = {}]
  <2>1. p \in Task
    BY TaskFields
  <2>2. l \in Task
    BY <2>1, TaskFields
  <2>3. d \in Task
    BY <2>2, TaskFields
  <2>4. o \in Task
    BY <2>3, TaskFields
  <2>5. task' = [task EXCEPT ![h] = o]
    BY <1>1
  <2>6. o.todo = {} /\ o.pc = "decide"
    BY DEF Task
  <2> HIDE DEF o
  <2> QED
    BY <2>4, <2>5, <2>6, SetTaskKeepsType DEF Writing
<1>2. ASSUME NEW first \in left,
             task' = [task EXCEPT ![h] = [t EXCEPT !.pc = "zadd", !.lines = lines,
                        !.todo = left \ {first}, !.overflow = {},
                        !.run = <<t.job, lines[first].attempt>>]]
      PROVE  TaskType'
  <2> DEFINE run == <<t.job, lines[first].attempt>>
             todo == left \ {first}
  <2>1. run \in Run /\ run \in Job \X (0 .. MaxAttempt)
    <3>1. t.job \in Job
      BY DEF Task
    <3>2. lines[first].attempt \in 1 .. MaxAttempt
      <4>1. lines[first] \in Line
        OBVIOUS
      <4> QED
        BY <4>1 DEF Line, Attempt
    <3> QED
      BY <3>1, <3>2, Bounds DEF Run, Attempt
  <2>2. todo \in SUBSET Nat /\ todo \subseteq DOMAIN lines
    <3>1. DOMAIN lines = 1 .. Len(lines)
      OBVIOUS
    <3>2. DOMAIN lines \subseteq Nat
      BY <3>1
    <3>3. todo \subseteq DOMAIN lines
      OBVIOUS
    <3> QED
      BY <3>2, <3>3
  <2> HIDE DEF run, todo
  <2> DEFINE p == [t EXCEPT !.pc = "zadd"]
             l == [p EXCEPT !.lines = lines]
             d == [l EXCEPT !.todo = todo]
             o == [d EXCEPT !.overflow = {}]
             u == [o EXCEPT !.run = run]
  <2>3. p \in Task
    BY TaskFields
  <2>4. l \in Task
    BY <2>3, TaskFields
  <2>5. d \in Task
    BY <2>2, <2>4, TaskFields
  <2>6. o \in Task
    BY <2>5, TaskFields
  <2>7. u \in Task
    BY <2>1, <2>6, TaskFields
  <2>8. task' = [task EXCEPT ![h] = u]
    BY <1>2 DEF run, todo
  <2>9. u.todo = todo /\ u.run = run /\ u.lines = lines
    BY DEF Task
  <2> HIDE DEF u
  <2>10. u \in {Idle} \cup Task /\ u.todo \subseteq DOMAIN u.lines /\ u.run \in Run
    BY <2>1, <2>2, <2>7, <2>9
  <2> QED
    BY <2>8, <2>10, SetTaskKeepsType
<1> QED
  BY <1>1, <1>2 DEF Proceed


LEMMA BeginKeepsType ==
  ASSUME TaskType, NEW h \in Handler, NEW r \in Replica, NEW j \in Job, NEW again \in BOOLEAN,
         Begin(h, r, j, again)
  PROVE  TaskType'
<1> DEFINE t == [pc |-> "getJob", at |-> r, job |-> j, reread |-> again, since |-> 0, value |-> 0,
                 lines |-> <<>>, todo |-> {}, run |-> <<j, 0>>, overflow |-> {}, fallback |-> FALSE]
<1>1. t \in Task
  BY Bounds DEF Task
<1>2. t.todo = {} /\ t.pc \notin Writing /\ task' = [task EXCEPT ![h] = t]
  BY DEF Writing, Begin
<1> HIDE DEF t
<1> QED
  BY <1>1, <1>2, SetTaskKeepsType

-----------------------------------------------------------------------------
\* The steps of the handlers.

LEMMA GetJobKeepsType ==
  ASSUME TypeOK, NEW h \in Handler, GetJob(h)
  PROVE  TaskType' /\ counted' \in [Tally -> Nat]
<1> DEFINE j == task[h].job
<1>1. TaskType /\ counted \in [Tally -> Nat] /\ task[h] \in Task /\ task[h] # Idle
  BY TaskAtStage DEF TypeOK, GetJob, Stages, HistoryType
<1>2. j \in Job
  BY <1>1 DEF Task
<1>3. CASE Finish(h) /\ (Count(JobTally("lost", j)) \/ UNCHANGED counted)
  <2>1. JobTally("lost", j) \in Tally
    BY <1>2, TallyType
  <2> QED
    BY <1>1, <1>3, <2>1, FinishKeepsType, CountKeepsType
<1>4. CASE /\ task' = [task EXCEPT ![h] = [task[h] EXCEPT !.pc = "getLogs", !.value = job[j].value,
                                                      !.since = job[j].since]]
           /\ UNCHANGED counted
  <2> DEFINE value == job[j].value
             since == job[j].since
  <2>1. value \in 0 .. MaxAttempt /\ since \in 0 .. MaxAttempt
    BY <1>2, Bounds DEF TypeOK, WorkerType, JobHash
  <2> HIDE DEF value, since
  <2> DEFINE p == [task[h] EXCEPT !.pc = "getLogs"]
             v == [p EXCEPT !.value = value]
             s == [v EXCEPT !.since = since]
  <2>2. p \in Task
    BY <1>1, TaskFields
  <2>3. v \in Task
    BY <2>1, <2>2, TaskFields
  <2>4. s \in Task
    BY <2>1, <2>3, TaskFields
  <2>5. task' = [task EXCEPT ![h] = s]
    BY <1>4 DEF value, since
  <2>6. s.pc = "getLogs" /\ s.todo = task[h].todo /\ s.lines = task[h].lines
    BY <1>1 DEF Task
  <2>7. task[h].todo \subseteq DOMAIN task[h].lines
    BY <1>1 DEF TaskType
  <2> HIDE DEF s
  <2>8. s.todo \subseteq DOMAIN s.lines /\ s.pc \notin Writing
    BY <2>6, <2>7 DEF Writing
  <2>9. TaskType'
    BY <1>1, <2>4, <2>5, <2>8, SetTaskKeepsType
  <2> QED
    BY <1>1, <1>4, <2>9
<1> QED
  BY <1>3, <1>4 DEF GetJob

LEMMA GetLogsKeepsType ==
  ASSUME TypeOK, NEW h \in Handler, GetLogs(h)
  PROVE  TaskType' /\ SentType'
<1> DEFINE j == task[h].job
<1>1. TaskType /\ SentType /\ task[h] \in Task
  BY TaskAtStage DEF TypeOK, GetLogs, Stages
<1>2. j \in Job /\ task[h].at \in Replica
  BY <1>1 DEF Task
<1>3. log[j] \in Seq(Line) /\ RunLines(log[j]) \in SUBSET (DOMAIN log[j])
  BY <1>2 DEF TypeOK, WorkerType, RunLines
<1>4. Proceed(h, log[j], RunLines(log[j]))
  BY DEF GetLogs
<1>5. TaskType'
  BY <1>1, <1>3, <1>4, ProceedKeepsType
<1>6. Send(task[h].at, h) \/ UNCHANGED sent
  BY DEF GetLogs
<1>7. CASE Send(task[h].at, h)
  BY <1>1, <1>2, <1>5, <1>7, SendKeepsType
<1>8. CASE UNCHANGED sent
  BY <1>1, <1>5, <1>8 DEF SentType
<1> QED
  BY <1>6, <1>7, <1>8

\* A handler that goes on to its next run line, or to its decision.
LEMMA NextLineKeepsType ==
  ASSUME TaskType, NEW h \in Handler, task[h] \in Task, task[h] # Idle,
         Proceed(h, task[h].lines, task[h].todo)
  PROVE  TaskType'
<1>1. task[h].lines \in Seq(Line) /\ task[h].todo \in SUBSET (DOMAIN task[h].lines)
  BY DEF TaskType, Task
<1> QED
  BY <1>1, ProceedKeepsType

LEMMA ZaddKeepsType ==
  ASSUME TypeOK, NEW h \in Handler, Zadd(h)
  PROVE  TaskType' /\ SentType' /\ index' \subseteq Run /\ counted' \in [Tally -> Nat]
<1>1. /\ TaskType /\ SentType /\ index \subseteq Run /\ counted \in [Tally -> Nat]
      /\ task[h] \in Task /\ task[h] # Idle
  BY TaskAtStage DEF TypeOK, IndexType, HistoryType, Zadd, Stages, Writing
<1>2. task[h].run \in Run
  BY DEF Zadd, TypeOK, TaskType
<1>3. SentType'
  <2>1. Answered(h, TRUE) \/ Answered(h, task[h].todo # {})
    BY DEF Zadd
  <2> QED
    BY <1>1, <2>1, AnsweredKeepsType
<1>4. CASE /\ index' = index \cup {task[h].run} /\ Count(RunTally(task[h].run))
           /\ task' = [task EXCEPT ![h].pc = "zrange"]
  <2> DEFINE t == [task[h] EXCEPT !.pc = "zrange"]
  <2>1. t \in Task
    BY <1>1, TaskFields
  <2>2. task' = [task EXCEPT ![h] = t]
    BY <1>4
  <2>3. t.todo = task[h].todo /\ t.lines = task[h].lines /\ t.run = task[h].run
    BY <1>1 DEF Task
  <2>4. task[h].todo \subseteq DOMAIN task[h].lines
    BY <1>1 DEF TaskType
  <2> HIDE DEF t
  <2>5. t.todo \subseteq DOMAIN t.lines /\ t.run \in Run
    BY <1>2, <2>3, <2>4
  <2>6. TaskType'
    BY <1>1, <2>1, <2>2, <2>5, SetTaskKeepsType
  <2>7. counted' \in [Tally -> Nat]
    BY <1>1, <1>2, <1>4, TallyType, CountKeepsType
  <2> QED
    BY <1>1, <1>2, <1>3, <1>4, <2>6, <2>7
<1>5. CASE Proceed(h, task[h].lines, task[h].todo) /\ UNCHANGED <<index, counted>>
  BY <1>1, <1>3, <1>5, NextLineKeepsType
<1> QED
  BY <1>4, <1>5 DEF Zadd

LEMMA ZrangeKeepsType ==
  ASSUME TypeOK, NEW h \in Handler, Zrange(h)
  PROVE  TaskType' /\ SentType'
<1>1. TaskType /\ SentType /\ index \subseteq Run /\ task[h] \in Task /\ task[h] # Idle
  BY TaskAtStage DEF TypeOK, IndexType, Zrange, Stages, Writing
<1>2. task[h].run \in Run /\ task[h].todo \subseteq DOMAIN task[h].lines
  BY <1>1 DEF Zrange, TaskType
<1>3. SentType'
  BY <1>1, AnsweredKeepsType DEF Zrange
<1>4. PICK o \in SUBSET index : task' = [task EXCEPT ![h] = [task[h] EXCEPT !.pc = "multi", !.overflow = o]]
  BY DEF Zrange
<1> DEFINE p == [task[h] EXCEPT !.pc = "multi"]
           t == [p EXCEPT !.overflow = o]
<1>5. p \in Task
  BY <1>1, TaskFields
<1>6. t \in Task
  BY <1>1, <1>5, TaskFields
<1>7. task' = [task EXCEPT ![h] = t]
  BY <1>4
<1>8. t.todo = task[h].todo /\ t.lines = task[h].lines /\ t.run = task[h].run
  BY <1>1 DEF Task
<1> HIDE DEF t
<1>9. t.todo \subseteq DOMAIN t.lines /\ t.run \in Run
  BY <1>2, <1>8
<1> QED
  BY <1>1, <1>3, <1>6, <1>7, <1>9, SetTaskKeepsType

\* The transaction takes only what the handler read before, and adds its own run.
LEMMA IndexEntryKeepsType ==
  ASSUME IndexType, HistoryType, NEW h \in Handler, task[h] \in Task, task[h].run \in Run, IndexEntry(h)
  PROVE  index' \subseteq Run /\ data' \subseteq Run /\ evicted' \in [Run -> Nat]
<1>1. data' = (data \cup {task[h].run}) \ task[h].overflow /\ index' = index \ task[h].overflow
  BY DEF IndexEntry
<1>2. evicted' \in [Run -> Nat]
  BY DEF IndexEntry, HistoryType
<1> QED
  BY <1>1, <1>2 DEF IndexType

LEMMA MultiKeepsType ==
  ASSUME TypeOK, NEW h \in Handler, Multi(h)
  PROVE  TaskType' /\ SentType' /\ index' \subseteq Run /\ data' \subseteq Run /\ evicted' \in [Run -> Nat]
<1>1. TaskType /\ SentType /\ IndexType /\ HistoryType /\ task[h] \in Task /\ task[h] # Idle
  BY TaskAtStage DEF TypeOK, Multi, Stages, Writing
<1>2. task[h].run \in Run
  BY <1>1 DEF Multi, TaskType
<1>3. Answered(h, task[h].todo # {}) /\ IndexEntry(h) /\ Proceed(h, task[h].lines, task[h].todo)
  BY DEF Multi
<1>4. SentType'
  BY <1>1, <1>3, AnsweredKeepsType
<1>5. TaskType'
  BY <1>1, <1>3, NextLineKeepsType
<1> QED
  BY <1>1, <1>2, <1>3, <1>4, <1>5, IndexEntryKeepsType

LEMMA DecideKeepsType ==
  ASSUME TypeOK, NEW h \in Handler, Decide(h)
  PROVE  TaskType' /\ SentType' /\ counted' \in [Tally -> Nat] /\ timer' \in [Replica -> [Job -> Nat]]
<1> DEFINE j == task[h].job
           r == task[h].at
           value == task[h].value
<1>1. /\ TaskType /\ SentType /\ counted \in [Tally -> Nat] /\ timer \in [Replica -> [Job -> Nat]]
      /\ task[h] \in Task /\ task[h] # Idle
  BY TaskAtStage DEF TypeOK, HistoryType, PendingType, Decide, Stages
<1>2. /\ j \in Job /\ r \in Replica /\ value \in 0 .. MaxAttempt
      /\ task[h].todo \subseteq DOMAIN task[h].lines
  BY <1>1 DEF Task, TaskType
<1>3. CASE Finish(h) /\ UNCHANGED <<sent, timer>> /\ (UNCHANGED counted \/ Count(JobTally("skipped", j))
                                                    \/ Count(JobTally("unrecorded", j)))
  <2>1. JobTally("skipped", j) \in Tally /\ JobTally("unrecorded", j) \in Tally
    BY <1>2, TallyType
  <2>2. TaskType' /\ counted' \in [Tally -> Nat]
    BY <1>1, <1>3, <2>1, FinishKeepsType, CountKeepsType
  <2> QED
    BY <1>1, <1>3, <2>2 DEF SentType
<1>4. CASE timer' = [timer EXCEPT ![r][j] = @ + 1] /\ Finish(h) /\ UNCHANGED <<sent, counted>>
  <2>1. timer' \in [Replica -> [Job -> Nat]]
    BY <1>1, <1>2, <1>4
  <2>2. TaskType'
    BY <1>1, <1>4, FinishKeepsType
  <2> QED
    BY <1>1, <1>4, <2>1, <2>2 DEF SentType
<1>5. CASE /\ task' = [task EXCEPT ![h] = [task[h] EXCEPT !.pc = "zadd", !.run = <<j, value>>, !.fallback = TRUE]]
           /\ value > 0 /\ Send(r, h) /\ UNCHANGED <<timer, counted>>
  <2> DEFINE run == <<j, value>>
  <2>1. run \in Run /\ run \in Job \X (0 .. MaxAttempt)
    BY <1>2, <1>5, Bounds DEF Run, Attempt
  <2> HIDE DEF run
  <2> DEFINE p == [task[h] EXCEPT !.pc = "zadd"]
             u == [p EXCEPT !.run = run]
             t == [u EXCEPT !.fallback = TRUE]
  <2>2. p \in Task
    BY <1>1, TaskFields
  <2>3. u \in Task
    BY <2>1, <2>2, TaskFields
  <2>4. t \in Task
    BY <2>3, TaskFields
  <2>5. task' = [task EXCEPT ![h] = t]
    BY <1>5 DEF run
  <2>6. t.todo = task[h].todo /\ t.lines = task[h].lines /\ t.run = run
    BY <1>1 DEF Task
  <2> HIDE DEF t
  <2>7. t.todo \subseteq DOMAIN t.lines /\ t.run \in Run
    BY <1>2, <2>1, <2>6
  <2>8. TaskType'
    BY <1>1, <2>4, <2>5, <2>7, SetTaskKeepsType
  <2>9. SentType'
    BY <1>1, <1>2, <1>5, SendKeepsType
  <2> QED
    BY <1>1, <1>5, <2>8, <2>9
<1> QED
  BY <1>3, <1>4, <1>5 DEF Decide, FallsBack


\* No step of a handler touches the worker, and each one keeps the types of what it changes.
LEMMA MonitorKeepsType == TypeOK /\ Monitor => TypeOK'
<1> SUFFICES ASSUME TypeOK, Monitor PROVE TypeOK'
  OBVIOUS
<1>1. WorkerType'
  BY DEF TypeOK, WorkerType, Monitor, OnEvent, OnTimer, GetJob, GetLogs, Zadd, Zrange, Multi, Decide, worker
<1>2. ASSUME NEW h \in Handler, NEW r \in Replica, NEW j \in Job, OnEvent(h, r, j) PROVE TypeOK'
  <2>1. TaskType'
    BY <1>2, BeginKeepsType DEF TypeOK, OnEvent
  <2>2. event' \in [Replica -> [Job -> Nat]]
    BY <1>2 DEF TypeOK, PendingType, OnEvent
  <2> QED
    BY <1>1, <1>2, <2>1, <2>2
    DEF TypeOK, OnEvent, PendingType, SentType, IndexType, HistoryType, redis
<1>3. ASSUME NEW h \in Handler, NEW r \in Replica, NEW j \in Job, OnTimer(h, r, j) PROVE TypeOK'
  <2>1. TaskType'
    BY <1>3, BeginKeepsType DEF TypeOK, OnTimer
  <2>2. timer' \in [Replica -> [Job -> Nat]]
    BY <1>3 DEF TypeOK, PendingType, OnTimer
  <2> QED
    BY <1>1, <1>3, <2>1, <2>2
    DEF TypeOK, OnTimer, PendingType, SentType, IndexType, HistoryType, redis
<1>4. ASSUME NEW h \in Handler, GetJob(h) PROVE TypeOK'
  BY <1>1, <1>4, GetJobKeepsType
  DEF TypeOK, GetJob, PendingType, SentType, IndexType, HistoryType, redis
<1>5. ASSUME NEW h \in Handler, GetLogs(h) PROVE TypeOK'
  BY <1>1, <1>5, GetLogsKeepsType DEF TypeOK, GetLogs, PendingType, IndexType, HistoryType, redis
<1>6. ASSUME NEW h \in Handler, Zadd(h) PROVE TypeOK'
  BY <1>1, <1>6, ZaddKeepsType DEF TypeOK, Zadd, PendingType, IndexType, HistoryType
<1>7. ASSUME NEW h \in Handler, Zrange(h) PROVE TypeOK'
  BY <1>1, <1>7, ZrangeKeepsType DEF TypeOK, Zrange, PendingType, IndexType, HistoryType, redis
<1>8. ASSUME NEW h \in Handler, Multi(h) PROVE TypeOK'
  BY <1>1, <1>8, MultiKeepsType DEF TypeOK, Multi, PendingType, IndexType, HistoryType
<1>9. ASSUME NEW h \in Handler, Decide(h) PROVE TypeOK'
  BY <1>1, <1>9, DecideKeepsType DEF TypeOK, Decide, PendingType, IndexType, HistoryType, redis
<1> QED
  BY <1>2, <1>3, <1>4, <1>5, <1>6, <1>7, <1>8, <1>9 DEF Monitor

-----------------------------------------------------------------------------
\* Failures, the life cycle and the clear mutation.

LEMMA EnvironmentKeepsType == TypeOK /\ Environment => TypeOK'
<1> SUFFICES ASSUME TypeOK, Environment PROVE TypeOK'
  OBVIOUS
<1>1. WorkerType'
  BY DEF TypeOK, WorkerType, Environment, CallFails, ReplyLost, Stop, StartCollecting, Crash, ClearIndex,
         ClearData, worker
<1>2. TaskType /\ SentType /\ IndexType /\ HistoryType /\ PendingType
  BY DEF TypeOK
<1>3. budget' \in [Budget -> Nat] /\ budget'["ended"] <= MaxEnded
  <2>1. budget \in [Budget -> Nat] /\ budget["ended"] <= MaxEnded
    BY <1>2 DEF PendingType
  <2>2. CASE Spend("faults")
    BY <2>1, <2>2 DEF Spend, Budget
  <2>3. CASE UNCHANGED budget
    BY <2>1, <2>3
  <2> QED
    BY <2>2, <2>3 DEF Environment, CallFails, ReplyLost, Stop, StartCollecting, Crash, ClearIndex, ClearData
<1>4. ASSUME NEW h \in Handler, CallFails(h) PROVE TypeOK'
  <2>1. task[h] \in Task
    BY <1>2, <1>4 DEF CallFails, TaskType
  <2>2. TaskType'
    BY <1>2, <1>4, FinishKeepsType DEF CallFails
  <2>3. SentType'
    <3>1. UNCHANGED sent \/ Answered(h, FALSE)
      BY <1>4 DEF CallFails
    <3>2. CASE UNCHANGED sent
      BY <1>2, <3>2 DEF SentType
    <3> QED
      BY <1>2, <2>1, <3>1, <3>2, AnsweredKeepsType
  <2>4. broken' \subseteq Run
    BY <1>2, <1>4 DEF CallFails, IndexType, TaskType
  <2> QED
    BY <1>1, <1>2, <1>3, <1>4, <2>2, <2>3, <2>4 DEF TypeOK, CallFails, PendingType, IndexType, HistoryType, redis
<1>5. ASSUME NEW h \in Handler, ReplyLost(h) PROVE TypeOK'
  <2>1. task[h] \in Task /\ task[h].run \in Run
    BY <1>2, <1>5, TaskAtStage DEF ReplyLost, TaskType, Stages, Writing
  <2>2. TaskType'
    BY <1>2, <1>5, FinishKeepsType DEF ReplyLost
  <2>3. SentType'
    BY <1>2, <1>5, <2>1, AnsweredKeepsType DEF ReplyLost
  <2>4. IndexType' /\ evicted' \in [Run -> Nat]
    <3>1. CASE IndexEntry(h) /\ UNCHANGED broken
      BY <1>2, <2>1, <3>1, IndexEntryKeepsType DEF IndexType
    <3>2. CASE /\ index' = index \cup {task[h].run} /\ broken' = broken \cup {task[h].run}
               /\ UNCHANGED <<data, evicted>>
      BY <1>2, <2>1, <3>2 DEF IndexType, HistoryType
    <3> QED
      BY <1>5, <3>1, <3>2 DEF ReplyLost
  <2> QED
    BY <1>1, <1>2, <1>3, <1>5, <2>2, <2>3, <2>4 DEF TypeOK, ReplyLost, PendingType, HistoryType
<1>6. ASSUME NEW r \in Replica, Stop(r) PROVE TypeOK'
  <2>1. event' \in [Replica -> [Job -> Nat]] /\ timer' \in [Replica -> [Job -> Nat]]
    BY <1>2, <1>6 DEF Stop, PendingType
  <2> QED
    BY <1>1, <1>2, <1>3, <1>6, <2>1
    DEF TypeOK, Stop, PendingType, TaskType, SentType, IndexType, HistoryType, redis
<1>7. ASSUME NEW r \in Replica, StartCollecting(r) PROVE TypeOK'
  BY <1>1, <1>2, <1>3, <1>7
  DEF TypeOK, StartCollecting, PendingType, TaskType, SentType, IndexType, HistoryType, redis
<1>8. ASSUME NEW r \in Replica, Crash(r) PROVE TypeOK'
  <2>1. event' \in [Replica -> [Job -> Nat]] /\ timer' \in [Replica -> [Job -> Nat]]
    BY <1>2, <1>8 DEF Crash, PendingType
  <2>2. TaskType'
    BY <1>2, <1>8 DEF Crash, TaskType, Idle
  <2>3. SentType'
    BY <1>2, <1>8 DEF Crash, SentType
  <2>4. IndexType'
    BY <1>2, <1>8 DEF Crash, IndexType, TaskType, redis
  <2> QED
    BY <1>1, <1>2, <1>3, <1>8, <2>1, <2>2, <2>3, <2>4 DEF TypeOK, Crash, PendingType, HistoryType
<1>9. ASSUME ClearIndex PROVE TypeOK'
  <2>1. IndexType' /\ evicted' \in [Run -> Nat]
    BY <1>2, <1>9 DEF ClearIndex, IndexType, HistoryType
  <2> QED
    BY <1>1, <1>2, <1>3, <1>9, <2>1 DEF TypeOK, ClearIndex, PendingType, TaskType, SentType, HistoryType
<1>10. ASSUME ClearData PROVE TypeOK'
  BY <1>1, <1>2, <1>3, <1>10 DEF TypeOK, ClearData, PendingType, TaskType, SentType, IndexType, HistoryType
<1> QED
  BY <1>4, <1>5, <1>6, <1>7, <1>8, <1>9, <1>10 DEF Environment

\* Type correctness of ingestion, for any number of replicas, handlers and jobs: in
\* particular a handler past its ZADD always holds a run that some execution produced.
THEOREM TypeCorrect == Spec => []TypeOK
<1>1. Init => TypeOK
  BY InitType
<1>2. TypeOK /\ [Next]_vars => TypeOK'
  <2> SUFFICES ASSUME TypeOK, [Next]_vars PROVE TypeOK'
    OBVIOUS
  <2>1. CASE UNCHANGED vars
    BY <2>1 DEF vars, TypeOK, WorkerType, PendingType, TaskType, SentType, IndexType, HistoryType
  <2> QED
    BY <2>1, WorkerKeepsType, MonitorKeepsType, EnvironmentKeepsType DEF Next
<1> QED
  BY <1>1, <1>2, PTL DEF Spec


-----------------------------------------------------------------------------
\* A run is counted once per admission to the index.  The invariant is inductive under
\* TypeOK: ZADD NX answers 1 exactly when it adds the member, and the step that counts is
\* the step that adds.

LEMMA TalliesDiffer ==
  /\ \A a, b \in Run : RunTally(a) = RunTally(b) => a = b
  /\ \A a \in Run, j \in Job, kind \in {"lost", "unrecorded", "skipped"} : RunTally(a) # JobTally(kind, j)
<1>1. ASSUME NEW a \in Run, NEW b \in Run, RunTally(a) = RunTally(b) PROVE a = b
  <2>1. a[1] = b[1] /\ a[2] = b[2]
    BY <1>1 DEF RunTally
  <2> QED
    BY <2>1 DEF Run
<1>2. ASSUME NEW a \in Run, NEW j \in Job, NEW kind \in {"lost", "unrecorded", "skipped"}
      PROVE  RunTally(a) # JobTally(kind, j)
  <2>1. RunTally(a).kind = "run" /\ JobTally(kind, j).kind # "run"
    BY DEF RunTally, JobTally
  <2> QED
    BY <2>1
<1> QED
  BY <1>1, <1>2

\* How a step may change what is counted, in the index, and evicted.
LEMMA AdmissionSteps ==
  ASSUME TypeOK, Next
  PROVE  \/ /\ UNCHANGED <<index, evicted>>
            /\ \A run \in Run : counted'[RunTally(run)] = counted[RunTally(run)]
         \/ \E run \in Run : run \notin index /\ index' = index \cup {run} /\ Count(RunTally(run))
                              /\ UNCHANGED evicted
         \/ \E gone : /\ index' = index \ gone /\ UNCHANGED counted
                       /\ evicted' = [run \in Run |-> IF run \in gone \cap index THEN evicted[run] + 1
                                                     ELSE evicted[run]]
         \/ \E run \in Run : index' = index \cup {run} /\ UNCHANGED <<counted, evicted>>
<1>1. ASSUME Worker PROVE UNCHANGED <<index, evicted, counted>>
  BY <1>1 DEF Worker, Start, End, LateLine, ManualRetry, Redeliver, redis
<1>2. ASSUME NEW h \in Handler, GetJob(h) \/ Decide(h)
      PROVE  UNCHANGED <<index, evicted>> /\ \A run \in Run : counted'[RunTally(run)] = counted[RunTally(run)]
  <2> DEFINE j == task[h].job
  <2>1. j \in Job
    BY <1>2, TaskAtStage DEF TypeOK, GetJob, Decide, Stages, Task
  <2>2. \/ UNCHANGED counted
        \/ \E kind \in {"lost", "unrecorded", "skipped"} : Count(JobTally(kind, j))
    BY <1>2 DEF GetJob, Decide
  <2>3. ASSUME NEW kind \in {"lost", "unrecorded", "skipped"}, Count(JobTally(kind, j)), NEW run \in Run
        PROVE  counted'[RunTally(run)] = counted[RunTally(run)]
    <3>1. RunTally(run) # JobTally(kind, j) /\ RunTally(run) \in Tally
      BY <2>1, TalliesDiffer, TallyType
    <3> QED
      BY <2>3, <3>1 DEF Count, TypeOK, HistoryType
  <2> QED
    BY <1>2, <2>2, <2>3 DEF GetJob, Decide, redis
<1>3. ASSUME NEW h \in Handler, Zadd(h)
      PROVE  \/ UNCHANGED <<index, counted, evicted>>
             \/ /\ task[h].run \in Run \ index /\ index' = index \cup {task[h].run}
                /\ Count(RunTally(task[h].run)) /\ UNCHANGED evicted
  BY <1>3 DEF Zadd, IsNew, TypeOK, TaskType
<1>4. ASSUME NEW h \in Handler, Multi(h) \/ ReplyLost(h)
      PROVE  \/ IndexEntry(h) /\ UNCHANGED counted
             \/ task[h].run \in Run /\ index' = index \cup {task[h].run} /\ UNCHANGED <<counted, evicted>>
  BY <1>4 DEF Multi, ReplyLost, TypeOK, TaskType
<1>5. ASSUME ClearIndex
      PROVE  /\ index' = index \ index /\ UNCHANGED counted
             /\ evicted' = [run \in Run |-> IF run \in index \cap index THEN evicted[run] + 1 ELSE evicted[run]]
  BY <1>5 DEF ClearIndex
<1>6. ASSUME \/ \E h \in Handler : GetLogs(h) \/ Zrange(h) \/ CallFails(h)
             \/ \E h \in Handler, r \in Replica, j \in Job : OnEvent(h, r, j) \/ OnTimer(h, r, j)
             \/ \E r \in Replica : Stop(r) \/ StartCollecting(r) \/ Crash(r)
             \/ ClearData
      PROVE  UNCHANGED <<index, counted, evicted>>
  BY <1>6 DEF GetLogs, Zrange, CallFails, OnEvent, OnTimer, Stop, StartCollecting, Crash, ClearData, redis
<1>7. ASSUME NEW h \in Handler, IndexEntry(h)
      PROVE  \E gone : /\ index' = index \ gone
                       /\ evicted' = [run \in Run |-> IF run \in gone \cap index THEN evicted[run] + 1
                                                     ELSE evicted[run]]
  BY <1>7 DEF IndexEntry
<1>8. CASE Worker
  BY <1>1, <1>8
<1>9. CASE Monitor
  BY <1>2, <1>3, <1>4, <1>6, <1>7, <1>9 DEF Monitor
<1>10. CASE Environment
  <2>1. CASE ClearIndex
    BY <1>5, <2>1
  <2>2. CASE \E h \in Handler : ReplyLost(h)
    BY <1>4, <1>7, <2>2
  <2> QED
    BY <1>6, <1>10, <2>1, <2>2 DEF Environment
<1> QED
  BY <1>8, <1>9, <1>10 DEF Next

\* For any replicas, handlers, jobs, cap and number of failures, duplicated events, re-reads and
\* clears: a run enters the counters at most once for every time it entered the index.
THEOREM CountedOncePerAdmissionHolds == Spec => []CountedOncePerAdmission
<1>1. Init => CountedOncePerAdmission
  BY TallyType DEF Init, CountedOncePerAdmission
<1>2. TypeOK /\ CountedOncePerAdmission /\ [Next]_vars => CountedOncePerAdmission'
  <2> SUFFICES ASSUME TypeOK, CountedOncePerAdmission, [Next]_vars, NEW run \in Run
               PROVE  counted'[RunTally(run)] <= evicted'[run] + (IF run \in index' THEN 1 ELSE 0)
    BY DEF CountedOncePerAdmission
  <2> DEFINE n == counted[RunTally(run)]
             e == evicted[run]
  <2>1. n \in Nat /\ e \in Nat /\ n <= e + (IF run \in index THEN 1 ELSE 0)
    BY TallyType DEF TypeOK, HistoryType, CountedOncePerAdmission
  <2>2. CASE UNCHANGED vars
    BY <2>1, <2>2 DEF vars
  <2>3. CASE UNCHANGED <<index, evicted>> /\ counted'[RunTally(run)] = n
    BY <2>1, <2>3
  <2>4. ASSUME NEW added \in Run, added \notin index, index' = index \cup {added},
               Count(RunTally(added)), UNCHANGED evicted
        PROVE  counted'[RunTally(run)] <= evicted'[run] + (IF run \in index' THEN 1 ELSE 0)
    <3>1. CASE run = added
      <4>1. counted'[RunTally(run)] = n + 1
        BY <2>4, <3>1, TallyType DEF Count, TypeOK, HistoryType
      <4> QED
        BY <2>1, <2>4, <3>1, <4>1
    <3>2. CASE run # added
      <4>1. RunTally(run) # RunTally(added) /\ RunTally(run) \in Tally
        BY <3>2, TalliesDiffer, TallyType
      <4>2. counted'[RunTally(run)] = n
        BY <2>4, <4>1 DEF Count, TypeOK, HistoryType
      <4> QED
        BY <2>1, <2>4, <3>2, <4>2
    <3> QED
      BY <3>1, <3>2
  <2>5. ASSUME NEW gone, index' = index \ gone, UNCHANGED counted,
               evicted' = [x \in Run |-> IF x \in gone \cap index THEN evicted[x] + 1 ELSE evicted[x]]
        PROVE  counted'[RunTally(run)] <= evicted'[run] + (IF run \in index' THEN 1 ELSE 0)
    <3>1. evicted'[run] = IF run \in gone \cap index THEN e + 1 ELSE e
      BY <2>5
    <3> QED
      BY <2>1, <2>5, <3>1
  <2>6. ASSUME NEW added \in Run, index' = index \cup {added}, UNCHANGED <<counted, evicted>>
        PROVE  counted'[RunTally(run)] <= evicted'[run] + (IF run \in index' THEN 1 ELSE 0)
    BY <2>1, <2>6
  <2> QED
    BY <2>2, <2>3, <2>4, <2>5, <2>6, AdmissionSteps
<1> QED
  BY <1>1, <1>2, TypeCorrect, PTL DEF Spec


-----------------------------------------------------------------------------
\* A member of the index has its entry, or a handler that still owes it one.

\* Any step of a handler is a step of that handler alone.
LEMMA OneHandlerMoves ==
  ASSUME TypeOK, NEW h \in Handler,
         \/ \E r \in Replica, j \in Job : OnEvent(h, r, j) \/ OnTimer(h, r, j)
         \/ GetJob(h) \/ GetLogs(h) \/ Zadd(h) \/ Zrange(h) \/ Multi(h) \/ Decide(h)
         \/ CallFails(h) \/ ReplyLost(h)
  PROVE  \A x \in Handler \ {h} : task'[x] = task[x]
<1>1. \E t : task' = [task EXCEPT ![h] = t]
  BY DEF OnEvent, OnTimer, GetJob, GetLogs, Zadd, Zrange, Multi, Decide, CallFails, ReplyLost, Begin, Finish,
         Proceed
<1> QED
  BY <1>1 DEF TypeOK, TaskType

\* A step that takes nothing from the hash, adds nothing to the index, and leaves every handler
\* that owes an entry where it is.
LEMMA EntriesKept ==
  ASSUME IndexedRunHasEntry, index' \subseteq index, data \cup broken \subseteq data' \cup broken',
         \A x \in Indexing : \/ x \in Indexing' /\ task'[x].run = task[x].run
                            \/ task[x].run \in data' \cup broken'
  PROVE  IndexedRunHasEntry'
  BY DEF IndexedRunHasEntry

\* The transaction writes the entry of its run, and takes from the hash only what it takes from
\* the index.
LEMMA IndexEntryKeepsEntries ==
  ASSUME IndexedRunHasEntry, NEW h \in Handler, IndexEntry(h), UNCHANGED broken,
         \A x \in Handler \ {h} : task'[x] = task[x]
  PROVE  IndexedRunHasEntry'
<1> SUFFICES ASSUME NEW run \in index'
             PROVE  run \in data' \cup broken' \/ \E x \in Indexing' : task'[x].run = run
  BY DEF IndexedRunHasEntry
<1>1. run \in index /\ run \notin task[h].overflow
  BY DEF IndexEntry
<1>2. CASE run \in data \cup broken \/ run = task[h].run
  BY <1>1, <1>2 DEF IndexEntry
<1>3. ASSUME NEW x \in Indexing, task[x].run = run, x # h
      PROVE  x \in Indexing' /\ task'[x].run = run
  BY <1>3 DEF Indexing
<1> QED
  BY <1>1, <1>2, <1>3 DEF IndexedRunHasEntry

LEMMA HandlerKeepsEntries ==
  ASSUME TypeOK, IndexedRunHasEntry, NEW h \in Handler,
         \/ \E r \in Replica, j \in Job : OnEvent(h, r, j) \/ OnTimer(h, r, j)
         \/ GetJob(h) \/ GetLogs(h) \/ Zadd(h) \/ Zrange(h) \/ Multi(h) \/ Decide(h)
         \/ CallFails(h) \/ ReplyLost(h)
  PROVE  IndexedRunHasEntry'
<1>1. \A x \in Handler \ {h} : task'[x] = task[x]
  BY OneHandlerMoves
<1>2. \A x \in Indexing : x # h => x \in Indexing' /\ task'[x].run = task[x].run
  BY <1>1 DEF Indexing
<1>3. CASE \/ \E r \in Replica, j \in Job : OnEvent(h, r, j) \/ OnTimer(h, r, j)
           \/ GetJob(h) \/ GetLogs(h) \/ Decide(h)
  <2>1. h \notin Indexing
    <3>1. task[h] = Idle \/ task[h].pc \in {"getJob", "getLogs", "decide"}
      BY <1>3 DEF OnEvent, OnTimer, GetJob, GetLogs, Decide
    <3> QED
      BY <3>1 DEF Indexing, Idle
  <2>2. UNCHANGED <<index, data, broken>>
    BY <1>3 DEF OnEvent, OnTimer, GetJob, GetLogs, Decide, redis
  <2> QED
    BY <1>2, <2>1, <2>2, EntriesKept
<1>4. CASE Zadd(h)
  <2>1. h \notin Indexing
    BY <1>4 DEF Indexing, Zadd
  <2>2. CASE UNCHANGED index
    BY <1>2, <1>4, <2>1, <2>2, EntriesKept DEF Zadd
  <2>3. CASE index' = index \cup {task[h].run} /\ task' = [task EXCEPT ![h].pc = "zrange"]
    <3>1. task[h] \in Task
      BY <1>4, TaskAtStage DEF TypeOK, Zadd, Stages, Writing
    <3>2. h \in Indexing' /\ task'[h].run = task[h].run
      BY <2>3, <3>1 DEF Indexing, Task, TypeOK, TaskType
    <3>3. ASSUME NEW run \in index'
          PROVE  run \in data' \cup broken' \/ \E x \in Indexing' : task'[x].run = run
      <4>1. CASE run = task[h].run
        BY <3>2, <4>1
      <4>2. CASE run \in index
        BY <1>2, <1>4, <2>1, <4>2 DEF IndexedRunHasEntry, Zadd
      <4> QED
        BY <2>3, <3>3, <4>1, <4>2
    <3> QED
      BY <3>3 DEF IndexedRunHasEntry
  <2> QED
    BY <1>4, <2>2, <2>3 DEF Zadd
<1>5. CASE Zrange(h)
  <2>1. task[h] \in Task
    BY <1>5, TaskAtStage DEF TypeOK, Zrange, Stages, Writing
  <2>2. PICK o : task' = [task EXCEPT ![h] = [task[h] EXCEPT !.pc = "multi", !.overflow = o]]
    BY <1>5 DEF Zrange
  <2>3. task'[h].pc = "multi" /\ task'[h].run = task[h].run
    BY <2>1, <2>2 DEF TypeOK, TaskType, Task
  <2>4. h \in Indexing'
    BY <2>3 DEF Indexing
  <2>5. UNCHANGED <<index, data, broken>>
    BY <1>5 DEF Zrange, redis
  <2> QED
    BY <1>2, <2>3, <2>4, <2>5, EntriesKept
<1>6. CASE Multi(h)
  BY <1>1, <1>6, IndexEntryKeepsEntries DEF Multi
<1>7. CASE CallFails(h)
  <2>1. UNCHANGED <<index, data>> /\ broken \subseteq broken' /\ (h \in Indexing => task[h].run \in broken')
    BY <1>7 DEF CallFails, redis, Indexing
  <2> QED
    BY <1>2, <2>1, EntriesKept
<1>8. CASE ReplyLost(h)
  <2>1. CASE IndexEntry(h) /\ UNCHANGED broken
    BY <1>1, <2>1, IndexEntryKeepsEntries
  <2>2. CASE /\ task[h].pc = "zadd" /\ index' = index \cup {task[h].run}
             /\ broken' = broken \cup {task[h].run} /\ UNCHANGED <<data, evicted>>
    <3>1. h \notin Indexing
      BY <2>2 DEF Indexing
    <3>2. ASSUME NEW run \in index'
          PROVE  run \in data' \cup broken' \/ \E x \in Indexing' : task'[x].run = run
      <4>1. CASE run = task[h].run
        BY <2>2, <4>1
      <4>2. CASE run \in index
        BY <1>2, <2>2, <3>1, <4>2 DEF IndexedRunHasEntry
      <4> QED
        BY <2>2, <3>2, <4>1, <4>2
    <3> QED
      BY <3>2 DEF IndexedRunHasEntry
  <2> QED
    BY <1>8, <2>1, <2>2 DEF ReplyLost
<1> QED
  BY <1>3, <1>4, <1>5, <1>6, <1>7, <1>8

\* Whatever the interleaving of the handlers of any number of replicas, their failures, crashes
\* and clears: trimming never separates an indexed run from its entry.
THEOREM IndexedRunHasEntryHolds == Spec => []IndexedRunHasEntry
<1>1. Init => IndexedRunHasEntry
  BY DEF Init, IndexedRunHasEntry
<1>2. TypeOK /\ IndexedRunHasEntry /\ [Next]_vars => IndexedRunHasEntry'
  <2> SUFFICES ASSUME TypeOK, IndexedRunHasEntry, [Next]_vars PROVE IndexedRunHasEntry'
    OBVIOUS
  <2>1. CASE UNCHANGED <<index, data, broken, task>>
    BY <2>1 DEF IndexedRunHasEntry, Indexing
  <2>2. CASE Worker
    BY <2>1, <2>2 DEF Worker, Start, End, LateLine, ManualRetry, Redeliver, redis
  <2>3. CASE Monitor
    BY <2>3, HandlerKeepsEntries DEF Monitor
  <2>4. CASE Environment
    <3>1. CASE \E h \in Handler : CallFails(h) \/ ReplyLost(h)
      BY <3>1, HandlerKeepsEntries
    <3>2. CASE \E r \in Replica : Stop(r) \/ StartCollecting(r)
      BY <2>1, <3>2 DEF Stop, StartCollecting, redis
    <3>3. ASSUME NEW r \in Replica, Crash(r) PROVE IndexedRunHasEntry'
      <4>1. UNCHANGED <<index, data>> /\ broken \subseteq broken'
        BY <3>3 DEF Crash, redis
      <4>2. ASSUME NEW x \in Indexing
            PROVE  \/ x \in Indexing' /\ task'[x].run = task[x].run
                   \/ task[x].run \in data' \cup broken'
        <5>1. CASE task[x] # Idle /\ task[x].at = r
          BY <3>3, <5>1 DEF Crash, Indexing
        <5>2. CASE ~(task[x] # Idle /\ task[x].at = r)
          <6>1. task'[x] = task[x]
            BY <3>3, <5>2 DEF Crash, Indexing
          <6> QED
            BY <6>1 DEF Indexing
        <5> QED
          BY <5>1, <5>2
      <4> QED
        BY <4>1, <4>2, EntriesKept
    <3>4. CASE ClearIndex
      BY <3>4 DEF ClearIndex, IndexedRunHasEntry
    <3>5. CASE ClearData
      BY <3>5 DEF ClearData, IndexedRunHasEntry
    <3> QED
      BY <2>4, <3>1, <3>2, <3>3, <3>4, <3>5 DEF Environment
  <2>5. CASE UNCHANGED vars
    BY <2>1, <2>5 DEF vars
  <2> QED
    BY <2>2, <2>3, <2>4, <2>5 DEF Next
<1> QED
  BY <1>1, <1>2, TypeCorrect, PTL DEF Spec

-----------------------------------------------------------------------------

\* What a handler with task s has yet to take from an index with these members.
Trims(s, members) ==
  s.pc = "zrange" \/ (s.pc = "multi" /\ Cardinality(members \ s.overflow) <= Cap)

\* An index over its cap has a handler that will read what is over, or has read enough of it.
TrimInv ==
  /\ IsFiniteSet(index)
  /\ broken = {} /\ Cardinality(index) > Cap => \E h \in Handler : Trims(task[h], index)

LEMMA CapIsNat == Cap \in Nat
  BY AgentMetricsAssumption DEF AgentMetricsAssumption, Cap

\* What others take from the index leaves less to do.
LEMMA TrimsLess ==
  ASSUME NEW s, NEW members, NEW fewer, fewer \subseteq members, IsFiniteSet(members)
  PROVE  /\ IsFiniteSet(fewer)
         /\ Cardinality(fewer) > Cap => Cardinality(members) > Cap
         /\ Trims(s, members) => Trims(s, fewer)
<1> DEFINE a == members \ s.overflow
           b == fewer \ s.overflow
<1>1. IsFiniteSet(a) /\ b \subseteq a
  BY FS_Difference
<1> HIDE DEF a, b
<1>2. /\ Cardinality(b) \in Nat /\ Cardinality(a) \in Nat /\ Cardinality(b) <= Cardinality(a)
  BY <1>1, FS_Subset, FS_CardinalityType
<1>3. /\ IsFiniteSet(fewer) /\ Cardinality(fewer) \in Nat /\ Cardinality(members) \in Nat
      /\ Cardinality(fewer) <= Cardinality(members)
  BY FS_Subset, FS_CardinalityType
<1>4. Cardinality(a) <= Cap => Cardinality(b) <= Cap
  BY <1>2, CapIsNat
<1>5. Cardinality(fewer) > Cap => Cardinality(members) > Cap
  BY <1>3, CapIsNat
<1> QED
  BY <1>3, <1>4, <1>5, Zenon DEF Trims, a, b

\* A step of at most one handler, that adds nothing to the index.
LEMMA OneTrims ==
  ASSUME TrimInv, index' \subseteq index, broken \subseteq broken',
         NEW h \in Handler, \A x \in Handler \ {h} : task'[x] = task[x],
         /\ broken' = {} /\ Cardinality(index') > Cap /\ Trims(task[h], index)
         => Trims(task'[h], index')
  PROVE  TrimInv'
<1>1. IsFiniteSet(index) /\ IsFiniteSet(index')
  BY TrimsLess DEF TrimInv
<1> SUFFICES ASSUME broken' = {}, Cardinality(index') > Cap
             PROVE  \E x \in Handler : Trims(task'[x], index')
  BY <1>1 DEF TrimInv
<1>2. broken = {} /\ Cardinality(index) > Cap
  BY <1>1, TrimsLess
<1>3. PICK x \in Handler : Trims(task[x], index)
  BY <1>2 DEF TrimInv
<1>4. CASE x = h
  BY <1>3, <1>4
<1>5. CASE x # h
  <2>1. Trims(task[x], index')
    BY <1>1, <1>3, TrimsLess
  <2> QED
    BY <1>5, <2>1
<1> QED
  BY <1>4, <1>5

\* The overflow that was read leaves as many members as the cap, or all of them if they are fewer.
LEMMA OverflowIsEnough ==
  ASSUME NEW members, NEW o, IsOverflow(o, members)
  PROVE  Cardinality(members \ o) <= Cap
<1>1. CASE Cardinality(members) <= Cap
  <2>1. members \ o = members
    BY <1>1 DEF IsOverflow
  <2> QED
    BY <1>1, <2>1
<1>2. CASE ~(Cardinality(members) <= Cap)
  <2>1. Cardinality(members \ o) = Cap
    BY <1>2 DEF IsOverflow
  <2> QED
    BY <2>1, CapIsNat
<1> QED
  BY <1>1, <1>2

\* The transaction of a handler that has yet to trim brings the index to its cap.
LEMMA TransactionTrims ==
  ASSUME TrimInv, NEW h \in Handler, task[h].pc = "multi", IndexEntry(h), UNCHANGED broken,
         \A x \in Handler \ {h} : task'[x] = task[x]
  PROVE  TrimInv'
<1>1. index' = index \ task[h].overflow
  BY DEF IndexEntry
<1>2. Trims(task[h], index) => ~(Cardinality(index') > Cap)
  <2>1. Cardinality(index') \in Nat
    BY <1>1, FS_Difference, FS_CardinalityType DEF TrimInv
  <2> QED
    BY <1>1, <2>1, CapIsNat DEF Trims
<1> QED
  BY <1>1, <1>2, OneTrims

LEMMA HandlerTrims ==
  ASSUME TypeOK, TrimInv, NEW h \in Handler,
         \/ \E r \in Replica, j \in Job : OnEvent(h, r, j) \/ OnTimer(h, r, j)
         \/ GetJob(h) \/ GetLogs(h) \/ Zadd(h) \/ Zrange(h) \/ Multi(h) \/ Decide(h)
         \/ CallFails(h) \/ ReplyLost(h)
  PROVE  TrimInv'
<1>1. \A x \in Handler \ {h} : task'[x] = task[x]
  BY OneHandlerMoves
<1>2. CASE \/ \E r \in Replica, j \in Job : OnEvent(h, r, j) \/ OnTimer(h, r, j)
           \/ GetJob(h) \/ GetLogs(h) \/ Decide(h)
  <2>1. ~Trims(task[h], index)
    <3>1. task[h] = Idle \/ task[h].pc \in {"getJob", "getLogs", "decide"}
      BY <1>2 DEF OnEvent, OnTimer, GetJob, GetLogs, Decide
    <3> QED
      BY <3>1 DEF Trims, Idle
  <2>2. UNCHANGED <<index, broken>>
    BY <1>2 DEF OnEvent, OnTimer, GetJob, GetLogs, Decide, redis
  <2> QED
    BY <1>1, <2>1, <2>2, OneTrims
<1>3. CASE Zadd(h)
  <2>1. broken' = broken /\ ~Trims(task[h], index)
    BY <1>3 DEF Zadd, Trims
  <2>2. CASE UNCHANGED index
    BY <1>1, <2>1, <2>2, OneTrims
  <2>3. CASE index' = index \cup {task[h].run} /\ task' = [task EXCEPT ![h].pc = "zrange"]
    <3>1. task[h] \in Task
      BY <1>3, TaskAtStage DEF TypeOK, Zadd, Stages, Writing
    <3>2. Trims(task'[h], index')
      BY <2>3, <3>1 DEF Task, TypeOK, TaskType, Trims
    <3>3. IsFiniteSet(index')
      BY <2>3, FS_AddElement DEF TrimInv
    <3> QED
      BY <3>2, <3>3 DEF TrimInv
  <2> QED
    BY <1>3, <2>2, <2>3 DEF Zadd
<1>4. CASE Zrange(h)
  <2>1. task[h] \in Task
    BY <1>4, TaskAtStage DEF TypeOK, Zrange, Stages, Writing
  <2>2. UNCHANGED <<index, broken>>
    BY <1>4 DEF Zrange, redis
  <2>3. PICK o \in SUBSET index :
          /\ IsOverflow(o, index)
          /\ task' = [task EXCEPT ![h] = [task[h] EXCEPT !.pc = "multi", !.overflow = o]]
    BY <1>4 DEF Zrange
  <2>4. task'[h].pc = "multi" /\ task'[h].overflow = o
    BY <2>1, <2>3 DEF TypeOK, TaskType, Task
  <2>5. Trims(task'[h], index')
    BY <2>2, <2>3, <2>4, OverflowIsEnough DEF Trims
  <2> QED
    BY <1>1, <2>2, <2>5, OneTrims
<1>5. CASE Multi(h)
  BY <1>1, <1>5, TransactionTrims DEF Multi
<1>6. CASE CallFails(h)
  <2>1. UNCHANGED index /\ broken \subseteq broken' /\ (Trims(task[h], index) => broken' # {})
    BY <1>6 DEF CallFails, redis, Trims
  <2> QED
    BY <1>1, <2>1, OneTrims
<1>7. CASE ReplyLost(h)
  <2>1. CASE task[h].pc = "multi" /\ IndexEntry(h) /\ UNCHANGED broken
    BY <1>1, <2>1, TransactionTrims
  <2>2. CASE index' = index \cup {task[h].run} /\ broken' = broken \cup {task[h].run}
    <3>1. broken' # {} /\ IsFiniteSet(index')
      BY <2>2, FS_AddElement DEF TrimInv
    <3> QED
      BY <3>1 DEF TrimInv
  <2> QED
    BY <1>7, <2>1, <2>2 DEF ReplyLost
<1> QED
  BY <1>2, <1>3, <1>4, <1>5, <1>6, <1>7

LEMMA TrimsKnown == Spec => []TrimInv
<1>1. Init => TrimInv
  <2> SUFFICES ASSUME Init PROVE TrimInv
    OBVIOUS
  <2>1. index = {} /\ Cardinality(index) = 0
    BY FS_EmptySet DEF Init
  <2> QED
    BY <2>1, FS_EmptySet, CapIsNat DEF TrimInv
<1>2. TypeOK /\ TrimInv /\ [Next]_vars => TrimInv'
  <2> SUFFICES ASSUME TypeOK, TrimInv, [Next]_vars PROVE TrimInv'
    OBVIOUS
  <2>1. CASE UNCHANGED <<index, broken, task>>
    BY <2>1 DEF TrimInv
  <2>2. CASE Worker
    BY <2>1, <2>2 DEF Worker, Start, End, LateLine, ManualRetry, Redeliver, redis
  <2>3. CASE Monitor
    BY <2>3, HandlerTrims DEF Monitor
  <2>4. CASE Environment
    <3>1. CASE \E h \in Handler : CallFails(h) \/ ReplyLost(h)
      BY <3>1, HandlerTrims
    <3>2. CASE \E r \in Replica : Stop(r) \/ StartCollecting(r)
      BY <2>1, <3>2 DEF Stop, StartCollecting, redis
    <3>3. ASSUME NEW r \in Replica, Crash(r) PROVE TrimInv'
      <4>1. UNCHANGED index /\ broken \subseteq broken'
        BY <3>3 DEF Crash, redis
      <4>2. ASSUME NEW x \in Handler, Trims(task[x], index)
            PROVE  broken' # {} \/ Trims(task'[x], index')
        <5>1. CASE task[x] # Idle /\ task[x].at = r
          BY <3>3, <4>2, <5>1 DEF Crash, Trims
        <5>2. CASE ~(task[x] # Idle /\ task[x].at = r)
          BY <3>3, <4>1, <4>2, <5>2 DEF Crash
        <5> QED
          BY <5>1, <5>2
      <4> QED
        BY <4>1, <4>2 DEF TrimInv
    <3>4. CASE ClearIndex
      <4>1. index' = {} /\ Cardinality(index') = 0 /\ IsFiniteSet(index')
        BY <3>4, FS_EmptySet DEF ClearIndex
      <4> QED
        BY <4>1, CapIsNat DEF TrimInv
    <3>5. CASE ClearData
      BY <3>5 DEF ClearData, TrimInv
    <3> QED
      BY <2>4, <3>1, <3>2, <3>3, <3>4, <3>5 DEF Environment
  <2>5. CASE UNCHANGED vars
    BY <2>1, <2>5 DEF vars
  <2> QED
    BY <2>2, <2>3, <2>4, <2>5 DEF Next
<1> QED
  BY <1>1, <1>2, TypeCorrect, PTL DEF Spec

\* Handlers of any number of replicas that trim at once, each on an overflow it read earlier, leave
\* the index within its cap when they are done: the last of them to read sees what the others added,
\* and what others remove meanwhile only leaves it less to remove.
THEOREM IndexTrimmedHolds == Spec => []IndexTrimmed
<1>1. TrimInv => IndexTrimmed
  <2> SUFFICES ASSUME TrimInv, Indexing = {}, broken = {}, Cardinality(index) > Cap PROVE FALSE
    <3>1. Cardinality(index) \in Nat \/ ~TrimInv
      BY FS_CardinalityType DEF TrimInv
    <3> QED
      BY <3>1, CapIsNat DEF IndexTrimmed
  <2> QED
    BY DEF TrimInv, Trims, Indexing
<1> QED
  BY <1>1, TrimsKnown, PTL

-----------------------------------------------------------------------------
(* What a step of a handler makes of its task, field by field *)

\* A task that keeps what it was begun with and read of the job.
SameRead(u, s) ==
  /\ u.at = s.at /\ u.job = s.job /\ u.reread = s.reread
  /\ u.since = s.since /\ u.value = s.value
Same(u, s) == SameRead(u, s) /\ u.lines = s.lines

\* Where a handler with task s goes when the lines left of these are to be indexed.
Goes(u, s, lines, left) ==
  /\ SameRead(u, s) /\ u.lines = lines /\ u.fallback = s.fallback
  /\ \/ left = {} /\ u.pc = "decide" /\ u.todo = {} /\ u.overflow = {} /\ u.run = s.run
     \/ \E first \in left :
          /\ u.pc = "zadd" /\ u.todo = left \ {first} /\ u.overflow = {}
          /\ u.run = <<s.job, lines[first].attempt>>

LEMMA ProceedGoes ==
  ASSUME TypeOK, NEW h \in Handler, task[h] \in Task, NEW lines, NEW left, Proceed(h, lines, left)
  PROVE  Goes(task'[h], task[h], lines, left)
<1> DEFINE s == task[h]
<1>1. CASE left = {} /\ task' = [task EXCEPT ![h] = [s EXCEPT !.pc = "decide", !.lines = lines,
                                                         !.todo = {}, !.overflow = {}]]
  BY <1>1 DEF Goes, SameRead, Task, TypeOK, TaskType
<1>2. ASSUME NEW first \in left,
             task' = [task EXCEPT ![h] = [s EXCEPT !.pc = "zadd", !.lines = lines,
                        !.todo = left \ {first}, !.overflow = {},
                        !.run = <<s.job, lines[first].attempt>>]]
      PROVE  Goes(task'[h], s, lines, left)
  BY <1>2 DEF Goes, SameRead, Task, TypeOK, TaskType
<1> QED
  BY <1>1, <1>2 DEF Proceed

LEMMA BeginTo ==
  ASSUME TypeOK, NEW h \in Handler, NEW r, NEW j, NEW again, Begin(h, r, j, again)
  PROVE  /\ task'[h].pc = "getJob" /\ task'[h].at = r /\ task'[h].job = j /\ task'[h].reread = again
         /\ task'[h].value = 0 /\ task'[h].lines = <<>> /\ task'[h].todo = {}
         /\ task'[h].overflow = {} /\ task'[h].fallback = FALSE
  BY DEF Begin, TypeOK, TaskType

LEMMA GetJobTo ==
  ASSUME TypeOK, NEW h \in Handler, GetJob(h)
  PROVE  LET s == task[h]
             u == task'[h]
         IN  \/ u = Idle /\ ~(job[s.job].kept /\ s.job \in AgentJob)
             \/ /\ job[s.job].kept /\ s.job \in AgentJob
                /\ u.pc = "getLogs" /\ u.at = s.at /\ u.job = s.job /\ u.reread = s.reread
                /\ u.since = job[s.job].since /\ u.value = job[s.job].value
                /\ u.lines = s.lines /\ u.todo = s.todo /\ u.overflow = s.overflow
                /\ u.fallback = s.fallback
<1>1. task[h] \in Task
  BY TaskAtStage DEF TypeOK, GetJob, Stages
<1>2. CASE Finish(h) /\ ~(job[task[h].job].kept /\ task[h].job \in AgentJob)
  BY <1>2 DEF Finish, TypeOK, TaskType
<1>3. CASE /\ job[task[h].job].kept /\ task[h].job \in AgentJob
           /\ task' = [task EXCEPT ![h] = [task[h] EXCEPT !.pc = "getLogs",
                         !.value = job[task[h].job].value, !.since = job[task[h].job].since]]
  <2> DEFINE s == task[h]
             hash == job[s.job]
  <2>1. task'[h] = [s EXCEPT !.pc = "getLogs", !.value = hash.value, !.since = hash.since]
    BY <1>3 DEF TypeOK, TaskType
  <2>2. DOMAIN s = {"pc", "at", "job", "reread", "since", "value", "lines", "todo", "run", "overflow",
                    "fallback"}
    BY <1>1 DEF Task
  <2> HIDE DEF hash
  <2>3. LET u == task'[h] IN
          /\ u.pc = "getLogs" /\ u.at = s.at /\ u.job = s.job /\ u.reread = s.reread
          /\ u.since = hash.since /\ u.value = hash.value
          /\ u.lines = s.lines /\ u.todo = s.todo /\ u.overflow = s.overflow
          /\ u.fallback = s.fallback
    BY <2>1, <2>2
  <2> QED
    BY <1>3, <2>3, Zenon DEF hash
<1> QED
  BY <1>2, <1>3 DEF GetJob

LEMMA GetLogsTo ==
  ASSUME TypeOK, NEW h \in Handler, GetLogs(h)
  PROVE  LET lines == log[task[h].job] IN Goes(task'[h], task[h], lines, RunLines(lines))
<1>1. task[h] \in Task
  BY TaskAtStage DEF TypeOK, GetLogs, Stages
<1> QED
  BY <1>1, ProceedGoes DEF GetLogs

LEMMA MultiTo ==
  ASSUME TypeOK, NEW h \in Handler, Multi(h)
  PROVE  Goes(task'[h], task[h], task[h].lines, task[h].todo)
<1>1. task[h] \in Task
  BY TaskAtStage DEF TypeOK, Multi, Stages, Writing
<1> QED
  BY <1>1, ProceedGoes DEF Multi

LEMMA ZaddTo ==
  ASSUME TypeOK, NEW h \in Handler, Zadd(h)
  PROVE  LET s == task[h]
             u == task'[h]
         IN  \/ /\ IsNew(s.run) /\ index' = index \cup {s.run} /\ Count(RunTally(s.run))
                /\ Answered(h, TRUE)
                /\ Same(u, s) /\ u.pc = "zrange" /\ u.todo = s.todo /\ u.run = s.run
                /\ u.overflow = s.overflow /\ u.fallback = s.fallback
             \/ /\ ~IsNew(s.run) /\ UNCHANGED <<index, counted>> /\ Answered(h, s.todo # {})
                /\ Goes(u, s, s.lines, s.todo)
<1>1. task[h] \in Task
  BY TaskAtStage DEF TypeOK, Zadd, Stages, Writing
<1>2. ASSUME task' = [task EXCEPT ![h].pc = "zrange"]
      PROVE  LET s == task[h]
                 u == task'[h]
             IN  /\ Same(u, s) /\ u.pc = "zrange" /\ u.todo = s.todo /\ u.run = s.run
                 /\ u.overflow = s.overflow /\ u.fallback = s.fallback
  BY <1>1, <1>2 DEF Same, SameRead, Task, TypeOK, TaskType
<1>3. Proceed(h, task[h].lines, task[h].todo) => Goes(task'[h], task[h], task[h].lines, task[h].todo)
  BY <1>1, ProceedGoes
<1> QED
  BY <1>2, <1>3, Zenon DEF Zadd

LEMMA ZrangeTo ==
  ASSUME TypeOK, NEW h \in Handler, Zrange(h)
  PROVE  LET s == task[h]
             u == task'[h]
         IN  /\ u.overflow \subseteq index /\ IsOverflow(u.overflow, index)
             /\ Same(u, s) /\ u.pc = "multi" /\ u.todo = s.todo /\ u.run = s.run
             /\ u.fallback = s.fallback
             /\ UNCHANGED <<index, data, counted, broken>> /\ Answered(h, TRUE)
<1>1. task[h] \in Task
  BY TaskAtStage DEF TypeOK, Zrange, Stages, Writing
<1>2. PICK o \in SUBSET index :
        /\ IsOverflow(o, index)
        /\ task' = [task EXCEPT ![h] = [task[h] EXCEPT !.pc = "multi", !.overflow = o]]
  BY DEF Zrange
<1>3. LET s == task[h]
          u == task'[h]
      IN  /\ u.overflow = o /\ Same(u, s) /\ u.pc = "multi" /\ u.todo = s.todo /\ u.run = s.run
          /\ u.fallback = s.fallback
  BY <1>1, <1>2 DEF Same, SameRead, Task, TypeOK, TaskType
<1> QED
  BY <1>2, <1>3 DEF Zrange, redis

LEMMA DecideTo ==
  ASSUME TypeOK, NEW h \in Handler, Decide(h)
  PROVE  LET s == task[h]
             u == task'[h]
         IN  \/ u = Idle /\ UNCHANGED sent
             \/ /\ ~s.fallback /\ ~CurrentSkipped(h) /\ ~ReadAgain(h) /\ FallsBack(h)
                /\ Same(u, s) /\ u.pc = "zadd" /\ u.run = <<s.job, s.value>> /\ u.todo = s.todo
                /\ u.overflow = s.overflow /\ u.fallback = TRUE
                /\ Send(s.at, h) /\ UNCHANGED <<timer, counted>>
<1>1. task[h] \in Task
  BY TaskAtStage DEF TypeOK, Decide, Stages
<1>2. CASE Finish(h) /\ UNCHANGED sent
  BY <1>2 DEF Finish, TypeOK, TaskType
<1>3. CASE /\ ~task[h].fallback /\ ~CurrentSkipped(h) /\ ~ReadAgain(h) /\ FallsBack(h)
           /\ task' = [task EXCEPT ![h] = [task[h] EXCEPT !.pc = "zadd",
                         !.run = <<task[h].job, task[h].value>>, !.fallback = TRUE]]
           /\ Send(task[h].at, h) /\ UNCHANGED <<timer, counted>>
  <2>1. LET s == task[h]
            u == task'[h]
        IN  /\ Same(u, s) /\ u.pc = "zadd" /\ u.run = <<s.job, s.value>> /\ u.todo = s.todo
            /\ u.overflow = s.overflow /\ u.fallback = TRUE
    BY <1>1, <1>3 DEF Same, SameRead, Task, TypeOK, TaskType
  <2> QED
    BY <1>3, <2>1
<1> QED
  BY <1>2, <1>3, Zenon DEF Decide

-----------------------------------------------------------------------------
(* The runs anything knows of have ended, so their finish times are settled *)

HandlerStep(h) ==
  \/ \E r \in Replica, j \in Job : OnEvent(h, r, j) \/ OnTimer(h, r, j)
  \/ GetJob(h) \/ GetLogs(h) \/ Zadd(h) \/ Zrange(h) \/ Multi(h) \/ Decide(h)
  \/ CallFails(h) \/ ReplyLost(h)

LinesKnown(j, lines, e) == \A i \in RunLines(lines) : e[<<j, lines[i].attempt>>] > 0

\* What a job and its log say of its executions, when the runs of finish time e > 0 have ended.
JobKnown(j, hash, lines, e) ==
  /\ \A a \in Attempt : a > hash.attempt \/ (a = hash.attempt /\ hash.state = "active") =>
                          e[<<j, a>>] = 0
  /\ hash.value > 0 => e[<<j, hash.value>>] > 0
  /\ LinesKnown(j, lines, e)

\* What a handler with task s knows.
TaskKnown(s, e) ==
  s # Idle => /\ LinesKnown(s.job, s.lines, e) /\ s.todo \subseteq RunLines(s.lines)
              /\ s.value > 0 => e[<<s.job, s.value>>] > 0
              /\ s.pc \in Writing => e[s.run] > 0
              /\ \A run \in s.overflow : e[run] > 0

RunsInv ==
  /\ \A j \in Job : JobKnown(j, job[j], log[j], ended)
  /\ \A run \in late \cup index : ended[run] > 0
  /\ \A h \in Handler : TaskKnown(task[h], ended)

\* Where a handler goes, it knows what it knew and what the lines tell.
LEMMA GoesKnown ==
  ASSUME NEW u, NEW s, NEW lines, NEW left \in SUBSET RunLines(lines), NEW e,
         Goes(u, s, lines, left), LinesKnown(s.job, lines, e), s.value > 0 => e[<<s.job, s.value>>] > 0
  PROVE  TaskKnown(u, e)
<1>1. u.job = s.job /\ u.lines = lines /\ u.value = s.value /\ u.overflow = {}
  BY DEF Goes, SameRead
<1>2. u.todo \subseteq RunLines(u.lines) /\ (u.pc \in Writing => e[u.run] > 0)
  <2>1. CASE u.pc = "decide" /\ u.todo = {}
    BY <2>1 DEF Writing
  <2>2. ASSUME NEW first \in left, u.todo = left \ {first}, u.run = <<s.job, lines[first].attempt>>
        PROVE  u.todo \subseteq RunLines(u.lines) /\ e[u.run] > 0
    BY <1>1, <2>2 DEF LinesKnown
  <2> QED
    BY <2>1, <2>2 DEF Goes
<1> QED
  BY <1>1, <1>2 DEF TaskKnown

\* A step that settles nothing and indexes only what has ended.
LEMMA HandlerKnown ==
  ASSUME TypeOK, RunsInv, NEW h \in Handler, HandlerStep(h)
  PROVE  RunsInv'
<1>1. \A x \in Handler \ {h} : task'[x] = task[x]
  BY OneHandlerMoves DEF HandlerStep
<1>2. UNCHANGED <<job, log, late, ended>>
  BY DEF HandlerStep, OnEvent, OnTimer, GetJob, GetLogs, Zadd, Zrange, Multi, Decide, CallFails, ReplyLost, worker
<1>3. \A run \in index' \ index : task[h].pc = "zadd" /\ run = task[h].run
  <2>1. CASE Zadd(h) \/ Multi(h) \/ ReplyLost(h)
    BY <2>1 DEF Zadd, Multi, ReplyLost, IndexEntry
  <2>2. UNCHANGED index \/ Zadd(h) \/ Multi(h) \/ ReplyLost(h)
    BY DEF HandlerStep, OnEvent, OnTimer, GetJob, GetLogs, Zrange, Decide, CallFails, redis
  <2> QED
    BY <2>1, <2>2
<1>4. \A run \in index' : ended[run] > 0
  <2>1. task[h].pc = "zadd" => task[h] # Idle
    BY DEF Idle
  <2>2. TaskKnown(task[h], ended)
    BY DEF RunsInv
  <2>3. task[h].pc = "zadd" => ended[task[h].run] > 0
    BY <2>1, <2>2 DEF TaskKnown, Writing
  <2> QED
    BY <1>3, <2>3 DEF RunsInv
<1>5. TaskKnown(task[h], ended)
  BY DEF RunsInv
<1>6. TaskKnown(task'[h], ended)
  <2> DEFINE s == task[h]
             u == task'[h]
  <2>1. ASSUME NEW r \in Replica, NEW j \in Job, OnEvent(h, r, j) \/ OnTimer(h, r, j)
        PROVE  TaskKnown(u, ended)
    <3>1. u.pc = "getJob" /\ u.value = 0 /\ u.lines = <<>> /\ u.todo = {} /\ u.overflow = {}
      BY <2>1, BeginTo DEF OnEvent, OnTimer
    <3> QED
      BY <3>1 DEF TaskKnown, LinesKnown, RunLines, Writing
  <2>2. CASE GetJob(h)
    <3>1. CASE u = Idle
      BY <3>1 DEF TaskKnown
    <3>2. CASE /\ u.pc = "getLogs" /\ u.job = s.job /\ u.value = job[s.job].value
               /\ u.lines = s.lines /\ u.todo = s.todo /\ u.overflow = s.overflow
      <4>1. s # Idle /\ s.job \in Job
        BY <2>2, TaskAtStage DEF TypeOK, GetJob, Stages, Task
      <4>2. job[s.job].value > 0 => ended[<<s.job, job[s.job].value>>] > 0
        BY <4>1 DEF RunsInv, JobKnown
      <4> QED
        BY <1>5, <3>2, <4>1, <4>2 DEF TaskKnown, Writing
    <3> QED
      BY <2>2, <3>1, <3>2, GetJobTo
  <2>3. CASE GetLogs(h)
    <3>1. s # Idle /\ s.job \in Job
      BY <2>3, TaskAtStage DEF TypeOK, GetLogs, Stages, Task
    <3>2. LinesKnown(s.job, log[s.job], ended)
      BY <3>1 DEF RunsInv, JobKnown
    <3>3. Goes(u, s, log[s.job], RunLines(log[s.job]))
      BY <2>3, GetLogsTo
    <3>4. s.value > 0 => ended[<<s.job, s.value>>] > 0
      BY <1>5, <3>1 DEF TaskKnown
    <3> QED
      BY <3>2, <3>3, <3>4, GoesKnown
  <2>4. ASSUME s.pc \in Writing, Goes(u, s, s.lines, s.todo)
        PROVE  TaskKnown(u, ended)
    <3>1. s # Idle
      BY <2>4 DEF Writing, Idle
    <3>2. LinesKnown(s.job, s.lines, ended) /\ s.todo \in SUBSET RunLines(s.lines)
      BY <1>5, <3>1 DEF TaskKnown
    <3>3. s.value > 0 => ended[<<s.job, s.value>>] > 0
      BY <1>5, <3>1 DEF TaskKnown
    <3> QED
      BY <2>4, <3>2, <3>3, GoesKnown
  <2>5. ASSUME s # Idle, Same(u, s), u.todo = s.todo, ended[u.run] > 0,
               \A run \in u.overflow : ended[run] > 0
        PROVE  TaskKnown(u, ended)
    BY <1>5, <2>5 DEF TaskKnown, Same, SameRead
  <2>6. s # Idle => \A run \in s.overflow : ended[run] > 0
    BY <1>5 DEF TaskKnown
  <2>7. s # Idle /\ s.pc \in Writing => ended[s.run] > 0
    BY <1>5 DEF TaskKnown
  <2>8. CASE Zadd(h)
    <3>1. s # Idle /\ s.pc \in Writing
      BY <2>8 DEF Zadd, Idle, Writing
    <3>2. CASE Same(u, s) /\ u.todo = s.todo /\ u.run = s.run /\ u.overflow = s.overflow
      BY <2>5, <2>6, <2>7, <3>1, <3>2
    <3>3. CASE Goes(u, s, s.lines, s.todo)
      BY <2>4, <3>1, <3>3
    <3> QED
      BY <2>8, <3>2, <3>3, ZaddTo
  <2>9. CASE Zrange(h)
    <3>1. s # Idle /\ s.pc \in Writing
      BY <2>9 DEF Zrange, Idle, Writing
    <3>2. Same(u, s) /\ u.todo = s.todo /\ u.run = s.run /\ u.overflow \subseteq index
      BY <2>9, ZrangeTo
    <3> QED
      BY <2>5, <2>7, <3>1, <3>2 DEF RunsInv
  <2>10. CASE Multi(h)
    BY <2>4, <2>10, MultiTo DEF Multi, Writing
  <2>11. CASE Decide(h)
    <3>1. s # Idle
      BY <2>11 DEF Decide, Idle
    <3>2. CASE u = Idle
      BY <3>2 DEF TaskKnown
    <3>3. CASE FallsBack(h) /\ Same(u, s) /\ u.run = <<s.job, s.value>> /\ u.todo = s.todo /\ u.overflow = s.overflow
      <4>1. ended[<<s.job, s.value>>] > 0
        BY <1>5, <3>1, <3>3 DEF TaskKnown, FallsBack
      <4> QED
        BY <2>5, <2>6, <3>1, <3>3, <4>1
    <3> QED
      BY <2>11, <3>2, <3>3, DecideTo
  <2>12. CASE CallFails(h) \/ ReplyLost(h)
    <3>1. u = Idle
      BY <2>12 DEF CallFails, ReplyLost, Finish, TypeOK, TaskType
    <3> QED
      BY <3>1 DEF TaskKnown
  <2> QED
    BY <2>1, <2>2, <2>3, <2>8, <2>9, <2>10, <2>11, <2>12 DEF HandlerStep
<1>7. \A x \in Handler : TaskKnown(task'[x], ended)
  BY <1>1, <1>6 DEF RunsInv
<1> QED
  BY <1>2, <1>4, <1>7 DEF RunsInv

\* An execution ends: only its own run gets a finish time, and it had none.
LEMMA EndKnown ==
  ASSUME TypeOK, RunsInv, NEW j \in Job, NEW record, NEW fate, End(j, record, fate)
  PROVE  /\ <<j, job[j].attempt>> \in Run /\ ended[<<j, job[j].attempt>>] = 0
         /\ \A run \in Run : run # <<j, job[j].attempt>> => ended'[run] = ended[run]
         /\ record \notin {"skip", "nothing"} => ended'[<<j, job[j].attempt>>] > 0
<1>1. job[j].state = "active" /\ job[j].attempt \in Attempt
  BY DEF End, TypeOK, WorkerType
<1>2. ended[<<j, job[j].attempt>>] = 0
  BY <1>1 DEF RunsInv, JobKnown
<1>3. MaxEnded + 1 - budget["ended"] > 0
  BY Bounds DEF TypeOK, PendingType, Budget
<1>4. ended' = [ended EXCEPT ![<<j, job[j].attempt>>] = IF record \notin {"skip", "nothing"}
                                                       THEN MaxEnded + 1 - budget["ended"] ELSE @]
  BY DEF End
<1> QED
  BY <1>1, <1>2, <1>3, <1>4 DEF TypeOK, WorkerType, Run

\* A run that has ended stays ended at that time.
LEMMA EndedStays ==
  ASSUME TypeOK, RunsInv, [Next]_vars
  PROVE  \A run \in Run : ended[run] > 0 => ended'[run] = ended[run]
<1>1. CASE UNCHANGED ended
  BY <1>1
<1>2. ASSUME NEW j \in Job, NEW outcome \in Outcomes, End(j, outcome[1], outcome[2])
      PROVE  \A run \in Run : ended[run] > 0 => ended'[run] = ended[run]
  <2> DEFINE mine == <<j, job[j].attempt>>
  <2>1. ended[mine] = 0 /\ \A run \in Run : run # mine => ended'[run] = ended[run]
    BY <1>2, EndKnown
  <2> HIDE DEF mine
  <2> QED
    BY <2>1
<1>3. UNCHANGED ended \/ \E j \in Job, outcome \in Outcomes : End(j, outcome[1], outcome[2])
  <2>1. Worker => UNCHANGED ended \/ \E j \in Job, outcome \in Outcomes : End(j, outcome[1], outcome[2])
    BY DEF Worker, Start, LateLine, ManualRetry, Redeliver, worker
  <2>2. Monitor => UNCHANGED ended
    BY DEF Monitor, OnEvent, OnTimer, GetJob, GetLogs, Zadd, Zrange, Multi, Decide, worker
  <2>3. Environment => UNCHANGED ended
    BY DEF Environment, CallFails, ReplyLost, Stop, StartCollecting, Crash, ClearIndex, ClearData, worker
  <2>4. UNCHANGED vars => UNCHANGED ended
    BY DEF vars
  <2> QED
    BY <2>1, <2>2, <2>3, <2>4 DEF Next
<1> QED
  BY <1>1, <1>2, <1>3

\* What was known stays so when more runs end.
LEMMA StillKnown ==
  ASSUME NEW e, NEW f, \A run \in Run : e[run] > 0 => f[run] > 0
  PROVE  /\ \A j \in Job, lines \in Seq(Line) : LinesKnown(j, lines, e) => LinesKnown(j, lines, f)
         /\ \A s \in {Idle} \cup Task : (s.pc \in Writing => s.run \in Run) /\ TaskKnown(s, e) => TaskKnown(s, f)
<1>1. ASSUME NEW j \in Job, NEW lines \in Seq(Line), LinesKnown(j, lines, e)
      PROVE  LinesKnown(j, lines, f)
  <2> SUFFICES ASSUME NEW i \in RunLines(lines) PROVE f[<<j, lines[i].attempt>>] > 0
    BY DEF LinesKnown
  <2>1. lines[i] \in Line
    BY DEF RunLines
  <2>2. <<j, lines[i].attempt>> \in Run
    BY <2>1 DEF Line, Run
  <2> QED
    BY <1>1, <2>2 DEF LinesKnown
<1>2. ASSUME NEW s \in Task, s.pc \in Writing => s.run \in Run, TaskKnown(s, e), s # Idle
      PROVE  TaskKnown(s, f)
  <2>1. s.job \in Job /\ s.lines \in Seq(Line) /\ s.value \in 0 .. MaxAttempt /\ s.overflow \subseteq Run
    BY DEF Task
  <2>2. LinesKnown(s.job, s.lines, f) /\ s.todo \subseteq RunLines(s.lines)
    BY <1>1, <1>2, <2>1 DEF TaskKnown
  <2>3. s.value > 0 => f[<<s.job, s.value>>] > 0
    <3>1. s.value > 0 => <<s.job, s.value>> \in Run
      BY <2>1, Bounds DEF Run, Attempt
    <3> QED
      BY <1>2, <3>1 DEF TaskKnown
  <2>4. (s.pc \in Writing => f[s.run] > 0) /\ \A run \in s.overflow : f[run] > 0
    BY <1>2, <2>1 DEF TaskKnown
  <2> QED
    BY <2>2, <2>3, <2>4 DEF TaskKnown
<1> QED
  BY <1>1, <1>2 DEF TaskKnown

\* A job that is started has no run of its new execution yet.
LEMMA StartKnown ==
  ASSUME TypeOK, RunsInv, NEW j \in Job, Start(j)
  PROVE  \A k \in Job : JobKnown(k, job'[k], log'[k], ended')
<1>1. UNCHANGED <<log, ended>> /\ \A k \in Job : k # j => job'[k] = job[k]
  BY DEF Start, TypeOK, WorkerType
<1>2. /\ job'[j].state = "active" /\ job'[j].attempt = job[j].attempt + 1 /\ job'[j].value = 0
  BY DEF Start, TypeOK, WorkerType, JobHash
<1>3. job[j].attempt \in Nat
  BY Bounds DEF TypeOK, WorkerType, JobHash
<1>4. JobKnown(j, job'[j], log[j], ended)
  <2>1. ASSUME NEW a \in Attempt, a > job'[j].attempt \/ a = job'[j].attempt
        PROVE  ended[<<j, a>>] = 0
    <3>1. a > job[j].attempt
      BY <1>2, <1>3, <2>1 DEF Attempt
    <3> QED
      BY <3>1 DEF RunsInv, JobKnown
  <2>2. LinesKnown(j, log[j], ended)
    BY DEF RunsInv, JobKnown
  <2> QED
    BY <1>2, <2>1, <2>2 DEF JobKnown
<1> QED
  BY <1>1, <1>4 DEF RunsInv

\* The lines and the value of an execution that ends are those of its run.
LEMMA EndsKnown ==
  ASSUME TypeOK, RunsInv, NEW j \in Job, NEW record, NEW fate, End(j, record, fate)
  PROVE  RunsInv'
<1> DEFINE run == <<j, job[j].attempt>>
           line(kind) == [kind |-> kind, attempt |-> run[2]]
           lines == CASE record = "run"  -> <<line("run")>>
                      [] record = "skip" -> <<line("skip")>>
                      [] record = "both" -> <<line("skip"), line("run")>>
                      [] OTHER           -> <<>>
<1>1. run \in Run /\ ended[run] = 0
  BY EndKnown
<1>2. \A x \in Run : x # run => ended'[x] = ended[x]
  BY EndKnown
<1>3. record \notin {"skip", "nothing"} => ended'[run] > 0
  BY EndKnown
<1>4. \A x \in Run : ended[x] > 0 => ended'[x] = ended[x]
  BY <1>1, <1>2
<1>5. \A x \in Run : ended[x] > 0 => ended'[x] > 0
  BY <1>4
<1>6. job[j].attempt \in Attempt /\ job[j].state = "active"
  BY DEF End, TypeOK, WorkerType
<1>7. ASSUME NEW k \in Job, k # j
      PROVE  JobKnown(k, job'[k], log'[k], ended')
  <2>1. job'[k] = job[k] /\ log'[k] = log[k]
    BY <1>7 DEF End, TypeOK, WorkerType
  <2>2. JobKnown(k, job[k], log[k], ended) /\ log[k] \in Seq(Line) /\ job[k].value \in 0 .. MaxAttempt
    BY DEF RunsInv, TypeOK, WorkerType, JobHash
  <2>3. \A a \in Attempt : <<k, a>> \in Run /\ ended'[<<k, a>>] = ended[<<k, a>>]
    BY <1>2, <1>7 DEF Run
  <2>4. LinesKnown(k, log[k], ended')
    BY <1>5, <2>2, StillKnown DEF JobKnown
  <2>5. job[k].value > 0 => job[k].value \in Attempt
    BY <2>2, Bounds DEF Attempt
  <2> QED
    BY <2>1, <2>2, <2>3, <2>4, <2>5 DEF JobKnown
<1>8. JobKnown(j, job'[j], log'[j], ended')
  <2>1. /\ job'[j].attempt = job[j].attempt /\ job'[j].state # "active"
        /\ job'[j].value = IF record = "value" THEN job[j].attempt ELSE 0
    BY DEF End, TypeOK, WorkerType, JobHash
  <2>2. ASSUME NEW a \in Attempt, a > job[j].attempt
        PROVE  ended'[<<j, a>>] = 0
    <3>1. <<j, a>> \in Run /\ <<j, a>> # run
      BY <1>6, <2>2 DEF Run, Attempt
    <3>2. ended[<<j, a>>] = 0
      BY <2>2 DEF RunsInv, JobKnown
    <3> QED
      BY <1>2, <3>1, <3>2
  <2>3. job'[j].value > 0 => ended'[<<j, job'[j].value>>] > 0
    BY <1>3, <2>1
  <2>4. LinesKnown(j, log'[j], ended')
    <3>1. log'[j] = IF fate = "removed" THEN <<>> ELSE log[j] \o lines
      BY DEF End, TypeOK, WorkerType
    <3>2. log[j] \in Seq(Line) /\ LinesKnown(j, log[j], ended')
      BY <1>5, StillKnown DEF RunsInv, JobKnown, TypeOK, WorkerType
    <3>3. \A i \in 1 .. Len(lines) : /\ lines[i].attempt = job[j].attempt
                                     /\ lines[i].kind = "run" => record \notin {"skip", "nothing"}
      OBVIOUS
    <3>4. lines \in Seq(Line)
      <4>1. line("run") \in Line /\ line("skip") \in Line
        BY <1>6 DEF Line
      <4> HIDE DEF line
      <4> QED
        BY <4>1
    <3> HIDE DEF lines
    <3>5. ASSUME NEW i \in 1 .. Len(log[j] \o lines), (log[j] \o lines)[i].kind = "run"
          PROVE  ended'[<<j, (log[j] \o lines)[i].attempt>>] > 0
      <4>1. CASE i <= Len(log[j])
        <5>1. (log[j] \o lines)[i] = log[j][i] /\ i \in RunLines(log[j])
          BY <3>2, <3>4, <3>5, <4>1 DEF RunLines
        <5> QED
          BY <3>2, <5>1 DEF LinesKnown
      <4>2. CASE ~(i <= Len(log[j]))
        <5>1. PICK k \in 1 .. Len(lines) : (log[j] \o lines)[i] = lines[k]
          BY <3>2, <3>4, <3>5, <4>2
        <5> QED
          BY <1>3, <3>3, <3>5, <5>1
      <4> QED
        BY <4>1, <4>2
    <3>6. DOMAIN (log[j] \o lines) = 1 .. Len(log[j] \o lines)
      BY <3>2, <3>4
    <3>7. LinesKnown(j, log[j] \o lines, ended')
      BY <3>5, <3>6 DEF LinesKnown, RunLines
    <3>8. LinesKnown(j, <<>>, ended')
      BY DEF LinesKnown, RunLines
    <3> QED
      BY <3>1, <3>7, <3>8
  <2> QED
    BY <2>1, <2>2, <2>3, <2>4 DEF JobKnown
<1>9. \A x \in late' \cup index' : ended'[x] > 0
  <2>1. late' \subseteq late \cup (IF record = "late" THEN {run} ELSE {}) /\ index' = index
    BY DEF End, redis
  <2>2. late \cup index \subseteq Run
    BY DEF TypeOK, WorkerType, IndexType
  <2>3. \A x \in late \cup index : ended[x] > 0
    BY DEF RunsInv
  <2> QED
    BY <1>3, <1>5, <2>1, <2>2, <2>3
<1>10. \A x \in Handler : TaskKnown(task'[x], ended')
  <2>1. UNCHANGED task
    BY DEF End
  <2>2. \A x \in Handler : task[x] \in {Idle} \cup Task /\ (task[x].pc \in Writing => task[x].run \in Run)
    BY DEF TypeOK, TaskType, Writing
  <2>3. \A x \in Handler : TaskKnown(task[x], ended)
    BY DEF RunsInv
  <2> QED
    BY <1>5, <2>1, <2>2, <2>3, StillKnown
<1> QED
  BY <1>7, <1>8, <1>9, <1>10 DEF RunsInv

LEMMA KeepsRunsInv == TypeOK /\ RunsInv /\ [Next]_vars => RunsInv'
<1> SUFFICES ASSUME TypeOK, RunsInv, [Next]_vars PROVE RunsInv'
  OBVIOUS
<1>1. ASSUME UNCHANGED <<late, ended, task>>, index' \subseteq index,
             \A j \in Job : JobKnown(j, job'[j], log'[j], ended')
      PROVE  RunsInv'
  BY <1>1 DEF RunsInv
<1>2. ASSUME UNCHANGED <<job, log>>
      PROVE  \A j \in Job : JobKnown(j, job'[j], log'[j], ended)
  BY <1>2 DEF RunsInv
<1>3. CASE Worker
  <2>1. ASSUME NEW j \in Job, Start(j) PROVE RunsInv'
    <3>1. UNCHANGED <<late, ended, task, index>>
      BY <2>1 DEF Start, redis
    <3> QED
      BY <1>1, <2>1, <3>1, StartKnown
  <2>2. ASSUME NEW j \in Job, NEW outcome \in Outcomes, End(j, outcome[1], outcome[2]) PROVE RunsInv'
    BY <2>2, EndsKnown
  <2>3. ASSUME NEW run \in Run, LateLine(run) PROVE RunsInv'
    <3>1. UNCHANGED <<job, late, ended, task, index>> /\ ended[run] > 0
      BY <2>3 DEF LateLine, redis, RunsInv
    <3>2. PICK j \in Job, a \in Attempt : run = <<j, a>>
      BY DEF Run
    <3> DEFINE line == [kind |-> "run", attempt |-> a]
    <3>3. log[j] \in Seq(Line) /\ log' = [log EXCEPT ![j] = Append(log[j], line)] /\ log \in [Job -> Seq(Line)]
      BY <2>3, <3>2 DEF LateLine, TypeOK, WorkerType
    <3>4. ASSUME NEW k \in Job PROVE JobKnown(k, job'[k], log'[k], ended')
      <4>1. JobKnown(k, job[k], log[k], ended)
        BY DEF RunsInv
      <4>2. CASE k # j
        <5>1. log'[k] = log[k]
          BY <3>3, <4>2
        <5> QED
          BY <3>1, <4>1, <5>1
      <4>3. CASE k = j
        <5>1. log'[j] = Append(log[j], line) /\ line.attempt = a
          BY <3>3
        <5> HIDE DEF line
        <5>2. \A i \in DOMAIN Append(log[j], line) : IF i \in DOMAIN log[j] THEN Append(log[j], line)[i] = log[j][i]
                                                   ELSE Append(log[j], line)[i] = line
          BY <3>3
        <5>3. LinesKnown(j, Append(log[j], line), ended)
          BY <3>1, <3>2, <4>1, <4>3, <5>1, <5>2 DEF JobKnown, LinesKnown, RunLines
        <5> QED
          BY <3>1, <4>1, <4>3, <5>1, <5>3 DEF JobKnown
      <4> QED
        BY <4>2, <4>3
    <3> QED
      BY <1>1, <3>1, <3>4
  <2>4. ASSUME NEW j \in Job, ManualRetry(j) PROVE RunsInv'
    <3>1. UNCHANGED <<log, late, ended, task, index>>
      BY <2>4 DEF ManualRetry, redis
    <3>2. ASSUME NEW k \in Job PROVE JobKnown(k, job'[k], log'[k], ended')
      <4>1. JobKnown(k, job[k], log[k], ended)
        BY DEF RunsInv
      <4>2. job'[k].attempt = job[k].attempt /\ job'[k].value = job[k].value
            /\ (job'[k].state = "active" => job[k].state = "active")
        BY <2>4 DEF ManualRetry, TypeOK, WorkerType, JobHash
      <4> QED
        BY <3>1, <4>1, <4>2 DEF JobKnown
    <3> QED
      BY <1>1, <3>1, <3>2
  <2>5. ASSUME NEW r \in Replica, NEW j \in Job, Redeliver(r, j) PROVE RunsInv'
    BY <1>1, <1>2, <2>5 DEF Redeliver, worker, redis
  <2> QED
    BY <1>3, <2>1, <2>2, <2>3, <2>4, <2>5 DEF Worker
<1>4. CASE Monitor \/ \E h \in Handler : CallFails(h) \/ ReplyLost(h)
  BY <1>4, HandlerKnown DEF Monitor, HandlerStep
<1>5. ASSUME NEW r \in Replica, Stop(r) \/ StartCollecting(r) PROVE RunsInv'
  BY <1>1, <1>2, <1>5 DEF Stop, StartCollecting, worker, redis
<1>6. ASSUME NEW r \in Replica, Crash(r) PROVE RunsInv'
  <2>1. UNCHANGED <<job, log, late, ended, index>>
    BY <1>6 DEF Crash, worker, redis
  <2>2. \A x \in Handler : task'[x] = Idle \/ task'[x] = task[x]
    BY <1>6 DEF Crash
  <2>3. \A x \in Handler : TaskKnown(task'[x], ended)
    BY <2>2 DEF RunsInv, TaskKnown
  <2> QED
    BY <2>1, <2>3 DEF RunsInv
<1>7. CASE ClearIndex \/ ClearData
  BY <1>1, <1>2, <1>7 DEF ClearIndex, ClearData, worker
<1>8. CASE UNCHANGED vars
  BY <1>1, <1>2, <1>8 DEF vars
<1> QED
  BY <1>3, <1>4, <1>5, <1>6, <1>7, <1>8 DEF Next, Environment

LEMMA RunsKnown == Spec => []RunsInv
<1>1. Init => RunsInv
  <2> SUFFICES ASSUME Init PROVE RunsInv
    OBVIOUS
  <2>1. \A j \in Job, a \in Attempt : ended[<<j, a>>] = 0
    BY DEF Init, Run
  <2>2. \A j \in Job : log[j] = <<>> /\ job[j].value = 0
    BY DEF Init
  <2>3. \A j \in Job : JobKnown(j, job[j], log[j], ended)
    BY <2>1, <2>2 DEF JobKnown, LinesKnown, RunLines
  <2> QED
    BY <2>3 DEF Init, RunsInv, TaskKnown
<1> QED
  BY <1>1, KeepsRunsInv, TypeCorrect, PTL DEF Spec

-----------------------------------------------------------------------------
(* The handlers that wait for a reply on the connection of their replica *)

In(h, q) == \E i \in DOMAIN q : q[i] = h
NoneTwice(q) == \A i, k \in DOMAIN q : q[i] = q[k] => i = k

\* The reply of g, if it waits for one, comes after that of h.
Before(h, g, q) == \A i \in DOMAIN q : q[i] = g => \E k \in DOMAIN q : k < i /\ q[k] = h

QueueInv ==
  \A r \in Replica : /\ NoneTwice(sent[r])
                     /\ \A h \in Handler : In(h, sent[r]) <=> task[h].pc \in Writing /\ task[h].at = r

LEMMA Sends ==
  ASSUME NEW q \in Seq(Handler), NoneTwice(q), NEW h \in Handler, ~In(h, q)
  PROVE  LET p == Append(q, h) IN
         /\ NoneTwice(p) /\ In(h, p)
         /\ \A x \in Handler \ {h} : In(x, p) <=> In(x, q)
         /\ \A x \in Handler, g \in Handler \ {h} : Before(x, g, q) => Before(x, g, p)
         /\ \A x \in Handler : In(x, q) => Before(x, h, p)
<1> DEFINE p == Append(q, h)
<1>1. /\ Len(q) \in Nat /\ DOMAIN q = 1 .. Len(q) /\ DOMAIN p = 1 .. Len(q) + 1
      /\ \A i \in 1 .. Len(q) : p[i] = q[i]
      /\ p[Len(q) + 1] = h
  OBVIOUS
<1> HIDE DEF p
<1>2. NoneTwice(p) /\ In(h, p)
  BY <1>1 DEF NoneTwice, In
<1>3. \A x \in Handler \ {h} : In(x, p) <=> In(x, q)
  BY <1>1 DEF In
<1>4. ASSUME NEW x \in Handler, NEW g \in Handler \ {h}, Before(x, g, q)
      PROVE  Before(x, g, p)
  BY <1>1, <1>4 DEF Before
<1>5. ASSUME NEW x \in Handler, In(x, q)
      PROVE  Before(x, h, p)
  BY <1>1, <1>5 DEF Before, In
<1> QED
  BY <1>2, <1>3, <1>4, <1>5 DEF p

LEMMA Replies ==
  ASSUME NEW q \in Seq(Handler), NoneTwice(q), q # <<>>
  PROVE  LET p == Tail(q)
             h == Head(q)
         IN
         /\ p \in Seq(Handler) /\ h \in Handler /\ NoneTwice(p) /\ In(h, q) /\ ~In(h, p)
         /\ \A x \in Handler \ {h} : In(x, p) <=> In(x, q)
         /\ \A x, g \in Handler \ {h} : Before(x, g, q) => Before(x, g, p)
         /\ \A x \in Handler : ~Before(x, h, q)
<1> DEFINE p == Tail(q)
           h == Head(q)
<1>1. /\ Len(q) \in Nat /\ Len(q) > 0 /\ DOMAIN q = 1 .. Len(q) /\ DOMAIN p = 1 .. Len(q) - 1
      /\ \A i \in 1 .. Len(q) - 1 : p[i] = q[i + 1]
      /\ h = q[1] /\ h \in Handler /\ p \in Seq(Handler)
  OBVIOUS
<1> HIDE DEF p, h
<1>2. NoneTwice(p) /\ In(h, q) /\ ~In(h, p)
  <2>1. \A i \in DOMAIN p : i + 1 \in DOMAIN q /\ p[i] = q[i + 1]
    BY <1>1
  <2>2. NoneTwice(p)
    <3> SUFFICES ASSUME NEW i \in DOMAIN p, NEW k \in DOMAIN p, p[i] = p[k] PROVE i = k
      BY DEF NoneTwice
    <3>1. i + 1 = k + 1 /\ i \in Nat /\ k \in Nat
      BY <1>1, <2>1 DEF NoneTwice
    <3> QED
      BY <3>1
  <2>3. 1 \in DOMAIN q /\ q[1] = h
    BY <1>1
  <2>4. ASSUME NEW i \in DOMAIN p PROVE p[i] # h
    <3>1. i + 1 # 1 /\ i \in Nat
      BY <1>1
    <3> QED
      BY <2>1, <2>3, <3>1 DEF NoneTwice
  <2> QED
    BY <2>2, <2>3, <2>4 DEF In
<1>3. ASSUME NEW x \in Handler \ {h}
      PROVE  In(x, p) <=> In(x, q)
  <2>1. ASSUME NEW i \in DOMAIN q, q[i] = x
        PROVE  i - 1 \in DOMAIN p /\ p[i - 1] = x
    BY <1>1, <2>1
  <2>2. ASSUME NEW i \in DOMAIN p, p[i] = x
        PROVE  i + 1 \in DOMAIN q /\ q[i + 1] = x
    BY <1>1, <2>2
  <2> QED
    BY <2>1, <2>2 DEF In
<1>4. ASSUME NEW x \in Handler \ {h}, NEW g \in Handler \ {h}, Before(x, g, q),
             NEW i \in DOMAIN p, p[i] = g
      PROVE  \E k \in DOMAIN p : k < i /\ p[k] = x
  <2>1. i + 1 \in DOMAIN q /\ q[i + 1] = g
    BY <1>1, <1>4
  <2>2. PICK k \in DOMAIN q : k < i + 1 /\ q[k] = x
    BY <1>4, <2>1 DEF Before
  <2>3. k - 1 \in DOMAIN p /\ k - 1 < i /\ p[k - 1] = x
    BY <1>1, <1>4, <2>2
  <2> QED
    BY <2>3
<1>5. \A x \in Handler : ~Before(x, h, q)
  BY <1>1 DEF Before
<1> QED
  BY <1>1, <1>2, <1>3, <1>4, <1>5 DEF Before, p, h

\* How a step of a handler shows on the connection: it sends its first command, is answered and
\* sends the next one or none, or does neither.
Sending(h) ==
  \/ task[h].pc \notin Writing /\ task'[h].pc \notin Writing /\ UNCHANGED sent
  \/ task[h].pc \notin Writing /\ task'[h].pc \in Writing /\ Send(task'[h].at, h)
  \/ task[h].pc \in Writing /\ task'[h].pc \notin Writing /\ Answered(h, FALSE)
  \/ /\ task[h].pc \in Writing /\ task'[h].pc \in Writing /\ task'[h].at = task[h].at
     /\ Answered(h, TRUE)

LEMMA HandlerSends ==
  ASSUME TypeOK, NEW h \in Handler, HandlerStep(h)
  PROVE  Sending(h)
<1> DEFINE s == task[h]
           u == task'[h]
<1>1. Idle.pc \notin Writing
  BY DEF Idle, Writing
<1>2. Answered(h, FALSE) <=> Answered(h, {} # {})
  BY DEF Answered
<1>3. ASSUME NEW lines, NEW left, Goes(u, s, lines, left)
      PROVE  u.at = s.at /\ (u.pc \in Writing <=> left # {})
  BY <1>3 DEF Goes, SameRead, Writing
<1>4. ASSUME NEW r \in Replica, NEW j \in Job, OnEvent(h, r, j) \/ OnTimer(h, r, j)
      PROVE  Sending(h)
  <2>1. s.pc \notin Writing /\ u.pc \notin Writing
    BY <1>1, <1>4, BeginTo DEF OnEvent, OnTimer, Writing
  <2> QED
    BY <1>4, <2>1 DEF OnEvent, OnTimer, Sending
<1>5. CASE GetJob(h)
  <2>1. s.pc \notin Writing /\ u.pc \notin Writing
    <3>1. u = Idle \/ u.pc = "getLogs"
      BY <1>5, GetJobTo
    <3> QED
      BY <1>1, <1>5, <3>1 DEF GetJob, Writing
  <2> QED
    BY <1>5, <2>1 DEF GetJob, Sending
<1>6. CASE GetLogs(h)
  <2>1. u.at = s.at /\ (u.pc \in Writing <=> RunLines(log[s.job]) # {})
    BY <1>3, <1>6, GetLogsTo
  <2>2. s.pc \notin Writing
    BY <1>6 DEF GetLogs, Writing
  <2> QED
    BY <1>6, <2>1, <2>2 DEF GetLogs, Sending
<1>7. ASSUME s.pc \in Writing, Answered(h, s.todo # {}), Goes(u, s, s.lines, s.todo)
      PROVE  Sending(h)
  <2>1. u.at = s.at /\ (u.pc \in Writing <=> s.todo # {})
    BY <1>3, <1>7
  <2>2. CASE s.todo = {}
    <3>1. Answered(h, FALSE)
      BY <1>2, <1>7, <2>2
    <3> QED
      BY <1>7, <2>1, <2>2, <3>1 DEF Sending
  <2>3. CASE s.todo # {}
    <3>1. Answered(h, TRUE)
      BY <1>7, <2>3 DEF Answered
    <3> QED
      BY <1>7, <2>1, <2>3, <3>1 DEF Sending
  <2> QED
    BY <2>2, <2>3
<1>8. CASE Zadd(h)
  <2>1. s.pc \in Writing
    BY <1>8 DEF Zadd, Writing
  <2>2. CASE Answered(h, TRUE) /\ Same(u, s) /\ u.pc = "zrange"
    BY <2>1, <2>2 DEF Sending, Same, SameRead, Writing
  <2>3. CASE Answered(h, s.todo # {}) /\ Goes(u, s, s.lines, s.todo)
    BY <1>7, <2>1, <2>3
  <2> QED
    BY <1>8, <2>2, <2>3, ZaddTo
<1>9. CASE Zrange(h)
  <2>1. s.pc \in Writing /\ Same(u, s) /\ u.pc = "multi" /\ Answered(h, TRUE)
    BY <1>9, ZrangeTo DEF Zrange, Writing
  <2> QED
    BY <2>1 DEF Sending, Same, SameRead, Writing
<1>10. CASE Multi(h)
  BY <1>7, <1>10, MultiTo DEF Multi, Writing
<1>11. CASE Decide(h)
  <2>1. s.pc \notin Writing
    BY <1>11 DEF Decide, Writing
  <2>2. CASE u = Idle /\ UNCHANGED sent
    BY <1>1, <2>1, <2>2 DEF Sending
  <2>3. CASE Same(u, s) /\ u.pc = "zadd" /\ Send(s.at, h)
    BY <2>1, <2>3 DEF Sending, Same, SameRead, Writing
  <2> QED
    BY <1>11, <2>2, <2>3, DecideTo
<1>12. CASE CallFails(h)
  <2>1. u.pc \notin Writing
    BY <1>1, <1>12 DEF CallFails, Finish, TypeOK, TaskType
  <2>2. s \in Task
    BY <1>12 DEF CallFails, TypeOK, TaskType
  <2>3. (s.pc \in {"getJob", "getLogs"} /\ s.pc \notin Writing) \/ s.pc \in Writing
    BY <1>12, <2>2 DEF CallFails, Task, Writing
  <2> QED
    BY <1>12, <2>1, <2>3 DEF CallFails, Sending, Writing
<1>13. CASE ReplyLost(h)
  <2>1. u.pc \notin Writing
    BY <1>1, <1>13 DEF ReplyLost, Finish, TypeOK, TaskType
  <2> QED
    BY <1>13, <2>1 DEF ReplyLost, Sending, Writing
<1> QED
  BY <1>4, <1>5, <1>6, <1>8, <1>9, <1>10, <1>11, <1>12, <1>13 DEF HandlerStep

\* What the others see of it: whoever had to wait for one of them still does.
LEMMA OthersWait ==
  ASSUME TypeOK, QueueInv, NEW h \in Handler, HandlerStep(h)
  PROVE  /\ QueueInv'
         /\ \A r \in Replica, x, g \in Handler \ {h} : Before(x, g, sent[r]) => Before(x, g, sent'[r])
<1> DEFINE s == task[h]
           u == task'[h]
<1>1. \A x \in Handler \ {h} : task'[x] = task[x]
  BY OneHandlerMoves DEF HandlerStep
<1>2. sent \in [Replica -> Seq(Handler)]
  BY DEF TypeOK, SentType
<1>3. \A x \in Handler : task[x].pc \in Writing => task[x].at \in Replica
  BY DEF TypeOK, TaskType, Task, Idle, Writing
<1>4. u.pc \in Writing => u.at \in Replica
  <2>1. TaskType'
    BY MonitorKeepsType, EnvironmentKeepsType DEF TypeOK, HandlerStep, Monitor, Environment
  <2> QED
    BY <2>1 DEF TaskType, Task, Idle, Writing
<1>5. SUFFICES ASSUME NEW r \in Replica
               PROVE  /\ NoneTwice(sent'[r])
                      /\ \A x \in Handler : In(x, sent'[r]) <=> task'[x].pc \in Writing /\ task'[x].at = r
                      /\ \A x, g \in Handler \ {h} : Before(x, g, sent[r]) => Before(x, g, sent'[r])
  BY DEF QueueInv
<1> DEFINE q == sent[r]
           p == sent'[r]
<1>6. q \in Seq(Handler) /\ NoneTwice(q)
  BY <1>2 DEF QueueInv
<1>7. \A x \in Handler : In(x, q) <=> task[x].pc \in Writing /\ task[x].at = r
  BY DEF QueueInv
<1>8. SUFFICES /\ NoneTwice(p) /\ (In(h, p) <=> u.pc \in Writing /\ u.at = r)
               /\ \A x \in Handler \ {h} : In(x, p) <=> In(x, q)
               /\ \A x, g \in Handler \ {h} : Before(x, g, q) => Before(x, g, p)
  BY <1>1, <1>7
<1>9. CASE s.pc \notin Writing /\ u.pc \notin Writing /\ UNCHANGED sent
  BY <1>6, <1>7, <1>9
<1>10. CASE s.pc \notin Writing /\ u.pc \in Writing /\ Send(u.at, h)
  <2>1. CASE u.at = r
    <3>1. p = Append(q, h)
      BY <1>2, <1>10, <2>1 DEF Send
    <3>2. ~In(h, q)
      BY <1>7, <1>10
    <3> HIDE DEF p, q
    <3> QED
      BY <1>6, <1>10, <2>1, <3>1, <3>2, Sends
  <2>2. CASE u.at # r
    <3>1. p = q
      BY <1>2, <1>10, <2>2 DEF Send
    <3> QED
      BY <1>6, <1>7, <1>10, <2>2, <3>1
  <2> QED
    BY <2>1, <2>2
<1>11. ASSUME s.pc \in Writing, NEW again \in BOOLEAN, Answered(h, again), u.pc \in Writing <=> again,
              again => u.at = s.at
       PROVE  /\ NoneTwice(p) /\ (In(h, p) <=> u.pc \in Writing /\ u.at = r)
              /\ \A x \in Handler \ {h} : In(x, p) <=> In(x, q)
              /\ \A x, g \in Handler \ {h} : Before(x, g, q) => Before(x, g, p)
  <2>1. CASE s.at = r
    <3>1. q # <<>> /\ Head(q) = h /\ p = IF again THEN Append(Tail(q), h) ELSE Tail(q)
      BY <1>2, <1>11, <2>1 DEF Answered
    <3> HIDE DEF p, q
    <3>2. /\ Tail(q) \in Seq(Handler) /\ NoneTwice(Tail(q)) /\ ~In(h, Tail(q))
          /\ \A x \in Handler \ {h} : In(x, Tail(q)) <=> In(x, q)
          /\ \A x, g \in Handler \ {h} : Before(x, g, q) => Before(x, g, Tail(q))
      BY <1>6, <3>1, Replies
    <3>3. LET a == Append(Tail(q), h) IN
          /\ NoneTwice(a) /\ In(h, a)
          /\ \A x \in Handler \ {h} : In(x, a) <=> In(x, Tail(q))
          /\ \A x \in Handler, g \in Handler \ {h} : Before(x, g, Tail(q)) => Before(x, g, a)
      BY <3>2, Sends
    <3> QED
      BY <1>11, <2>1, <3>1, <3>2, <3>3
  <2>2. CASE s.at # r
    <3>1. p = q
      BY <1>2, <1>11, <2>2 DEF Answered
    <3> QED
      BY <1>6, <1>7, <1>11, <2>2, <3>1
  <2> QED
    BY <2>1, <2>2
<1> QED
  BY <1>9, <1>10, <1>11, HandlerSends DEF Sending

LEMMA KeepsQueueInv == TypeOK /\ QueueInv /\ [Next]_vars => QueueInv'
<1> SUFFICES ASSUME TypeOK, QueueInv, [Next]_vars PROVE QueueInv'
  OBVIOUS
<1>1. CASE UNCHANGED <<task, sent>>
  BY <1>1 DEF QueueInv
<1>2. CASE Worker
  BY <1>1, <1>2 DEF Worker, Start, End, LateLine, ManualRetry, Redeliver
<1>3. CASE Monitor \/ \E h \in Handler : CallFails(h) \/ ReplyLost(h)
  BY <1>3, OthersWait DEF Monitor, HandlerStep
<1>4. ASSUME NEW r \in Replica, Stop(r) \/ StartCollecting(r) PROVE QueueInv'
  BY <1>1, <1>4 DEF Stop, StartCollecting
<1>5. ASSUME NEW r \in Replica, Crash(r) PROVE QueueInv'
  <2>1. sent' = [sent EXCEPT ![r] = <<>>] /\ sent \in [Replica -> Seq(Handler)]
    BY <1>5 DEF Crash, TypeOK, SentType
  <2>2. \A h \in Handler : task'[h] = IF task[h] # Idle /\ task[h].at = r THEN Idle ELSE task[h]
    BY <1>5 DEF Crash
  <2>3. \A h \in Handler : task[h].pc \in Writing => task[h] # Idle
    BY DEF Idle, Writing
  <2>4. Idle.pc \notin Writing
    BY DEF Idle, Writing
  <2>5. ASSUME NEW k \in Replica, NEW h \in Handler
        PROVE  In(h, sent'[k]) <=> task'[h].pc \in Writing /\ task'[h].at = k
    <3>1. CASE k = r
      <4>1. sent'[k] = <<>>
        BY <2>1, <3>1
      <4>2. ~In(h, <<>>)
        BY DEF In
      <4> QED
        BY <2>2, <2>3, <2>4, <3>1, <4>1, <4>2
    <3>2. CASE k # r
      <4>1. sent'[k] = sent[k]
        BY <2>1, <3>2
      <4> QED
        BY <2>2, <2>3, <2>4, <3>2, <4>1 DEF QueueInv
    <3> QED
      BY <3>1, <3>2
  <2>6. NoneTwice(<<>>)
    BY DEF NoneTwice
  <2> QED
    BY <2>1, <2>5, <2>6 DEF QueueInv
<1>6. CASE ClearIndex \/ ClearData
  BY <1>1, <1>6 DEF ClearIndex, ClearData
<1>7. CASE UNCHANGED vars
  BY <1>1, <1>7 DEF vars
<1> QED
  BY <1>2, <1>3, <1>4, <1>5, <1>6, <1>7 DEF Next, Environment

LEMMA QueuesHold == Spec => []QueueInv
<1>1. Init => QueueInv
  BY DEF Init, QueueInv, NoneTwice, In, Idle, Writing
<1> QED
  BY <1>1, KeepsQueueInv, TypeCorrect, PTL DEF Spec

-----------------------------------------------------------------------------
(* What is evicted is old, whatever was evicted meanwhile *)

Newer(run, members, e) == {b \in members : e[run] < e[b]}
OldEnough(run, members, e) == Cardinality(Newer(run, members, e)) >= Cap

LEMMA MoreMembersAge ==
  ASSUME NEW members, NEW more, IsFiniteSet(more), members \subseteq more, NEW run, NEW e,
         OldEnough(run, members, e)
  PROVE  OldEnough(run, more, e)
<1> DEFINE a == Newer(run, members, e)
           b == Newer(run, more, e)
<1>1. a \subseteq b /\ b \subseteq more
  BY DEF Newer
<1> HIDE DEF a, b
<1>2. IsFiniteSet(b)
  BY <1>1, FS_Subset
<1>3. Cardinality(a) \in Nat /\ Cardinality(b) \in Nat /\ Cardinality(a) <= Cardinality(b)
  BY <1>1, <1>2, FS_Subset, FS_CardinalityType
<1>4. Cardinality(a) >= Cap
  BY DEF a, OldEnough
<1>5. Cardinality(b) >= Cap
  BY <1>3, <1>4, CapIsNat
<1> QED
  BY <1>5 DEF b, OldEnough

\* Runs that are all old enough leave: what was old enough still is.  The newest of those that
\* leave has enough newer runs, which stay.
LEMMA EvictionKeepsAge ==
  ASSUME NEW members \in SUBSET Run, IsFiniteSet(members), NEW e \in [Run -> 0 .. MaxEnded],
         NEW gone, \A y \in gone : OldEnough(y, members, e), NEW run \in Run, OldEnough(run, members, e)
  PROVE  OldEnough(run, members \ gone, e)
<1> DEFINE leave == Newer(run, members, e) \cap gone
<1>1. CASE leave = {}
  <2>1. Newer(run, members \ gone, e) = Newer(run, members, e)
    BY <1>1 DEF Newer
  <2> QED
    BY <2>1 DEF OldEnough
<1>2. CASE leave # {}
  <2>1. leave \subseteq Run
    BY DEF Newer
  <2> DEFINE S == {MaxEnded - e[y] : y \in leave}
  <2>2. S \subseteq Nat /\ S # {}
    <3>1. \A y \in Run : e[y] \in Nat /\ e[y] <= MaxEnded
      OBVIOUS
    <3>2. \A y \in Run : MaxEnded - e[y] \in Nat
      BY <3>1, Bounds
    <3> QED
      BY <1>2, <2>1, <3>2
  <2>3. PICK n \in S : \A m \in S : n <= m
    BY <2>2, LeastNumber
  <2>4. PICK y \in leave : n = MaxEnded - e[y]
    BY <2>3
  <2>5. \A z \in leave : MaxEnded - e[y] <= MaxEnded - e[z]
    BY <2>3, <2>4
  <2>6. \A z \in leave : e[z] <= e[y]
    <3>1. \A z \in Run : e[z] \in Nat
      OBVIOUS
    <3> QED
      BY <2>1, <2>5, <3>1, Bounds
  <2>7. OldEnough(y, members, e) /\ e[run] < e[y] /\ y \in Run
    BY <2>1 DEF Newer
  <2>8. Newer(y, members, e) \subseteq members \ gone
    <3> SUFFICES ASSUME NEW z \in members, e[y] < e[z], z \in gone PROVE FALSE
      BY DEF Newer
    <3>1. e[run] \in Nat /\ e[y] \in Nat /\ e[z] \in Nat
      BY <2>7
    <3>2. z \in leave
      BY <2>7, <3>1 DEF Newer
    <3> QED
      BY <2>6, <3>1, <3>2
  <2>9. Newer(y, members, e) \subseteq Newer(run, members \ gone, e)
    <3> SUFFICES ASSUME NEW z \in members, e[y] < e[z] PROVE e[run] < e[z]
      BY <2>8 DEF Newer
    <3>1. e[run] \in Nat /\ e[y] \in Nat /\ e[z] \in Nat
      BY <2>7
    <3> QED
      BY <2>7, <3>1
  <2> DEFINE a == Newer(y, members, e)
             b == Newer(run, members \ gone, e)
  <2>10. IsFiniteSet(b)
    <3>1. b \subseteq members
      BY DEF Newer
    <3> QED
      BY <3>1, FS_Subset
  <2>11. a \subseteq b /\ Cardinality(a) >= Cap
    BY <2>7, <2>9 DEF OldEnough
  <2> HIDE DEF a, b
  <2>12. Cardinality(a) \in Nat /\ Cardinality(b) \in Nat /\ Cardinality(a) <= Cardinality(b)
    BY <2>10, <2>11, FS_Subset, FS_CardinalityType
  <2>13. Cardinality(b) >= Cap
    BY <2>11, <2>12, CapIsNat
  <2> QED
    BY <2>13 DEF b, OldEnough
<1> QED
  BY <1>1, <1>2

\* The members read beyond the cap are just those that are old enough.
LEMMA OverflowIsOld ==
  ASSUME TypeOK, IsFiniteSet(index), NEW o \in SUBSET index, IsOverflow(o, index)
  PROVE  \A run \in index : run \in o <=> OldEnough(run, index, ended)
<1>1. \A x \in index : x \in Run /\ ended[x] \in Nat
  BY DEF TypeOK, WorkerType, IndexType
<1>2. ASSUME NEW run \in o
      PROVE  OldEnough(run, index, ended)
  <2> DEFINE a == index \ o
             b == Newer(run, index, ended)
  <2>1. a \subseteq b /\ b \subseteq index
    BY DEF Newer, IsOverflow, Older
  <2>2. Cardinality(a) = Cap
    BY <1>2 DEF IsOverflow
  <2> HIDE DEF a, b
  <2>3. IsFiniteSet(b)
    BY <2>1, FS_Subset
  <2>4. Cardinality(b) \in Nat /\ Cardinality(a) <= Cardinality(b)
    BY <2>1, <2>3, FS_Subset, FS_CardinalityType
  <2>5. Cardinality(b) >= Cap
    BY <2>2, <2>4, CapIsNat
  <2> QED
    BY <2>5 DEF b, OldEnough
<1>3. ASSUME NEW run \in index, OldEnough(run, index, ended), run \notin o
      PROVE  FALSE
  <2> DEFINE b == Newer(run, index, ended)
             a == index \ o
  <2>1. b \cup {run} \subseteq a
    <3> SUFFICES ASSUME NEW x \in o, ended[run] < ended[x] PROVE FALSE
      BY <1>3 DEF Newer
    <3>1. ended[x] < ended[run]
      BY <1>3 DEF IsOverflow, Older
    <3>2. ended[x] \in Nat /\ ended[run] \in Nat
      BY <1>1
    <3> QED
      BY <3>1, <3>2
  <2>2. run \notin b /\ b \subseteq index
    <3>1. ended[run] \in Nat
      BY <1>1
    <3> QED
      BY <3>1 DEF Newer
  <2>3. IsFiniteSet(a) /\ Cardinality(a) <= Cap
    BY FS_Difference, OverflowIsEnough
  <2>4. Cardinality(b) >= Cap
    BY <1>3 DEF OldEnough
  <2> HIDE DEF a, b
  <2>5. IsFiniteSet(b)
    BY <2>2, FS_Subset
  <2>6. Cardinality(b \cup {run}) = Cardinality(b) + 1 /\ Cardinality(b) \in Nat
    BY <2>2, <2>5, FS_AddElement, FS_CardinalityType
  <2>7. Cardinality(b \cup {run}) <= Cardinality(a) /\ Cardinality(a) \in Nat
    BY <2>1, <2>3, FS_Subset, FS_CardinalityType
  <2> QED
    BY <2>3, <2>4, <2>6, <2>7, CapIsNat
<1> QED
  BY <1>2, <1>3

-----------------------------------------------------------------------------
(* The hash follows the index *)

\* What a step of a handler does to the index, the hash and what is counted.
LEMMA IndexSteps ==
  ASSUME TypeOK, NEW h \in Handler, HandlerStep(h)
  PROVE  \/ Zrange(h)
         \/ /\ task[h].pc = "multi" /\ IndexEntry(h) /\ task'[h].pc \notin {"zrange", "multi"}
            /\ UNCHANGED <<counted, broken>>
         \/ /\ task[h].pc = "zadd" /\ task[h].run \notin index /\ index' = index \cup {task[h].run}
            /\ Count(RunTally(task[h].run)) /\ task'[h].pc = "zrange" /\ task'[h].run = task[h].run
            /\ UNCHANGED <<data, broken>>
         \/ /\ task[h].pc = "zadd" /\ index' = index \cup {task[h].run} /\ broken' # {}
            /\ task'[h].pc \notin {"zrange", "multi"} /\ UNCHANGED <<data, counted>>
         \/ /\ UNCHANGED <<index, data>> /\ broken \subseteq broken'
            /\ task'[h].pc \notin {"zrange", "multi"}
<1> DEFINE s == task[h]
           u == task'[h]
<1>1. Idle.pc \notin {"zrange", "multi"}
  BY DEF Idle
<1>2. ASSUME NEW lines, NEW left, Goes(u, s, lines, left)
      PROVE  u.pc \notin {"zrange", "multi"}
  BY <1>2 DEF Goes
<1>3. ASSUME NEW r \in Replica, NEW j \in Job, OnEvent(h, r, j) \/ OnTimer(h, r, j)
      PROVE  UNCHANGED <<index, data, broken>> /\ u.pc \notin {"zrange", "multi"}
  BY <1>3, BeginTo DEF OnEvent, OnTimer, redis
<1>4. CASE GetJob(h)
  <2>1. u.pc \notin {"zrange", "multi"}
    BY <1>1, <1>4, GetJobTo
  <2> QED
    BY <1>4, <2>1 DEF GetJob, redis
<1>5. CASE GetLogs(h)
  <2>1. u.pc \notin {"zrange", "multi"}
    BY <1>2, <1>5, GetLogsTo
  <2> QED
    BY <1>5, <2>1 DEF GetLogs, redis
<1>6. CASE Zadd(h)
  <2>1. UNCHANGED <<data, broken>> /\ s.pc = "zadd"
    BY <1>6 DEF Zadd
  <2>2. CASE /\ IsNew(s.run) /\ index' = index \cup {s.run} /\ Count(RunTally(s.run))
             /\ u.pc = "zrange" /\ u.run = s.run
    BY <2>1, <2>2 DEF IsNew
  <2>3. CASE UNCHANGED index /\ Goes(u, s, s.lines, s.todo)
    BY <1>2, <2>1, <2>3
  <2> QED
    BY <1>6, <2>2, <2>3, ZaddTo
<1>7. CASE Multi(h)
  <2>1. u.pc \notin {"zrange", "multi"}
    BY <1>2, <1>7, MultiTo
  <2> QED
    BY <1>7, <2>1 DEF Multi
<1>8. CASE Decide(h)
  <2>1. u.pc \notin {"zrange", "multi"}
    BY <1>1, <1>8, DecideTo
  <2> QED
    BY <1>8, <2>1 DEF Decide, redis
<1>9. CASE CallFails(h)
  <2>1. u.pc \notin {"zrange", "multi"}
    BY <1>1, <1>9 DEF CallFails, Finish, TypeOK, TaskType
  <2> QED
    BY <1>9, <2>1 DEF CallFails, redis
<1>10. CASE ReplyLost(h)
  <2>1. u.pc \notin {"zrange", "multi"}
    BY <1>1, <1>10 DEF ReplyLost, Finish, TypeOK, TaskType
  <2> QED
    BY <1>10, <2>1 DEF ReplyLost
<1> QED
  BY <1>3, <1>4, <1>5, <1>6, <1>7, <1>8, <1>9, <1>10 DEF HandlerStep

\* The overflow a handler holds is old enough, whoever adds or trims since it was read.
AgeInv ==
  \A g \in Handler : task[g].pc = "multi" => \A run \in task[g].overflow : OldEnough(run, index, ended)

\* A run that is or was in the index was counted when it was added.
CountedInv ==
  broken = {} => /\ \A run \in index : counted[RunTally(run)] > 0
                 /\ \A g \in Handler : task[g].pc = "multi" =>
                      \A run \in task[g].overflow : counted[RunTally(run)] > 0

LEMMA AgesKeep ==
  ASSUME TypeOK, TrimInv, AgeInv, NEW h \in Handler, HandlerStep(h)
  PROVE  AgeInv'
<1>1. \A x \in Handler \ {h} : task'[x] = task[x]
  BY OneHandlerMoves DEF HandlerStep
<1>2. UNCHANGED ended /\ IsFiniteSet(index)
  BY DEF TrimInv, HandlerStep, OnEvent, OnTimer, GetJob, GetLogs, Zadd, Zrange, Multi, Decide, CallFails,
         ReplyLost, worker
<1>3. SUFFICES ASSUME NEW g \in Handler, task'[g].pc = "multi", NEW run \in task'[g].overflow
               PROVE  OldEnough(run, index', ended)
  BY <1>2 DEF AgeInv
<1>4. CASE Zrange(h)
  <2>1. index' = index /\ task'[h].overflow \subseteq index /\ IsOverflow(task'[h].overflow, index)
    BY <1>4, ZrangeTo
  <2>2. CASE g = h
    BY <1>2, <1>3, <2>1, <2>2, OverflowIsOld
  <2>3. CASE g # h
    BY <1>1, <1>3, <2>1, <2>3 DEF AgeInv
  <2> QED
    BY <2>2, <2>3
<1>5. ASSUME task'[h].pc \notin {"zrange", "multi"} \/ task'[h].pc = "zrange"
      PROVE  task[g].pc = "multi" /\ run \in task[g].overflow /\ OldEnough(run, index, ended)
  <2>1. g # h
    BY <1>3, <1>5
  <2> QED
    BY <1>1, <1>3, <2>1 DEF AgeInv
<1>6. ASSUME task'[h].pc \notin {"zrange", "multi"} \/ task'[h].pc = "zrange",
             UNCHANGED index \/ index' = index \cup {task[h].run}
      PROVE  OldEnough(run, index', ended)
  <2>1. index \subseteq index' /\ IsFiniteSet(index')
    BY <1>2, <1>6, FS_AddElement
  <2>2. OldEnough(run, index, ended)
    BY <1>5, <1>6
  <2> QED
    BY <2>1, <2>2, MoreMembersAge
<1>7. CASE task[h].pc = "multi" /\ IndexEntry(h) /\ task'[h].pc \notin {"zrange", "multi"}
  <2>1. index' = index \ task[h].overflow
    BY <1>7 DEF IndexEntry
  <2>2. \A y \in task[h].overflow : OldEnough(y, index, ended)
    BY <1>7 DEF AgeInv
  <2>3. index \in SUBSET Run /\ ended \in [Run -> 0 .. MaxEnded]
    BY DEF TypeOK, WorkerType, IndexType
  <2>4. run \in Run
    <3>1. task[g] \in Task
      BY <1>5, <1>7 DEF TypeOK, TaskType, Idle
    <3> QED
      BY <1>5, <1>7, <3>1 DEF Task
  <2>5. OldEnough(run, index, ended)
    BY <1>5, <1>7
  <2> QED
    BY <1>2, <2>1, <2>2, <2>3, <2>4, <2>5, EvictionKeepsAge
<1> QED
  BY <1>4, <1>6, <1>7, IndexSteps

LEMMA CountsGrow ==
  ASSUME TypeOK, [Next]_vars
  PROVE  \A run \in Run : counted'[RunTally(run)] >= counted[RunTally(run)]
<1>1. \A run \in Run : RunTally(run) \in Tally
  BY TallyType
<1>2. counted \in [Tally -> Nat]
  BY DEF TypeOK, HistoryType
<1>3. CASE Next
  <2>1. ASSUME NEW run \in Run, Count(RunTally(run))
        PROVE  \A x \in Run : counted'[RunTally(x)] >= counted[RunTally(x)]
    BY <1>1, <1>2, <2>1 DEF Count
  <2>2. (UNCHANGED counted) => \A x \in Run : counted'[RunTally(x)] >= counted[RunTally(x)]
    BY <1>1, <1>2
  <2>3. (\A run \in Run : counted'[RunTally(run)] = counted[RunTally(run)]) =>
          \A x \in Run : counted'[RunTally(x)] >= counted[RunTally(x)]
    BY <1>1, <1>2
  <2> QED
    BY <1>3, <2>1, <2>2, <2>3, AdmissionSteps
<1>4. CASE UNCHANGED vars
  BY <1>1, <1>2, <1>4 DEF vars
<1> QED
  BY <1>3, <1>4

LEMMA CountedKeep ==
  ASSUME TypeOK, CountedInv, NEW h \in Handler, HandlerStep(h)
  PROVE  CountedInv'
<1>1. \A x \in Handler \ {h} : task'[x] = task[x]
  BY OneHandlerMoves DEF HandlerStep
<1>2. \A run \in Run : counted'[RunTally(run)] >= counted[RunTally(run)]
  BY CountsGrow DEF HandlerStep, Next, Monitor, Environment
<1>3. counted \in [Tally -> Nat] /\ \A run \in Run : RunTally(run) \in Tally
  BY TallyType DEF TypeOK, HistoryType
<1>4. SUFFICES ASSUME broken' = {}
               PROVE  /\ \A run \in index' : counted'[RunTally(run)] > 0
                      /\ \A g \in Handler : task'[g].pc = "multi" =>
                           \A run \in task'[g].overflow : counted'[RunTally(run)] > 0
  BY DEF CountedInv
<1>5. broken = {}
  BY <1>4, IndexSteps DEF Zrange
<1>6. \A run \in Run : counted[RunTally(run)] > 0 => counted'[RunTally(run)] > 0
  <2>1. \A run \in Run : counted[RunTally(run)] \in Nat
    BY <1>3
  <2>2. \A run \in Run : counted'[RunTally(run)] \in Nat
    <3>1. HistoryType'
      BY MonitorKeepsType, EnvironmentKeepsType DEF TypeOK, HandlerStep, Monitor, Environment
    <3> QED
      BY <1>3, <3>1 DEF HistoryType
  <2> QED
    BY <1>2, <2>1, <2>2
<1>7. index \subseteq Run /\ \A g \in Handler : task[g].pc = "multi" => task[g].overflow \subseteq Run
  BY DEF TypeOK, TaskType, IndexType, Task, Idle
<1>8. \A run \in index : counted'[RunTally(run)] > 0
  BY <1>5, <1>6, <1>7 DEF CountedInv
<1>9. ASSUME NEW g \in Handler \ {h}, task[g].pc = "multi", NEW run \in task[g].overflow
      PROVE  counted'[RunTally(run)] > 0
  BY <1>5, <1>6, <1>7, <1>9 DEF CountedInv
<1>10. CASE Zrange(h)
  <2>1. index' = index /\ task'[h].overflow \subseteq index
    BY <1>10, ZrangeTo
  <2> QED
    BY <1>1, <1>8, <1>9, <2>1
<1>11. ASSUME task'[h].pc # "multi", index' \subseteq index
       PROVE  /\ \A run \in index' : counted'[RunTally(run)] > 0
              /\ \A g \in Handler : task'[g].pc = "multi" =>
                   \A run \in task'[g].overflow : counted'[RunTally(run)] > 0
  BY <1>1, <1>8, <1>9, <1>11
<1>12. CASE /\ task[h].pc = "zadd" /\ index' = index \cup {task[h].run}
            /\ Count(RunTally(task[h].run)) /\ task'[h].pc = "zrange"
  <2>1. task[h].run \in Run
    BY <1>12 DEF TypeOK, TaskType
  <2>2. counted'[RunTally(task[h].run)] > 0
    BY <1>3, <1>12, <2>1 DEF Count
  <2> QED
    BY <1>1, <1>8, <1>9, <1>12, <2>2
<1> QED
  BY <1>4, <1>10, <1>11, <1>12, IndexSteps DEF IndexEntry

LEMMA CountsKnown == Spec => []CountedInv
<1>1. Init => CountedInv
  BY DEF Init, CountedInv, Idle
<1>2. TypeOK /\ CountedInv /\ [Next]_vars => CountedInv'
  <2> SUFFICES ASSUME TypeOK, CountedInv, [Next]_vars PROVE CountedInv'
    OBVIOUS
  <2>1. ASSUME UNCHANGED counted, index' \subseteq index, broken \subseteq broken',
               \A x \in Handler : task'[x] = task[x] \/ task'[x] = Idle
        PROVE  CountedInv'
    BY <2>1 DEF CountedInv, Idle
  <2>2. CASE Worker
    BY <2>1, <2>2 DEF Worker, Start, End, LateLine, ManualRetry, Redeliver, redis
  <2>3. CASE Monitor \/ \E h \in Handler : CallFails(h) \/ ReplyLost(h)
    BY <2>3, CountedKeep DEF Monitor, HandlerStep
  <2>4. ASSUME NEW r \in Replica, Stop(r) \/ StartCollecting(r) \/ Crash(r) PROVE CountedInv'
    BY <2>1, <2>4 DEF Stop, StartCollecting, Crash, redis
  <2>5. CASE ClearIndex \/ ClearData
    BY <2>1, <2>5 DEF ClearIndex, ClearData
  <2>6. CASE UNCHANGED vars
    BY <2>1, <2>6 DEF vars
  <2> QED
    BY <2>2, <2>3, <2>4, <2>5, <2>6 DEF Next, Environment
<1> QED
  BY <1>1, <1>2, TypeCorrect, PTL DEF Spec

Clean == broken = {} /\ CountedOnce

\* A handler about to evict the run that x writes.
Claims(g, x) == task[g].pc = "multi" /\ task[x].run \in task[g].overflow

\* The run that x writes is in the index, and whoever is about to evict it is answered after x.
Stays(x) ==
  /\ task[x].run \in index
  /\ \A g \in Handler : Claims(g, x) => \A r \in Replica : Before(x, g, sent[r])

\* The hash holds what the index does, and a handler that writes an entry writes one that stays
\* until then, or evicts it itself.
EntryInv ==
  Clean => /\ data \subseteq index
           /\ \A x \in Handler : task[x].pc = "zrange" => Stays(x)
           /\ \A x \in Handler : task[x].pc = "multi" => task[x].run \in task[x].overflow \/ Stays(x)

\* The transaction of x: the entry it writes is of a member, or leaves at once.
LEMMA TransactionFollows ==
  ASSUME NEW x \in Handler, task[x].pc = "multi", data \subseteq index,
         task[x].run \in task[x].overflow \/ task[x].run \in index, IndexEntry(x)
  PROVE  data' \subseteq index'
  BY DEF IndexEntry

LEMMA EntriesFollow ==
  ASSUME TypeOK, RunsInv, QueueInv, TrimInv, AgeInv, CountedInv, EntryInv,
         \A r, k \in Replica : r = k, NEW h \in Handler, HandlerStep(h)
  PROVE  EntryInv'
<1>1. \A x \in Handler \ {h} : task'[x] = task[x]
  BY OneHandlerMoves DEF HandlerStep
<1>2. SUFFICES ASSUME Clean'
               PROVE  /\ data' \subseteq index'
                      /\ \A x \in Handler : task'[x].pc = "zrange" => Stays(x)'
                      /\ \A x \in Handler : task'[x].pc = "multi" =>
                           task'[x].run \in task'[x].overflow \/ Stays(x)'
  BY DEF EntryInv
<1>3. \A run \in Run : counted[RunTally(run)] \in Nat /\ counted'[RunTally(run)] \in Nat
  <2>1. HistoryType'
    BY MonitorKeepsType, EnvironmentKeepsType DEF TypeOK, HandlerStep, Monitor, Environment
  <2> QED
    BY <2>1, TallyType DEF TypeOK, HistoryType
<1>4. broken = {} /\ broken' = {}
  BY <1>2, IndexSteps DEF Zrange, Clean
<1>5. Clean
  <2>1. \A run \in Run : counted'[RunTally(run)] >= counted[RunTally(run)]
    BY CountsGrow DEF HandlerStep, Next, Monitor, Environment
  <2>2. \A run \in Run : counted'[RunTally(run)] <= 1
    BY <1>2 DEF Clean, CountedOnce
  <2>3. \A run \in Run : counted[RunTally(run)] <= 1
    BY <1>3, <2>1, <2>2
  <2> QED
    BY <1>4, <2>3 DEF Clean, CountedOnce
<1>6. data \subseteq index
  BY <1>5 DEF EntryInv
<1>7. \A x \in Handler : task[x].pc = "zrange" => Stays(x)
  BY <1>5 DEF EntryInv
<1>8. \A x \in Handler : task[x].pc = "multi" => task[x].run \in task[x].overflow \/ Stays(x)
  BY <1>5 DEF EntryInv
<1>9. \A x, g \in Handler \ {h} : \A r \in Replica : Before(x, g, sent[r]) => Before(x, g, sent'[r])
  BY OthersWait
<1>10. \A x \in Handler : task[x].pc \in Writing => \E r \in Replica : In(x, sent[r])
  BY DEF QueueInv, TypeOK, TaskType, Task, Idle, Writing
<1>11. CASE Zrange(h)
  <2>1. /\ UNCHANGED <<index, data>> /\ task'[h].run = task[h].run /\ task'[h].pc = "multi"
        /\ task'[h].overflow \subseteq index /\ IsOverflow(task'[h].overflow, index)
    BY <1>11, ZrangeTo DEF Same
  <2>2. IsFiniteSet(index)
    BY DEF TrimInv
  <2>3. \A run \in index : run \in task'[h].overflow <=> OldEnough(run, index, ended)
    BY <2>1, <2>2, OverflowIsOld
  <2>4. Stays(h) /\ task[h].run \in index
    BY <1>7, <1>11 DEF Zrange, Stays
  \* Whoever evicts the run of h read an overflow that h reads too.
  <2>5. task'[h].run \in task'[h].overflow \/ Stays(h)'
    <3>1. ASSUME NEW g \in Handler, Claims(g, h)'
          PROVE  task'[h].run \in task'[h].overflow
      <4>1. CASE g = h
        BY <3>1, <4>1 DEF Claims
      <4>2. CASE g # h
        <5>1. OldEnough(task[h].run, index, ended)
          BY <1>1, <2>1, <3>1, <4>2 DEF AgeInv, Claims
        <5> QED
          BY <2>1, <2>3, <2>4, <5>1
      <4> QED
        BY <4>1, <4>2
    <3> QED
      BY <2>1, <2>4, <3>1 DEF Stays
  \* The commands of h come after those of all who wait.
  <2>6. ASSUME NEW x \in Handler \ {h}, task[x].pc \in Writing, Stays(x)
        PROVE  Stays(x)'
    <3>1. task'[x].run \in index'
      BY <1>1, <2>1, <2>6 DEF Stays
    <3>2. ASSUME NEW g \in Handler \ {h}, Claims(g, x)', NEW r \in Replica
          PROVE  Before(x, g, sent'[r])
      <4>1. Claims(g, x)
        BY <1>1, <3>2 DEF Claims
      <4> QED
        BY <1>9, <2>6, <4>1 DEF Stays
    <3>3. ASSUME NEW r \in Replica
          PROVE  Before(x, h, sent'[r])
      <4> DEFINE q == sent[r]
      <4>1. task[h].at = r /\ sent \in [Replica -> Seq(Handler)]
        <5>1. task[h] \in Task
          BY <1>11, TaskAtStage DEF TypeOK, Zrange, Stages, Writing
        <5> QED
          BY <5>1 DEF Task, TypeOK, SentType
      <4>2. q # <<>> /\ Head(q) = h /\ sent'[r] = Append(Tail(q), h)
        BY <1>11, <4>1 DEF Zrange, Answered
      <4>3. q \in Seq(Handler) /\ NoneTwice(q) /\ In(x, q)
        <5>1. \E k \in Replica : In(x, sent[k])
          BY <1>10, <2>6
        <5> QED
          BY <4>1, <5>1 DEF QueueInv
      <4> HIDE DEF q
      <4>4. Tail(q) \in Seq(Handler) /\ NoneTwice(Tail(q)) /\ ~In(h, Tail(q)) /\ In(x, Tail(q))
        BY <2>6, <4>2, <4>3, Replies
      <4> DEFINE rest == Tail(q)
      <4>5. rest \in Seq(Handler) /\ NoneTwice(rest) /\ ~In(h, rest) /\ In(x, rest)
        BY <4>4
      <4> HIDE DEF rest
      <4>6. Before(x, h, Append(rest, h))
        BY <4>5, Sends
      <4> QED
        BY <4>2, <4>6 DEF rest
    <3> QED
      BY <3>1, <3>2, <3>3 DEF Stays
  <2>7. \A x \in Handler \ {h} : task[x].pc = "zrange" => Stays(x)'
    BY <1>7, <2>6 DEF Writing
  <2>8. \A x \in Handler \ {h} : task[x].pc = "multi" => task[x].run \in task[x].overflow \/ Stays(x)'
    BY <1>8, <2>6 DEF Writing
  <2> QED
    BY <1>1, <1>6, <2>1, <2>5, <2>7, <2>8
\* A step that makes h no claimant: the runs of the others stay, if they stay in the index.
<1>12. ASSUME task'[h].pc # "multi",
              NEW x \in Handler \ {h}, Stays(x), task[x].run \in index'
       PROVE  Stays(x)'
  <2>1. ASSUME NEW g \in Handler, Claims(g, x)', NEW r \in Replica
        PROVE  Before(x, g, sent'[r])
    <3>1. g # h
      BY <1>12, <2>1 DEF Claims
    <3>2. Claims(g, x)
      BY <1>1, <1>12, <2>1, <3>1 DEF Claims
    <3> QED
      BY <1>9, <1>12, <3>1, <3>2 DEF Stays
  <2> QED
    BY <1>1, <1>12, <2>1 DEF Stays
<1>13. ASSUME task'[h].pc # "multi", index \subseteq index'
       PROVE  /\ \A x \in Handler \ {h} : task[x].pc = "zrange" => Stays(x)'
              /\ \A x \in Handler \ {h} : task[x].pc = "multi" =>
                   task[x].run \in task[x].overflow \/ Stays(x)'
  BY <1>7, <1>8, <1>12, <1>13 DEF Stays
<1>14. CASE /\ task[h].pc = "multi" /\ IndexEntry(h) /\ task'[h].pc \notin {"zrange", "multi"}
  <2>1. data' \subseteq index'
    BY <1>6, <1>8, <1>14, TransactionFollows DEF Stays
  \* h is answered first, so it does not evict the run of another that stays.
  <2>2. ASSUME NEW x \in Handler \ {h}, Stays(x)
        PROVE  task[x].run \in index'
    <3>1. ASSUME task[x].run \in task[h].overflow
          PROVE  FALSE
      <4>1. Claims(h, x)
        BY <1>14, <3>1 DEF Claims
      <4>2. PICK r \in Replica : task[h].at = r
        BY <1>14 DEF TypeOK, TaskType, Task, Idle
      <4>3. Before(x, h, sent[r])
        BY <2>2, <4>1 DEF Stays
      <4>4. sent[r] # <<>> /\ Head(sent[r]) = h
        BY <1>14, <4>2, HandlerSends DEF Sending, Answered, Writing
      <4>5. sent[r] \in Seq(Handler) /\ NoneTwice(sent[r])
        BY DEF TypeOK, SentType, QueueInv
      <4> QED
        BY <4>3, <4>4, <4>5, Replies
    <3> QED
      BY <1>14, <2>2, <3>1 DEF IndexEntry, Stays
  <2>3. \A x \in Handler \ {h} : Stays(x) => Stays(x)'
    BY <1>12, <1>14, <2>2
  <2> QED
    BY <1>1, <1>7, <1>8, <1>14, <2>1, <2>3
\* The run that h adds was not counted before, so nobody evicts it.
<1>15. CASE /\ task[h].pc = "zadd" /\ task[h].run \notin index /\ index' = index \cup {task[h].run}
            /\ Count(RunTally(task[h].run)) /\ task'[h].pc = "zrange" /\ task'[h].run = task[h].run
            /\ UNCHANGED <<data, broken>>
  <2>1. task[h].run \in Run
    BY <1>15 DEF TypeOK, TaskType
  <2>2. ~(counted[RunTally(task[h].run)] > 0)
    <3>1. counted'[RunTally(task[h].run)] = counted[RunTally(task[h].run)] + 1
      BY <1>15, <2>1, TallyType DEF Count, TypeOK, HistoryType
    <3>2. counted'[RunTally(task[h].run)] <= 1
      BY <1>2, <2>1 DEF Clean, CountedOnce
    <3> QED
      BY <1>3, <2>1, <3>1, <3>2
  <2>3. ASSUME NEW g \in Handler, Claims(g, h)'
        PROVE  FALSE
    <3>1. g # h
      BY <1>15, <2>3 DEF Claims
    <3>2. task[g].pc = "multi" /\ task[h].run \in task[g].overflow
      BY <1>1, <1>15, <2>3, <3>1 DEF Claims
    <3> QED
      BY <1>4, <2>2, <3>2 DEF CountedInv
  <2>4. Stays(h)'
    BY <1>15, <2>3 DEF Stays
  <2>5. index \subseteq index'
    BY <1>15
  <2> QED
    BY <1>1, <1>6, <1>13, <1>15, <2>4, <2>5
<1>16. CASE UNCHANGED <<index, data>> /\ task'[h].pc \notin {"zrange", "multi"}
  <2>1. /\ \A x \in Handler \ {h} : task[x].pc = "zrange" => Stays(x)'
        /\ \A x \in Handler \ {h} : task[x].pc = "multi" =>
             task[x].run \in task[x].overflow \/ Stays(x)'
    BY <1>13, <1>16
  <2> QED
    BY <1>1, <1>6, <1>16, <2>1
<1> QED
  BY <1>4, <1>11, <1>14, <1>15, <1>16, IndexSteps

\* In a single process, as long as nothing is cleared and no run comes back that had left the index,
\* the hash holds no entry of a run the index does not have: the overflow of a handler holds only
\* runs that every later overflow holds too, and the one connection answers in order.
THEOREM HashFollowsIndexHolds ==
  ASSUME \A r, k \in Replica : r = k
  PROVE  Spec /\ [][~ClearIndex]_vars => []HashFollowsIndex
<1> DEFINE Inv == TypeOK /\ RunsInv /\ QueueInv /\ TrimInv /\ CountedInv
           HashInv == AgeInv /\ EntryInv
<1>1. Init => HashInv
  BY DEF Init, AgeInv, EntryInv, Idle
<1>2. Inv /\ HashInv /\ [Next]_vars /\ [~ClearIndex]_vars => HashInv'
  <2> SUFFICES ASSUME Inv, HashInv, [Next]_vars, [~ClearIndex]_vars PROVE HashInv'
    OBVIOUS
  \* A step of no handler, which may only take handlers, entries and the trust in the entries away.
  <2>1. ASSUME UNCHANGED <<index, counted>>, broken \subseteq broken', data' \subseteq data,
               \A x \in Handler : task'[x] = task[x] \/ task'[x] = Idle,
               \A r \in Replica : sent'[r] = sent[r] \/ \A h \in Handler : task'[h] = Idle \/ task'[h].at # r
        PROVE  HashInv'
    <3>1. \A run \in Run : ended[run] > 0 => ended'[run] = ended[run]
      BY EndedStays
    <3>2. \A g \in Handler : task'[g].pc \in {"zrange", "multi"} => task'[g] = task[g]
      BY <2>1 DEF Idle
    <3>3. AgeInv'
      <4> SUFFICES ASSUME NEW g \in Handler, task'[g].pc = "multi", NEW run \in task'[g].overflow
                   PROVE  OldEnough(run, index', ended')
        BY DEF AgeInv
      <4>1. task'[g] = task[g]
        BY <3>2
      <4>2. task[g].overflow \subseteq Run /\ task[g] # Idle
        BY <4>1 DEF TypeOK, TaskType, Task, Idle
      <4>3. run \in Run /\ ended[run] > 0
        BY <4>1, <4>2 DEF RunsInv, TaskKnown
      <4>4. \A b \in index : b \in Run /\ ended[b] > 0
        BY DEF TypeOK, IndexType, RunsInv
      <4>5. Newer(run, index', ended') = Newer(run, index, ended)
        BY <2>1, <3>1, <4>3, <4>4 DEF Newer
      <4>6. OldEnough(run, index, ended)
        BY <4>1 DEF AgeInv
      <4> QED
        BY <4>5, <4>6 DEF OldEnough
    <3>4. EntryInv'
      <4> SUFFICES ASSUME Clean' PROVE /\ data' \subseteq index'
                                       /\ \A x \in Handler : task'[x].pc = "zrange" => Stays(x)'
                                       /\ \A x \in Handler : task'[x].pc = "multi" =>
                                            task'[x].run \in task'[x].overflow \/ Stays(x)'
        BY DEF EntryInv
      <4>1. Clean
        BY <2>1 DEF Clean, CountedOnce
      <4>2. ASSUME NEW x \in Handler, task'[x] = task[x], task[x].pc \in Writing, Stays(x)
            PROVE  Stays(x)'
        <5>1. ASSUME NEW g \in Handler, Claims(g, x)'
              PROVE  \A r \in Replica : Before(x, g, sent'[r])
          <6>1. task'[g] = task[g] /\ task[g] # Idle
            BY <3>2, <5>1 DEF Claims, Idle
          <6>2. Claims(g, x)
            BY <4>2, <5>1, <6>1 DEF Claims
          <6>3. task[g].at \in Replica
            BY <6>1 DEF TypeOK, TaskType, Task
          <6>4. \A r \in Replica : sent'[r] = sent[r]
            BY <2>1, <6>1, <6>3
          <6> QED
            BY <4>2, <6>2, <6>4 DEF Stays
        <5> QED
          BY <2>1, <4>2, <5>1 DEF Stays
      <4> QED
        BY <2>1, <3>2, <4>1, <4>2 DEF EntryInv, Writing
    <3> QED
      BY <3>3, <3>4
  <2>2. CASE Worker
    BY <2>1, <2>2 DEF Worker, Start, End, LateLine, ManualRetry, Redeliver, redis
  <2>3. ASSUME NEW h \in Handler, HandlerStep(h) PROVE HashInv'
    BY <2>3, AgesKeep, EntriesFollow
  <2>4. ASSUME NEW r \in Replica, Stop(r) \/ StartCollecting(r) PROVE HashInv'
    BY <2>1, <2>4 DEF Stop, StartCollecting, redis
  <2>5. ASSUME NEW r \in Replica, Crash(r) PROVE HashInv'
    <3>1. UNCHANGED <<index, data, counted>> /\ broken \subseteq broken'
      BY <2>5 DEF Crash, redis
    <3>2. \A x \in Handler : task'[x] = IF task[x] # Idle /\ task[x].at = r THEN Idle ELSE task[x]
      BY <2>5 DEF Crash
    <3>3. \A x \in Handler : task'[x] = Idle \/ task'[x].at # r
      BY <3>2
    <3> QED
      BY <2>1, <3>1, <3>2, <3>3
  <2>6. CASE ClearData
    BY <2>1, <2>6 DEF ClearData
  <2>7. CASE UNCHANGED vars
    BY <2>1, <2>7 DEF vars
  <2>8. CASE ClearIndex /\ ~UNCHANGED vars
    BY <2>8
  <2> QED
    BY <2>2, <2>3, <2>4, <2>5, <2>6, <2>7, <2>8 DEF Next, Monitor, Environment, HandlerStep
<1>3. HashInv => HashFollowsIndex
  BY DEF EntryInv, Clean, HashFollowsIndex
<1> QED
  BY <1>1, <1>2, <1>3, TypeCorrect, RunsKnown, QueuesHold, TrimsKnown, CountsKnown, PTL DEF Spec

-----------------------------------------------------------------------------
(* What is left of an execution *)

\* The start that is known is that of the last execution; no line is of a later one, nor of the one
\* in progress; and an execution that left its run in the returnvalue has no line.
JobRecord(j, hash, lines, unawaited) ==
  /\ hash.since \in {0, hash.attempt}
  /\ \A i \in DOMAIN lines : /\ lines[i].attempt <= hash.attempt
                             /\ hash.state = "active" => lines[i].attempt # hash.attempt
  /\ hash.state = "done" => hash.attempt \in Attempt
  /\ hash.state = "done" /\ hash.value = hash.attempt =>
       /\ \A i \in DOMAIN lines : lines[i].attempt # hash.attempt
       /\ <<j, hash.attempt>> \notin unawaited

RecordInv == \A j \in Job : JobRecord(j, job[j], log[j], late)

LEMMA EndRecords ==
  ASSUME TypeOK, RunsInv, RecordInv, NEW j \in Job, NEW record, NEW fate, End(j, record, fate)
  PROVE  RecordInv'
<1> DEFINE run == <<j, job[j].attempt>>
           line(kind) == [kind |-> kind, attempt |-> run[2]]
           lines == CASE record = "run"  -> <<line("run")>>
                      [] record = "skip" -> <<line("skip")>>
                      [] record = "both" -> <<line("skip"), line("run")>>
                      [] OTHER           -> <<>>
<1>1. job[j].state = "active" /\ job[j].attempt \in Attempt /\ job[j].attempt \in Nat
  BY Bounds DEF End, TypeOK, WorkerType, JobHash
<1>2. run \notin late
  <2>1. ended[run] = 0
    BY EndKnown
  <2> QED
    BY <2>1 DEF RunsInv
<1>3. late' = IF record = "late" THEN late \cup {run} ELSE late
  BY DEF End
<1>4. ASSUME NEW k \in Job, k # j
      PROVE  JobRecord(k, job'[k], log'[k], late')
  <2>1. job'[k] = job[k] /\ log'[k] = log[k]
    BY <1>4 DEF End, TypeOK, WorkerType
  <2>2. \A a : <<k, a>> \in late' <=> <<k, a>> \in late
    BY <1>3, <1>4
  <2> QED
    BY <2>1, <2>2 DEF RecordInv, JobRecord
<1>5. /\ job'[j].attempt = job[j].attempt /\ job'[j].state # "active" /\ job'[j].since = job[j].since
      /\ job'[j].value = IF record = "value" THEN job[j].attempt ELSE 0
  BY DEF End, TypeOK, WorkerType, JobHash
<1>6. log'[j] = IF fate = "removed" THEN <<>> ELSE log[j] \o lines
  BY DEF End, TypeOK, WorkerType
<1>7. /\ log[j] \in Seq(Line)
      /\ \A i \in 1 .. Len(log[j]) : log[j][i].attempt <= job[j].attempt /\ log[j][i].attempt # job[j].attempt
  <2>1. JobRecord(j, job[j], log[j], late) /\ log[j] \in Seq(Line)
    BY DEF RecordInv, TypeOK, WorkerType
  <2>2. DOMAIN log[j] = 1 .. Len(log[j])
    BY <2>1
  <2> QED
    BY <1>1, <2>1, <2>2 DEF JobRecord
<1>8. /\ lines \in Seq(Line) /\ \A i \in 1 .. Len(lines) : lines[i].attempt = job[j].attempt
      /\ record \notin {"run", "skip", "both"} => lines = <<>>
  <2>1. line("run") \in Line /\ line("skip") \in Line
    BY <1>1 DEF Line
  <2>2. line("run").attempt = job[j].attempt /\ line("skip").attempt = job[j].attempt
    OBVIOUS
  <2> HIDE DEF line
  <2> QED
    BY <2>1, <2>2
<1> HIDE DEF lines
<1>9. ASSUME NEW i \in DOMAIN log'[j]
      PROVE  /\ log'[j][i].attempt <= job[j].attempt
             /\ record = "value" => log'[j][i].attempt # job[j].attempt
  <2>1. CASE fate = "removed"
    BY <1>6, <1>9, <2>1
  <2>2. CASE fate # "removed" /\ i <= Len(log[j])
    <3>1. log'[j][i] = log[j][i] /\ i \in 1 .. Len(log[j])
      BY <1>6, <1>7, <1>8, <1>9, <2>2
    <3> QED
      BY <1>7, <3>1
  <2>3. CASE fate # "removed" /\ ~(i <= Len(log[j]))
    <3>1. PICK k \in 1 .. Len(lines) : log'[j][i] = lines[k]
      BY <1>6, <1>7, <1>8, <1>9, <2>3
    <3> QED
      BY <1>1, <1>8, <3>1
  <2> QED
    BY <2>1, <2>2, <2>3
<1>10. JobRecord(j, job'[j], log'[j], late')
  <2>1. job'[j].value = job'[j].attempt => record = "value" /\ run \notin late'
    <3>1. job[j].attempt # 0
      BY <1>1 DEF Attempt
    <3> QED
      BY <1>2, <1>3, <1>5, <3>1
  <2>2. job[j].since \in {0, job[j].attempt}
    BY DEF RecordInv, JobRecord
  <2> HIDE DEF run
  <2> QED
    BY <1>1, <1>5, <1>9, <2>1, <2>2 DEF JobRecord, run
<1> QED
  BY <1>4, <1>10 DEF RecordInv

LEMMA KeepsRecordInv == TypeOK /\ RunsInv /\ RecordInv /\ [Next]_vars => RecordInv'
<1> SUFFICES ASSUME TypeOK, RunsInv, RecordInv, [Next]_vars PROVE RecordInv'
  OBVIOUS
<1>1. CASE UNCHANGED <<job, log, late>>
  BY <1>1 DEF RecordInv
<1>2. ASSUME NEW j \in Job, Start(j) PROVE RecordInv'
  <2>1. UNCHANGED <<log, late>> /\ \A k \in Job : k # j => job'[k] = job[k]
    BY <1>2 DEF Start, TypeOK, WorkerType
  <2>2. /\ job'[j].state = "active" /\ job'[j].attempt = job[j].attempt + 1
        /\ job'[j].since \in {0, job[j].attempt + 1}
    BY <1>2 DEF Start, TypeOK, WorkerType, JobHash
  <2>3. job[j].attempt \in Nat /\ log[j] \in Seq(Line)
    BY Bounds DEF TypeOK, WorkerType, JobHash
  <2>4. \A i \in DOMAIN log[j] : log[j][i].attempt \in Nat /\ log[j][i].attempt <= job[j].attempt
    <3>1. JobRecord(j, job[j], log[j], late)
      BY DEF RecordInv
    <3>2. \A i \in DOMAIN log[j] : log[j][i] \in Line
      BY <2>3
    <3>3. Attempt \subseteq Nat
      BY Bounds DEF Attempt
    <3> QED
      BY <3>1, <3>2, <3>3 DEF JobRecord, Line
  <2>5. \A i \in DOMAIN log[j] : /\ log[j][i].attempt <= job[j].attempt + 1
                                 /\ log[j][i].attempt # job[j].attempt + 1
    BY <2>3, <2>4
  <2>6. JobRecord(j, job'[j], log[j], late)
    BY <2>2, <2>5 DEF JobRecord
  <2> QED
    BY <2>1, <2>6 DEF RecordInv
<1>3. ASSUME NEW j \in Job, NEW outcome \in Outcomes, End(j, outcome[1], outcome[2]) PROVE RecordInv'
  BY <1>3, EndRecords
<1>4. ASSUME NEW run \in Run, LateLine(run) PROVE RecordInv'
  <2>1. UNCHANGED <<job, late>> /\ run \in late /\ ended[run] > 0
    BY <1>4 DEF LateLine, RunsInv
  <2>2. PICK j \in Job, a \in Attempt : run = <<j, a>>
    BY DEF Run
  <2> DEFINE line == [kind |-> "run", attempt |-> a]
  <2>3. log[j] \in Seq(Line) /\ log' = [log EXCEPT ![j] = Append(log[j], line)] /\ log \in [Job -> Seq(Line)]
    BY <1>4, <2>2 DEF LateLine, TypeOK, WorkerType
  <2>4. \A k \in Job : k # j => log'[k] = log[k]
    BY <2>3
  <2>5. JobRecord(j, job[j], log[j], late)
    BY DEF RecordInv
  <2>6. a <= job[j].attempt /\ (job[j].state = "active" => a # job[j].attempt)
    <3>1. ~(a > job[j].attempt) /\ (job[j].state = "active" => a # job[j].attempt)
      <4>1. JobKnown(j, job[j], log[j], ended)
        BY DEF RunsInv
      <4>2. ended[<<j, a>>] # 0
        BY <2>1, <2>2
      <4> QED
        BY <4>1, <4>2 DEF JobKnown
    <3>2. job[j].attempt \in Nat /\ a \in Nat
      BY Bounds DEF TypeOK, WorkerType, JobHash, Attempt
    <3> QED
      BY <3>1, <3>2
  <2>7. job[j].state = "done" /\ job[j].value = job[j].attempt => a # job[j].attempt
    BY <2>1, <2>2, <2>5 DEF JobRecord
  <2>8. log'[j] = Append(log[j], line) /\ line.attempt = a
    BY <2>3
  <2> HIDE DEF line
  <2>9. \A i \in DOMAIN log'[j] : log'[j][i] = line \/ (i \in DOMAIN log[j] /\ log'[j][i] = log[j][i])
    BY <2>3, <2>8
  <2>10. JobRecord(j, job[j], log'[j], late)
    BY <2>5, <2>6, <2>7, <2>8, <2>9 DEF JobRecord
  <2> QED
    BY <2>1, <2>4, <2>10 DEF RecordInv
<1>5. ASSUME NEW j \in Job, ManualRetry(j) PROVE RecordInv'
  <2>1. UNCHANGED <<log, late>>
    BY <1>5 DEF ManualRetry
  <2>2. ASSUME NEW k \in Job
        PROVE  /\ job'[k].attempt = job[k].attempt /\ job'[k].value = job[k].value
               /\ job'[k].since = job[k].since
               /\ job'[k].state = job[k].state \/ job'[k].state = "waiting"
    BY <1>5 DEF ManualRetry, TypeOK, WorkerType, JobHash
  <2> QED
    BY <2>1, <2>2 DEF RecordInv, JobRecord
<1>6. CASE Worker
  BY <1>1, <1>2, <1>3, <1>4, <1>5, <1>6 DEF Worker, Redeliver, worker
<1>7. CASE Monitor
  BY <1>1, <1>7 DEF Monitor, OnEvent, OnTimer, GetJob, GetLogs, Zadd, Zrange, Multi, Decide, worker
<1>8. CASE Environment
  BY <1>1, <1>8 DEF Environment, CallFails, ReplyLost, Stop, StartCollecting, Crash, ClearIndex, ClearData,
                     worker
<1>9. CASE UNCHANGED vars
  BY <1>1, <1>9 DEF vars
<1> QED
  BY <1>6, <1>7, <1>8, <1>9 DEF Next

LEMMA RecordsHold == Spec => []RecordInv
<1>1. Init => RecordInv
  BY DEF Init, RecordInv, JobRecord
<1> QED
  BY <1>1, KeepsRecordInv, RunsKnown, TypeCorrect, PTL DEF Spec

-----------------------------------------------------------------------------
(* A finished job is accounted for, or something is left that will account for it *)

RunsOf(lines)  == AttemptsOf(lines, "run")
SkipsOf(lines) == AttemptsOf(lines, "skip")
Past == Writing \cup {"decide"}

\* Something will read job j as it is now.
Pending(j) ==
  \/ \E r \in Replica : event[r][j] > 0 \/ timer[r][j] > 0
  \/ \E h \in Handler : task[h].pc = "getJob" /\ task[h].job = j /\ ~task[h].fallback

\* A handler with task s will count the run of attempt a of job j.
OwesRun(s, j, a) ==
  /\ s.job = j
  /\ \/ s.pc = "getLogs"
     \/ s.pc \in Writing /\ \E i \in s.todo : s.lines[i].attempt = a
     \/ s.pc = "zadd" /\ s.run = <<j, a>>

\* It will count the run that job j, last executed in attempt last, left in its returnvalue.
OwesValue(s, j, since, last, lines) ==
  /\ s.job = j
  /\ \/ s.pc = "zadd" /\ s.run = <<j, last>>
     \/ /\ s.since = since /\ s.value = last /\ ~s.fallback
        /\ \/ s.pc = "getLogs"
           \/ s.pc \in Past /\ RunsOf(s.lines) \subseteq RunsOf(lines) /\ SkipsOf(s.lines) \subseteq SkipsOf(lines)

\* It will count job j as skipped.
OwesSkip(s, j, since, last, lines) ==
  /\ s.job = j /\ s.since = since /\ ~s.fallback
  /\ s.pc = "getLogs" \/ (s.pc \in Past /\ last \in SkipsOf(s.lines) /\ RunsOf(s.lines) \subseteq RunsOf(lines))

\* It will count job j as unrecorded.
OwesUnrecorded(s, j) ==
  /\ s.job = j /\ s.value = 0 /\ ~s.fallback
  /\ s.pc = "getLogs" \/ (s.pc = "decide" /\ s.lines = <<>>)

Counted(t) == counted[t] > 0

RunsAccounted(j) ==
  \A a \in RunsOf(log[j]) : \/ <<j, a>> \in late \/ Counted(RunTally(<<j, a>>))
                            \/ \E h \in Handler : OwesRun(task[h], j, a)
ValueAccounted(j) ==
  job[j].value = job[j].attempt /\ (job[j].since = 0 => SkipsOf(log[j]) = {}) =>
    \/ Counted(RunTally(<<j, job[j].attempt>>))
    \/ \E h \in Handler : OwesValue(task[h], j, job[j].since, job[j].attempt, log[j])
SkipAccounted(j) ==
  job[j].attempt \in SkipsOf(log[j]) \ RunsOf(log[j]) /\ (job[j].since = 0 => RunsOf(log[j]) = {}) =>
    \/ Counted(JobTally("skipped", j))
    \/ \E h \in Handler : OwesSkip(task[h], j, job[j].since, job[j].attempt, log[j])
UnrecordedAccounted(j) ==
  log[j] = <<>> /\ job[j].value = 0 =>
    Counted(JobTally("unrecorded", j)) \/ \E h \in Handler : OwesUnrecorded(task[h], j)

Accounted(j) ==
  IF job[j].kept THEN RunsAccounted(j) /\ ValueAccounted(j) /\ SkipAccounted(j) /\ UnrecordedAccounted(j)
                 ELSE Counted(JobTally("lost", j))

AccountInv == \A j \in AgentJob : job[j].state = "done" => Pending(j) \/ Accounted(j)

\* A handler that goes on without a failure.
Works(h) == GetJob(h) \/ GetLogs(h) \/ Zadd(h) \/ Zrange(h) \/ Multi(h) \/ Decide(h)

LEMMA CountStays ==
  ASSUME TypeOK, [Worker \/ Monitor]_vars
  PROVE  \A t \in Tally : Counted(t) => Counted(t)'
<1>1. counted \in [Tally -> Nat]
  BY DEF TypeOK, HistoryType
<1>2. UNCHANGED counted \/ \E t \in Tally : Count(t)
  <2>1. ASSUME NEW h \in Handler, GetJob(h) \/ Decide(h)
        PROVE  UNCHANGED counted \/ \E t \in Tally : Count(t)
    <3>1. task[h].job \in Job
      BY <2>1, TaskAtStage DEF TypeOK, GetJob, Decide, Stages, Task
    <3> QED
      BY <2>1, <3>1, TallyType DEF GetJob, Decide
  <2>2. ASSUME NEW h \in Handler, Zadd(h)
        PROVE  UNCHANGED counted \/ \E t \in Tally : Count(t)
    <3>1. task[h].run \in Run
      BY <2>2 DEF Zadd, TypeOK, TaskType
    <3> QED
      BY <2>2, <3>1, TallyType DEF Zadd
  <2>3. ASSUME NEW h \in Handler, GetLogs(h) \/ Zrange(h) \/ Multi(h)
        PROVE  UNCHANGED counted
    BY <2>3 DEF GetLogs, Zrange, Multi
  <2>4. ASSUME NEW h \in Handler, NEW r \in Replica, NEW j \in Job, OnEvent(h, r, j) \/ OnTimer(h, r, j)
        PROVE  UNCHANGED counted
    BY <2>4 DEF OnEvent, OnTimer
  <2>5. Worker => UNCHANGED counted
    BY DEF Worker, Start, End, LateLine, ManualRetry, Redeliver
  <2>6. UNCHANGED vars => UNCHANGED counted
    BY DEF vars
  <2> QED
    BY <2>1, <2>2, <2>3, <2>4, <2>5, <2>6 DEF Monitor
<1> QED
  BY <1>1, <1>2 DEF Counted, Count

\* The task of a handler that writes, or has written, keeps what it read.
LEMMA WritingOn ==
  ASSUME TypeOK, NEW h \in Handler, Zadd(h) \/ Zrange(h) \/ Multi(h)
  PROVE  /\ Same(task'[h], task[h]) /\ task'[h].fallback = task[h].fallback
         /\ task[h].pc \in Writing /\ task'[h].pc \in Past
<1>1. CASE Goes(task'[h], task[h], task[h].lines, task[h].todo)
  BY <1>1 DEF Goes, Same, Past, Writing, Zadd, Zrange, Multi
<1> QED
  BY <1>1, ZaddTo, ZrangeTo, MultiTo DEF Past, Writing, Zadd, Zrange, Multi

\* A run of the lines left to go through is the next one, or is left.
LEMMA GoesOwes ==
  ASSUME NEW u, NEW s, NEW lines, NEW left, Goes(u, s, lines, left), NEW i \in left
  PROVE  OwesRun(u, s.job, lines[i].attempt)
<1>1. PICK first \in left : /\ u.pc = "zadd" /\ u.todo = left \ {first}
                            /\ u.run = <<s.job, lines[first].attempt>>
  BY DEF Goes
<1>2. u.job = s.job /\ u.lines = lines
  BY DEF Goes, SameRead
<1> QED
  BY <1>1, <1>2 DEF OwesRun, Writing

\* A run that is indexed was counted: it is, unless the handler that added it failed on the way.
IndexCounted == \A run \in index : Counted(RunTally(run))

LEMMA RunFollowed ==
  ASSUME TypeOK, IndexCounted, NEW h \in Handler, Works(h), NEW j \in Job, NEW a \in Attempt,
         a \in RunsOf(log[j]), OwesRun(task[h], j, a)
  PROVE  Counted(RunTally(<<j, a>>))' \/ OwesRun(task'[h], j, a)
<1> DEFINE s == task[h]
           u == task'[h]
<1>1. s.job = j
  BY DEF OwesRun
<1>2. CASE GetJob(h) \/ Decide(h)
  BY <1>2 DEF OwesRun, Writing, GetJob, Decide
<1>3. CASE GetLogs(h)
  <2>1. PICK i \in RunLines(log[j]) : log[j][i].attempt = a
    BY DEF RunsOf, AttemptsOf, RunLines
  <2>2. Goes(u, s, log[j], RunLines(log[j]))
    BY <1>1, <1>3, GetLogsTo
  <2> QED
    BY <1>1, <2>1, <2>2, GoesOwes
<1>4. ASSUME Goes(u, s, s.lines, s.todo), NEW i \in s.todo, s.lines[i].attempt = a
      PROVE  OwesRun(u, j, a)
  BY <1>1, <1>4, GoesOwes
<1>5. ASSUME Same(u, s), u.pc \in Writing, u.todo = s.todo, NEW i \in s.todo, s.lines[i].attempt = a
      PROVE  OwesRun(u, j, a)
  BY <1>1, <1>5 DEF OwesRun, Same, SameRead
<1>6. CASE Zadd(h)
  <2>1. s.run \in Run /\ RunTally(s.run) \in Tally
    BY <1>6, TallyType DEF Zadd, TypeOK, TaskType
  <2>2. s.run = <<j, a>> \/ \E i \in s.todo : s.lines[i].attempt = a
    BY <1>6 DEF OwesRun, Zadd
  <2>3. CASE /\ Count(RunTally(s.run)) /\ Same(u, s) /\ u.pc = "zrange" /\ u.todo = s.todo
    <3>1. counted'[RunTally(s.run)] > 0
      BY <2>1, <2>3 DEF Count, TypeOK, HistoryType
    <3> QED
      BY <1>5, <2>2, <2>3, <3>1 DEF Writing, Counted
  <2>4. CASE ~IsNew(s.run) /\ UNCHANGED <<index, counted>> /\ Goes(u, s, s.lines, s.todo)
    <3>1. counted'[RunTally(s.run)] > 0
      BY <2>4 DEF IndexCounted, Counted, IsNew
    <3> QED
      BY <1>4, <2>2, <2>4, <3>1 DEF Counted
  <2> QED
    BY <1>6, <2>3, <2>4, ZaddTo
<1>7. CASE Zrange(h)
  <2>1. \E i \in s.todo : s.lines[i].attempt = a
    BY <1>7 DEF OwesRun, Zrange
  <2> QED
    BY <1>5, <1>7, <2>1, ZrangeTo DEF Writing
<1>8. CASE Multi(h)
  <2>1. \E i \in s.todo : s.lines[i].attempt = a
    BY <1>8 DEF OwesRun, Multi
  <2> QED
    BY <1>4, <1>8, <2>1, MultiTo
<1> QED
  BY <1>2, <1>3, <1>6, <1>7, <1>8 DEF Works

\* What the lines of a job tell of attempts, as sets.
LEMMA LinesUpToAttempt ==
  ASSUME TypeOK, RecordInv, NEW j \in Job
  PROVE  /\ job[j].attempt \in Nat
         /\ \A a \in RunsOf(log[j]) \cup SkipsOf(log[j]) : a \in Attempt /\ a \in Nat /\ a <= job[j].attempt
         /\ job[j].state = "done" => job[j].attempt \in Attempt /\ job[j].attempt > 0
         /\ job[j].state = "done" /\ job[j].value = job[j].attempt =>
              job[j].attempt \notin RunsOf(log[j]) \cup SkipsOf(log[j])
         /\ job[j].since \in {0, job[j].attempt}
<1>1. JobRecord(j, job[j], log[j], late)
  BY DEF RecordInv
<1>2. log[j] \in Seq(Line) /\ job[j].attempt \in 0 .. MaxAttempt
  BY DEF TypeOK, WorkerType, JobHash
<1>3. \A i \in DOMAIN log[j] : log[j][i].attempt \in Attempt
  <2>1. \A i \in DOMAIN log[j] : log[j][i] \in Line
    BY <1>2
  <2> QED
    BY <2>1 DEF Line
<1>4. \A a \in RunsOf(log[j]) \cup SkipsOf(log[j]) : \E i \in DOMAIN log[j] : a = log[j][i].attempt
  BY DEF RunsOf, SkipsOf, AttemptsOf
<1>5. Attempt \subseteq Nat /\ \A a \in Attempt : a > 0
  BY Bounds DEF Attempt
<1>6. job[j].attempt \in Nat
  BY <1>2, Bounds
<1>7. \A i \in DOMAIN log[j] : log[j][i].attempt <= job[j].attempt
  BY <1>1 DEF JobRecord
<1>8. \A a \in RunsOf(log[j]) \cup SkipsOf(log[j]) : a \in Attempt /\ a \in Nat /\ a <= job[j].attempt
  BY <1>3, <1>4, <1>5, <1>7
<1>9. job[j].state = "done" => job[j].attempt \in Attempt /\ job[j].attempt > 0
  BY <1>1, <1>5 DEF JobRecord
<1>10. job[j].state = "done" /\ job[j].value = job[j].attempt =>
         job[j].attempt \notin RunsOf(log[j]) \cup SkipsOf(log[j])
  BY <1>1, <1>4 DEF JobRecord
<1>11. job[j].since \in {0, job[j].attempt}
  BY <1>1 DEF JobRecord
<1> QED
  BY <1>6, <1>8, <1>9, <1>10, <1>11

\* The five ways a handler decides.
LEMMA DecideWays ==
  ASSUME TypeOK, NEW h \in Handler, Decide(h), ~task[h].fallback
  PROVE  LET s == task[h] IN
         \/ CurrentSkipped(h) /\ Count(JobTally("skipped", s.job))
         \/ ~CurrentSkipped(h) /\ \E r \in Replica : timer'[r][s.job] > 0
         \/ ~CurrentSkipped(h) /\ FallsBack(h) /\ task'[h].pc = "zadd" /\ task'[h].job = s.job
                               /\ task'[h].run = <<s.job, s.value>>
         \/ ~CurrentSkipped(h) /\ ~FallsBack(h)
              /\ (s.value = 0 /\ RunsOf(s.lines) = {} /\ SkipsOf(s.lines) = {} =>
                    Count(JobTally("unrecorded", s.job)))
<1> DEFINE s == task[h]
<1>1. s \in Task
  BY TaskAtStage DEF TypeOK, Decide, Stages
<1>2. s.at \in Replica /\ s.job \in Job
  BY <1>1 DEF Task
<1>3. ASSUME timer' = [timer EXCEPT ![s.at][s.job] = @ + 1]
      PROVE  \E r \in Replica : timer'[r][s.job] > 0
  <2>1. timer'[s.at][s.job] = timer[s.at][s.job] + 1 /\ timer[s.at][s.job] \in Nat
    BY <1>2, <1>3 DEF TypeOK, PendingType
  <2> QED
    BY <1>2, <2>1
<1>4. ASSUME task' = [task EXCEPT ![h] = [s EXCEPT !.pc = "zadd", !.run = <<s.job, s.value>>,
                                            !.fallback = TRUE]]
      PROVE  task'[h].pc = "zadd" /\ task'[h].job = s.job /\ task'[h].run = <<s.job, s.value>>
  BY <1>1, <1>4 DEF Task, TypeOK, TaskType
<1> QED
  BY <1>2, <1>3, <1>4, Zenon DEF Decide, RunsOf, SkipsOf

LEMMA ValueFollowed ==
  ASSUME TypeOK, IndexCounted, RecordInv, NEW h \in Handler, Works(h), NEW j \in Job,
         job[j].state = "done", job[j].value = job[j].attempt, job[j].since = 0 => SkipsOf(log[j]) = {},
         OwesValue(task[h], j, job[j].since, job[j].attempt, log[j])
  PROVE  \/ Counted(RunTally(<<j, job[j].attempt>>))'
         \/ OwesValue(task'[h], j, job[j].since, job[j].attempt, log[j])
         \/ \E r \in Replica : timer'[r][j] > 0
<1> DEFINE s == task[h]
           u == task'[h]
           last == job[j].attempt
<1>1. s.job = j
  BY DEF OwesValue
<1>2. UNCHANGED <<job, log>>
  BY DEF Works, GetJob, GetLogs, Zadd, Zrange, Multi, Decide, worker
<1>3. CASE Zadd(h) /\ s.run = <<j, last>>
  <2>1. s.run \in Run /\ RunTally(s.run) \in Tally
    BY <1>3, TallyType DEF Zadd, TypeOK, TaskType
  <2>2. counted'[RunTally(s.run)] > 0
    <3>1. CASE IsNew(s.run) /\ Count(RunTally(s.run))
      BY <2>1, <3>1 DEF Count, TypeOK, HistoryType
    <3>2. CASE ~IsNew(s.run) /\ UNCHANGED counted
      BY <3>2 DEF IndexCounted, Counted, IsNew
    <3> QED
      BY <1>3, <3>1, <3>2 DEF Zadd
  <2> QED
    BY <1>2, <1>3, <2>2 DEF Counted
<1>4. CASE GetJob(h)
  BY <1>4 DEF OwesValue, GetJob, Past, Writing
<1>5. CASE GetLogs(h)
  <2>1. Goes(u, s, log[j], RunLines(log[j]))
    BY <1>1, <1>5, GetLogsTo
  <2>2. s.since = job[j].since /\ s.value = last /\ ~s.fallback
    BY <1>5 DEF OwesValue, GetLogs
  <2>3. u.job = j /\ u.since = s.since /\ u.value = s.value /\ ~u.fallback /\ u.lines = log[j] /\ u.pc \in Past
    BY <1>1, <2>1, <2>2 DEF Goes, SameRead, Past, Writing
  <2> QED
    BY <2>2, <2>3 DEF OwesValue
<1>6. ASSUME ~(s.pc = "zadd" /\ s.run = <<j, last>>), s.pc # "getLogs"
      PROVE  /\ s.since = job[j].since /\ s.value = last /\ ~s.fallback
             /\ RunsOf(s.lines) \subseteq RunsOf(log[j]) /\ SkipsOf(s.lines) \subseteq SkipsOf(log[j])
  BY <1>6 DEF OwesValue
<1>7. CASE (Zadd(h) \/ Zrange(h) \/ Multi(h)) /\ ~(s.pc = "zadd" /\ s.run = <<j, last>>)
  <2>1. Same(u, s) /\ u.fallback = s.fallback /\ s.pc \in Writing /\ u.pc \in Past
    BY <1>7, WritingOn
  <2>2. s.pc # "getLogs"
    BY <2>1 DEF Writing
  <2> QED
    BY <1>1, <1>6, <1>7, <2>1, <2>2 DEF OwesValue, Same, SameRead
<1>8. CASE Decide(h)
  <2>1. /\ s.since = job[j].since /\ s.value = last /\ ~s.fallback
        /\ RunsOf(s.lines) \subseteq RunsOf(log[j]) /\ SkipsOf(s.lines) \subseteq SkipsOf(log[j])
    BY <1>6, <1>8 DEF Decide
  <2>2. /\ last \in Nat /\ last > 0 /\ last \notin RunsOf(log[j]) \cup SkipsOf(log[j])
        /\ \A a \in SkipsOf(log[j]) : a \in Nat /\ a <= last
        /\ job[j].since \in {0, last}
    BY LinesUpToAttempt
  <2>3. ~CurrentSkipped(h)
    BY <2>1, <2>2 DEF CurrentSkipped, LiveSkips, IsCurrent, SkipsOf, RunsOf
  <2>4. FallsBack(h)
    BY <2>1, <2>2 DEF FallsBack, RunsOf
  <2>5. ASSUME u.pc = "zadd", u.job = s.job, u.run = <<s.job, s.value>>
        PROVE  OwesValue(u, j, job[j].since, last, log[j])
    BY <1>1, <2>1, <2>5 DEF OwesValue
  <2> QED
    BY <1>1, <1>8, <2>1, <2>3, <2>4, <2>5, DecideWays
<1> QED
  BY <1>3, <1>4, <1>5, <1>7, <1>8 DEF Works, Zrange, Multi, Zadd

LEMMA SkipFollowed ==
  ASSUME TypeOK, RecordInv, NEW h \in Handler, Works(h), NEW j \in Job, job[j].state = "done",
         job[j].attempt \in SkipsOf(log[j]) \ RunsOf(log[j]), job[j].since = 0 => RunsOf(log[j]) = {},
         OwesSkip(task[h], j, job[j].since, job[j].attempt, log[j])
  PROVE  \/ Counted(JobTally("skipped", j))'
         \/ OwesSkip(task'[h], j, job[j].since, job[j].attempt, log[j])
<1> DEFINE s == task[h]
           u == task'[h]
           last == job[j].attempt
<1>1. s.job = j /\ s.since = job[j].since /\ ~s.fallback
  BY DEF OwesSkip
<1>2. CASE GetJob(h)
  BY <1>2 DEF OwesSkip, GetJob, Past, Writing
<1>3. CASE GetLogs(h)
  <2>1. Goes(u, s, log[j], RunLines(log[j]))
    BY <1>1, <1>3, GetLogsTo
  <2>2. u.job = j /\ u.since = s.since /\ ~u.fallback /\ u.lines = log[j] /\ u.pc \in Past
    BY <1>1, <2>1 DEF Goes, SameRead, Past, Writing
  <2> QED
    BY <1>1, <2>2 DEF OwesSkip
<1>4. s.pc # "getLogs" => last \in SkipsOf(s.lines) /\ RunsOf(s.lines) \subseteq RunsOf(log[j])
  BY DEF OwesSkip
<1>5. CASE Zadd(h) \/ Zrange(h) \/ Multi(h)
  <2>1. Same(u, s) /\ u.fallback = s.fallback /\ s.pc \in Writing /\ u.pc \in Past
    BY <1>5, WritingOn
  <2>2. s.pc # "getLogs"
    BY <2>1 DEF Writing
  <2> QED
    BY <1>1, <1>4, <2>1, <2>2 DEF OwesSkip, Same, SameRead
<1>6. CASE Decide(h)
  <2>1. last \in SkipsOf(s.lines) /\ RunsOf(s.lines) \subseteq RunsOf(log[j])
    BY <1>4, <1>6 DEF Decide
  <2>2. /\ last \in Nat /\ last > 0 /\ \A a \in RunsOf(log[j]) : a \in Nat /\ a <= last
        /\ job[j].since \in {0, last}
    BY LinesUpToAttempt
  <2>3. ~CurrentSeen(h)
    <3> SUFFICES ASSUME NEW a \in RunsOf(s.lines), s.since > 0, a >= s.since PROVE FALSE
      BY DEF CurrentSeen, IsCurrent, RunsOf
    <3>1. s.since = last /\ a \in Nat /\ a <= last
      BY <1>1, <2>1, <2>2
    <3>2. a = last
      BY <2>2, <3>1
    <3> QED
      BY <2>1, <3>2
  <2>4. last \in LiveSkips(h)
    BY <2>1 DEF LiveSkips, SkipsOf, RunsOf
  <2>5. CurrentSkipped(h)
    <3>1. CASE s.since > 0
      <4>1. IsCurrent(h, last)
        BY <1>1, <2>2, <3>1 DEF IsCurrent
      <4> QED
        BY <2>3, <2>4, <3>1, <4>1 DEF CurrentSkipped
    <3>2. CASE ~(s.since > 0)
      <4>1. RunsOf(s.lines) = {}
        BY <1>1, <2>1, <2>2, <3>2
      <4> QED
        BY <2>3, <2>4, <3>2, <4>1 DEF CurrentSkipped, RunsOf
    <3> QED
      BY <3>1, <3>2
  <2>6. Count(JobTally("skipped", j))
    BY <1>1, <1>6, <2>5, DecideWays
  <2> QED
    BY <2>6, TallyType DEF Count, Counted, TypeOK, HistoryType
<1> QED
  BY <1>2, <1>3, <1>5, <1>6 DEF Works

LEMMA UnrecordedFollowed ==
  ASSUME TypeOK, NEW h \in Handler, Works(h), NEW j \in Job, log[j] = <<>>, OwesUnrecorded(task[h], j)
  PROVE  \/ Counted(JobTally("unrecorded", j))'
         \/ OwesUnrecorded(task'[h], j)
         \/ \E r \in Replica : timer'[r][j] > 0
<1> DEFINE s == task[h]
           u == task'[h]
<1>1. s.job = j /\ s.value = 0 /\ ~s.fallback /\ s.pc \in {"getLogs", "decide"}
  BY DEF OwesUnrecorded
<1>2. CASE GetLogs(h)
  <2>1. Goes(u, s, <<>>, RunLines(<<>>))
    BY <1>1, <1>2, GetLogsTo
  <2>2. RunLines(<<>>) = {}
    BY DEF RunLines
  <2>3. u.job = j /\ u.value = 0 /\ ~u.fallback /\ u.lines = <<>> /\ u.pc = "decide"
    BY <1>1, <2>1, <2>2 DEF Goes, SameRead
  <2> QED
    BY <2>3 DEF OwesUnrecorded
<1>3. CASE Decide(h)
  <2>1. s.lines = <<>>
    BY <1>3 DEF OwesUnrecorded, Decide
  <2>2. RunsOf(s.lines) = {} /\ SkipsOf(s.lines) = {}
    BY <2>1 DEF RunsOf, SkipsOf, AttemptsOf
  <2>3. ~CurrentSkipped(h) /\ ~FallsBack(h)
    BY <1>1, <2>2 DEF CurrentSkipped, LiveSkips, SkipsOf, FallsBack
  <2>4. Count(JobTally("unrecorded", j)) \/ \E r \in Replica : timer'[r][j] > 0
    BY <1>1, <1>3, <2>2, <2>3, DecideWays
  <2> QED
    BY <2>4, TallyType DEF Count, Counted, TypeOK, HistoryType
<1> QED
  BY <1>1, <1>2, <1>3 DEF Works, GetJob, Zadd, Zrange, Multi

LEMMA WorksAccounts ==
  ASSUME TypeOK, IndexCounted, RecordInv, AccountInv, NEW h \in Handler, Works(h)
  PROVE  AccountInv'
<1> DEFINE s == task[h]
           u == task'[h]
<1>1. \A x \in Handler \ {h} : task'[x] = task[x]
  BY OneHandlerMoves DEF Works
<1>2. UNCHANGED <<job, log, late, event>>
  BY DEF Works, GetJob, GetLogs, Zadd, Zrange, Multi, Decide, worker
<1>3. AgentJob \subseteq Job
  BY AgentMetricsAssumption DEF AgentMetricsAssumption
<1>4. SUFFICES ASSUME NEW j \in AgentJob, job[j].state = "done"
               PROVE  Pending(j)' \/ Accounted(j)'
  BY <1>2 DEF AccountInv
<1>5. j \in Job
  BY <1>3
<1>6. \A t \in Tally : Counted(t) => Counted(t)'
  BY CountStays DEF Works, Monitor
<1>7. \A r \in Replica : timer[r][j] > 0 => timer'[r][j] > 0
  <2>1. UNCHANGED timer \/ timer' = [timer EXCEPT ![s.at][s.job] = @ + 1]
    BY DEF Works, GetJob, GetLogs, Zadd, Zrange, Multi, Decide
  <2>2. timer \in [Replica -> [Job -> Nat]]
    BY DEF TypeOK, PendingType
  <2>3. \A r \in Replica, k \in Job : timer[r][k] \in Nat
    BY <2>2
  <2>4. CASE timer' = [timer EXCEPT ![s.at][s.job] = @ + 1]
    BY <1>5, <2>2, <2>3, <2>4
  <2> QED
    BY <2>1, <2>4
<1>8. CASE Pending(j)
  <2>1. CASE \E r \in Replica : event[r][j] > 0 \/ timer[r][j] > 0
    BY <1>2, <1>7, <2>1 DEF Pending
  <2>2. ASSUME NEW x \in Handler, task[x].pc = "getJob", task[x].job = j, ~task[x].fallback
        PROVE  Pending(j)' \/ Accounted(j)'
    <3>1. CASE x # h
      BY <1>1, <2>2, <3>1 DEF Pending
    <3>2. CASE x = h
      <4>1. GetJob(h)
        BY <2>2, <3>2 DEF Works, GetLogs, Zadd, Zrange, Multi, Decide
      <4>2. CASE ~job[j].kept
        <5>1. Count(JobTally("lost", j))
          BY <2>2, <3>2, <4>1, <4>2 DEF GetJob
        <5>2. Counted(JobTally("lost", j))'
          BY <1>5, <5>1, TallyType DEF Count, Counted, TypeOK, HistoryType
        <5> QED
          BY <1>2, <4>2, <5>2 DEF Accounted
      <4>3. CASE job[j].kept
        <5>1. /\ u.pc = "getLogs" /\ u.job = j /\ u.since = job[j].since /\ u.value = job[j].value
              /\ u.fallback = s.fallback
          BY <2>2, <3>2, <4>1, <4>3, GetJobTo
        <5>2. ~u.fallback
          BY <2>2, <3>2, <5>1
        <5>3. \A a : OwesRun(u, j, a)
          BY <5>1 DEF OwesRun
        <5>4. job[j].value = job[j].attempt => OwesValue(u, j, job[j].since, job[j].attempt, log[j])
          BY <5>1, <5>2 DEF OwesValue
        <5>5. OwesSkip(u, j, job[j].since, job[j].attempt, log[j])
          BY <5>1, <5>2 DEF OwesSkip
        <5>6. job[j].value = 0 => OwesUnrecorded(u, j)
          BY <5>1, <5>2 DEF OwesUnrecorded
        <5>7. RunsAccounted(j)' /\ ValueAccounted(j)'
          BY <1>2, <5>3, <5>4 DEF RunsAccounted, ValueAccounted
        <5>8. SkipAccounted(j)' /\ UnrecordedAccounted(j)'
          BY <1>2, <5>5, <5>6 DEF SkipAccounted, UnrecordedAccounted
        <5> QED
          BY <1>2, <4>3, <5>7, <5>8 DEF Accounted
      <4> QED
        BY <4>2, <4>3
    <3> QED
      BY <3>1, <3>2
  <2> QED
    BY <1>8, <2>1, <2>2 DEF Pending
<1>9. CASE Accounted(j) /\ ~job[j].kept
  <2>1. Counted(JobTally("lost", j))'
    BY <1>5, <1>6, <1>9, TallyType DEF Accounted
  <2> QED
    BY <1>2, <1>9, <2>1 DEF Accounted
<1>10. CASE Accounted(j) /\ job[j].kept
  <2>1. RunsAccounted(j) /\ ValueAccounted(j) /\ SkipAccounted(j) /\ UnrecordedAccounted(j)
    BY <1>10 DEF Accounted
  <2>2. \A a \in RunsOf(log[j]) : a \in Attempt /\ RunTally(<<j, a>>) \in Tally
    BY <1>5, LinesUpToAttempt, TallyType DEF Run
  <2>3. RunTally(<<j, job[j].attempt>>) \in Tally
    BY <1>4, <1>5, LinesUpToAttempt, TallyType DEF Run
  <2>4. RunsAccounted(j)'
    <3> SUFFICES ASSUME NEW a \in RunsOf(log[j]), <<j, a>> \notin late, ~Counted(RunTally(<<j, a>>))'
                 PROVE  \E x \in Handler : OwesRun(task'[x], j, a)
      BY <1>2 DEF RunsAccounted
    <3>1. PICK x \in Handler : OwesRun(task[x], j, a)
      BY <1>6, <2>1, <2>2 DEF RunsAccounted
    <3>2. CASE x = h
      BY <1>5, <2>2, <3>1, <3>2, RunFollowed
    <3>3. CASE x # h
      BY <1>1, <3>1, <3>3
    <3> QED
      BY <3>2, <3>3
  <2>5. Pending(j)' \/ ValueAccounted(j)'
    <3> SUFFICES ASSUME job[j].value = job[j].attempt, job[j].since = 0 => SkipsOf(log[j]) = {},
                        ~Counted(RunTally(<<j, job[j].attempt>>))', ~Pending(j)'
                 PROVE  \E x \in Handler : OwesValue(task'[x], j, job[j].since, job[j].attempt, log[j])
      BY <1>2 DEF ValueAccounted
    <3>1. ~Counted(RunTally(<<j, job[j].attempt>>))
      BY <1>2, <1>6, <2>3 DEF Counted
    <3>2. PICK x \in Handler : OwesValue(task[x], j, job[j].since, job[j].attempt, log[j])
      BY <2>1, <3>1 DEF ValueAccounted
    <3>3. CASE x = h
      BY <1>4, <1>5, <3>2, <3>3, ValueFollowed DEF Pending
    <3>4. CASE x # h
      BY <1>1, <3>2, <3>4
    <3> QED
      BY <3>3, <3>4
  <2>6. SkipAccounted(j)'
    <3> SUFFICES ASSUME job[j].attempt \in SkipsOf(log[j]) \ RunsOf(log[j]),
                        job[j].since = 0 => RunsOf(log[j]) = {}, ~Counted(JobTally("skipped", j))'
                 PROVE  \E x \in Handler : OwesSkip(task'[x], j, job[j].since, job[j].attempt, log[j])
      BY <1>2 DEF SkipAccounted
    <3>1. PICK x \in Handler : OwesSkip(task[x], j, job[j].since, job[j].attempt, log[j])
      BY <1>5, <1>6, <2>1, TallyType DEF SkipAccounted
    <3>2. CASE x = h
      BY <1>4, <1>5, <3>1, <3>2, SkipFollowed
    <3>3. CASE x # h
      BY <1>1, <3>1, <3>3
    <3> QED
      BY <3>2, <3>3
  <2>7. Pending(j)' \/ UnrecordedAccounted(j)'
    <3> SUFFICES ASSUME log[j] = <<>>, job[j].value = 0, ~Counted(JobTally("unrecorded", j))', ~Pending(j)'
                 PROVE  \E x \in Handler : OwesUnrecorded(task'[x], j)
      BY <1>2 DEF UnrecordedAccounted
    <3>1. PICK x \in Handler : OwesUnrecorded(task[x], j)
      BY <1>5, <1>6, <2>1, TallyType DEF UnrecordedAccounted
    <3>2. CASE x = h
      BY <1>5, <3>1, <3>2, UnrecordedFollowed DEF Pending
    <3>3. CASE x # h
      BY <1>1, <3>1, <3>3
    <3> QED
      BY <3>2, <3>3
  <2> QED
    BY <1>2, <1>10, <2>4, <2>5, <2>6, <2>7 DEF Accounted
<1> QED
  BY <1>4, <1>8, <1>9, <1>10 DEF AccountInv

LEMMA BeginAccounts ==
  ASSUME TypeOK, AccountInv, NEW h \in Handler, NEW r \in Replica, NEW k \in Job, OnEvent(h, r, k) \/ OnTimer(h, r, k)
  PROVE  AccountInv'
<1>1. \A x \in Handler \ {h} : task'[x] = task[x]
  BY OneHandlerMoves
<1>2. UNCHANGED <<job, log, late, counted>> /\ task[h] = Idle
  BY DEF OnEvent, OnTimer, worker
<1>3. task'[h].pc = "getJob" /\ task'[h].job = k /\ ~task'[h].fallback
  BY BeginTo DEF OnEvent, OnTimer
<1>4. SUFFICES ASSUME NEW j \in AgentJob, job[j].state = "done", j # k
               PROVE  Pending(j)' \/ Accounted(j)'
  BY <1>2, <1>3 DEF AccountInv, Pending
<1>5. j \in Job
  BY AgentMetricsAssumption DEF AgentMetricsAssumption
<1>6. \A p \in Replica : event'[p][j] = event[p][j] /\ timer'[p][j] = timer[p][j]
  <2>1. event \in [Replica -> [Job -> Nat]] /\ timer \in [Replica -> [Job -> Nat]]
    BY DEF TypeOK, PendingType
  <2>2. CASE event' = [event EXCEPT ![r][k] = @ - 1] /\ UNCHANGED timer
    BY <1>4, <1>5, <2>1, <2>2
  <2>3. CASE timer' = [timer EXCEPT ![r][k] = @ - 1] /\ UNCHANGED event
    BY <1>4, <1>5, <2>1, <2>3
  <2> QED
    BY <2>2, <2>3 DEF OnEvent, OnTimer
<1>7. Idle.pc \notin {"getJob", "getLogs"} \cup Past
  BY DEF Idle, Past, Writing
<1>8. CASE Pending(j)
  <2>1. \A x \in Handler : task[x].pc = "getJob" => task'[x] = task[x]
    BY <1>1, <1>2, <1>7
  <2> QED
    BY <1>6, <1>8, <2>1 DEF Pending
<1>9. CASE Accounted(j)
  <2>1. \A x \in Handler : task[x].pc \in {"getLogs"} \cup Past => task'[x] = task[x]
    BY <1>1, <1>2, <1>7
  <2>2. RunsAccounted(j) => RunsAccounted(j)'
    <3>1. \A x \in Handler : \A a : OwesRun(task[x], j, a) => OwesRun(task'[x], j, a)
      BY <2>1 DEF OwesRun, Past, Writing
    <3> QED
      BY <1>2, <3>1 DEF RunsAccounted, Counted
  <2>3. ValueAccounted(j) => ValueAccounted(j)'
    <3>1. \A x \in Handler : OwesValue(task[x], j, job[j].since, job[j].attempt, log[j]) =>
                               OwesValue(task'[x], j, job[j].since, job[j].attempt, log[j])
      BY <2>1 DEF OwesValue, Past, Writing
    <3> QED
      BY <1>2, <3>1 DEF ValueAccounted, Counted
  <2>4. SkipAccounted(j) => SkipAccounted(j)'
    <3>1. \A x \in Handler : OwesSkip(task[x], j, job[j].since, job[j].attempt, log[j]) =>
                               OwesSkip(task'[x], j, job[j].since, job[j].attempt, log[j])
      BY <2>1 DEF OwesSkip
    <3> QED
      BY <1>2, <3>1 DEF SkipAccounted, Counted
  <2>5. UnrecordedAccounted(j) => UnrecordedAccounted(j)'
    <3>1. \A x \in Handler : OwesUnrecorded(task[x], j) => OwesUnrecorded(task'[x], j)
      BY <2>1 DEF OwesUnrecorded, Past
    <3> QED
      BY <1>2, <3>1 DEF UnrecordedAccounted, Counted
  <2> QED
    BY <1>2, <1>9, <2>2, <2>3, <2>4, <2>5 DEF Accounted, Counted
<1> QED
  BY <1>4, <1>8, <1>9 DEF AccountInv

\* A late line of job j: one more run, that need not be counted.
LEMMA LateLineAccounts ==
  ASSUME TypeOK, NEW j \in Job, NEW a \in Attempt, LateLine(<<j, a>>), Pending(j) \/ Accounted(j)
  PROVE  Pending(j)' \/ Accounted(j)'
<1> DEFINE line == [kind |-> "run", attempt |-> a]
<1>1. UNCHANGED <<job, late, event, timer, task, counted>> /\ <<j, a>> \in late /\ job[j].kept
  BY DEF LateLine
<1>2. log[j] \in Seq(Line) /\ log'[j] = Append(log[j], line)
  BY DEF LateLine, TypeOK, WorkerType
<1>3. RunsOf(log'[j]) = RunsOf(log[j]) \cup {a} /\ SkipsOf(log'[j]) = SkipsOf(log[j]) /\ log'[j] # <<>>
  <2>1. line.kind = "run" /\ line.attempt = a
    OBVIOUS
  <2> HIDE DEF line
  <2> DEFINE p == Append(log[j], line)
             n == Len(log[j])
  <2>2. /\ n \in Nat /\ DOMAIN log[j] = 1 .. n /\ DOMAIN p = 1 .. n + 1
        /\ \A i \in 1 .. n : p[i] = log[j][i]
        /\ p[n + 1] = line
    BY <1>2
  <2>3. n + 1 \in DOMAIN p /\ \A i \in DOMAIN p : i \in DOMAIN log[j] \/ i = n + 1
    BY <2>2
  <2>4. DOMAIN log[j] \subseteq DOMAIN p
    BY <2>2
  <2> HIDE DEF p, n
  <2>5. \A x : x \in RunsOf(p) <=> x \in RunsOf(log[j]) \/ x = a
    BY <2>1, <2>2, <2>3, <2>4 DEF RunsOf, AttemptsOf
  <2>6. \A x : x \in SkipsOf(p) <=> x \in SkipsOf(log[j])
    BY <2>1, <2>2, <2>3, <2>4 DEF SkipsOf, AttemptsOf
  <2>7. p # <<>>
    BY <2>3
  <2> QED
    BY <1>2, <2>5, <2>6, <2>7 DEF p
<1>4. CASE Pending(j)
  BY <1>1, <1>4 DEF Pending
<1>5. CASE Accounted(j)
  <2>1. RunsAccounted(j) /\ ValueAccounted(j) /\ SkipAccounted(j)
    BY <1>1, <1>5 DEF Accounted
  <2>2. RunsAccounted(j)'
    BY <1>1, <1>3, <2>1 DEF RunsAccounted, Counted
  <2>3. \A x \in Handler : OwesValue(task[x], j, job[j].since, job[j].attempt, log[j]) =>
                             OwesValue(task[x], j, job[j].since, job[j].attempt, log'[j])
    BY <1>3 DEF OwesValue
  <2>4. \A x \in Handler : OwesSkip(task[x], j, job[j].since, job[j].attempt, log[j]) =>
                             OwesSkip(task[x], j, job[j].since, job[j].attempt, log'[j])
    BY <1>3 DEF OwesSkip
  <2>5. ValueAccounted(j)'
    BY <1>1, <1>3, <2>1, <2>3 DEF ValueAccounted, Counted
  <2>6. SkipAccounted(j)'
    <3> SUFFICES ASSUME job[j].attempt \in SkipsOf(log'[j]) \ RunsOf(log'[j]), job[j].since = 0 => RunsOf(log'[j]) = {}
                 PROVE  \/ Counted(JobTally("skipped", j))
                        \/ \E x \in Handler : OwesSkip(task[x], j, job[j].since, job[j].attempt, log'[j])
      BY <1>1 DEF SkipAccounted, Counted
    <3>1. job[j].attempt \in SkipsOf(log[j]) \ RunsOf(log[j]) /\ (job[j].since = 0 => RunsOf(log[j]) = {})
      BY <1>3
    <3> QED
      BY <2>1, <2>4, <3>1 DEF SkipAccounted
  <2>7. UnrecordedAccounted(j)'
    BY <1>3 DEF UnrecordedAccounted
  <2> QED
    BY <1>1, <2>2, <2>5, <2>6, <2>7 DEF Accounted
<1> QED
  BY <1>4, <1>5

LEMMA WorkerAccounts ==
  ASSUME TypeOK, AccountInv, Replica # {}, listening = Replica, Worker
  PROVE  AccountInv'
<1>1. UNCHANGED <<task, timer, counted>>
  BY DEF Worker, Start, End, LateLine, ManualRetry, Redeliver
<1>2. AgentJob \subseteq Job
  BY AgentMetricsAssumption DEF AgentMetricsAssumption
<1>3. \A r \in Replica, j \in Job : event[r][j] \in Nat
  BY DEF TypeOK, PendingType
\* What does not touch job j leaves it accounted for.
<1>4. ASSUME NEW j \in AgentJob, job'[j] = job[j], log'[j] = log[j], late \subseteq late',
             \A r \in Replica : event[r][j] > 0 => event'[r][j] > 0, job'[j].state = "done"
      PROVE  Pending(j)' \/ Accounted(j)'
  <2>1. CASE Pending(j)
    BY <1>1, <1>4, <2>1 DEF Pending
  <2>2. CASE Accounted(j)
    <3>1. RunsAccounted(j) => RunsAccounted(j)'
      BY <1>1, <1>4 DEF RunsAccounted, Counted
    <3>2. ValueAccounted(j) => ValueAccounted(j)'
      BY <1>1, <1>4 DEF ValueAccounted, Counted
    <3>3. SkipAccounted(j) => SkipAccounted(j)'
      BY <1>1, <1>4 DEF SkipAccounted, Counted
    <3>4. UnrecordedAccounted(j) => UnrecordedAccounted(j)'
      BY <1>1, <1>4 DEF UnrecordedAccounted, Counted
    <3> QED
      BY <1>1, <1>4, <2>2, <3>1, <3>2, <3>3, <3>4 DEF Accounted, Counted
  <2> QED
    BY <1>4, <2>1, <2>2 DEF AccountInv
<1>5. ASSUME NEW k \in Job, Start(k) \/ ManualRetry(k) PROVE AccountInv'
  <2>1. UNCHANGED <<log, late, event>> /\ \A j \in Job : j # k => job'[j] = job[j]
    BY <1>5 DEF Start, ManualRetry, TypeOK, WorkerType
  <2>2. job'[k].state # "done"
    BY <1>5 DEF Start, ManualRetry, TypeOK, WorkerType, JobHash
  <2> QED
    BY <1>2, <1>4, <2>1, <2>2 DEF AccountInv
<1>6. ASSUME NEW k \in Job, NEW record, NEW fate, End(k, record, fate) PROVE AccountInv'
  <2>1. /\ late \subseteq late'
        /\ \A j \in Job : j # k => job'[j] = job[j] /\ log'[j] = log[j]
    BY <1>6 DEF End, TypeOK, WorkerType
  <2>2. event' = [r \in Replica |-> [event[r] EXCEPT ![k] = IF fate # "retry" /\ r \in listening
                                                            THEN @ + 1 ELSE @]]
    BY <1>6 DEF End
  <2>3. \A r \in Replica : event[r] \in [Job -> Nat]
    BY DEF TypeOK, PendingType
  <2>4. \A r \in Replica, j \in Job : j # k => event'[r][j] = event[r][j]
    BY <2>2, <2>3
  <2>5. job'[k].state = "done" => Pending(k)'
    <3>1. job'[k].state = IF fate = "retry" THEN "waiting" ELSE "done"
      BY <1>6 DEF End, TypeOK, WorkerType, JobHash
    <3>2. ASSUME fate # "retry", NEW r \in Replica PROVE event'[r][k] > 0
      <4>1. event'[r][k] = event[r][k] + 1
        BY <2>2, <2>3, <3>2
      <4> QED
        BY <1>3, <4>1
    <3> QED
      BY <3>1, <3>2 DEF Pending
  <2> QED
    BY <1>2, <1>4, <2>1, <2>4, <2>5 DEF AccountInv
<1>7. ASSUME NEW run \in Run, LateLine(run) PROVE AccountInv'
  <2>1. PICK k \in Job, a \in Attempt : run = <<k, a>>
    BY DEF Run
  <2>2. UNCHANGED <<job, late, event>> /\ \A j \in Job : j # k => log'[j] = log[j]
    BY <1>7, <2>1 DEF LateLine, TypeOK, WorkerType
  <2>3. k \in AgentJob /\ job[k].state = "done" => Pending(k)' \/ Accounted(k)'
    BY <1>7, <2>1, LateLineAccounts DEF AccountInv
  <2> QED
    BY <1>2, <1>4, <2>2, <2>3 DEF AccountInv
<1>8. ASSUME NEW r \in Replica, NEW k \in Job, Redeliver(r, k) PROVE AccountInv'
  <2>1. UNCHANGED <<job, log, late>>
    BY <1>8 DEF Redeliver, worker
  <2>2. \A p \in Replica, j \in Job : event[p][j] > 0 => event'[p][j] > 0
    BY <1>3, <1>8 DEF Redeliver, TypeOK, PendingType
  <2> QED
    BY <1>2, <1>4, <2>1, <2>2 DEF AccountInv
<1> QED
  BY <1>5, <1>6, <1>7, <1>8 DEF Worker

LEMMA WorksCounts ==
  ASSUME TypeOK, IndexCounted, NEW h \in Handler, Works(h)
  PROVE  IndexCounted'
<1>1. \A t \in Tally : Counted(t) => Counted(t)'
  BY CountStays DEF Works, Monitor
<1>2. \A run \in Run : RunTally(run) \in Tally
  BY TallyType
<1>3. index \subseteq Run /\ index' \subseteq index \cup (IF Zadd(h) THEN {task[h].run} ELSE {})
  BY DEF TypeOK, IndexType, Works, GetJob, GetLogs, Zadd, Zrange, Multi, Decide, IndexEntry, redis
<1>4. \A run \in index : Counted(RunTally(run))'
  BY <1>1, <1>2, <1>3 DEF IndexCounted
<1>5. CASE Zadd(h)
  <2>1. task[h].run \in Run
    BY <1>5 DEF Zadd, TypeOK, TaskType
  <2>2. CASE IsNew(task[h].run) /\ Count(RunTally(task[h].run))
    <3>1. RunTally(task[h].run) \in Tally
      BY <1>2, <2>1
    <3>2. counted'[RunTally(task[h].run)] > 0
      BY <2>2, <3>1 DEF Count, TypeOK, HistoryType
    <3> QED
      BY <1>3, <1>4, <3>2 DEF IndexCounted, Counted
  <2>3. CASE ~IsNew(task[h].run) /\ UNCHANGED index
    BY <1>4, <2>3 DEF IndexCounted
  <2> QED
    BY <1>5, <2>2, <2>3 DEF Zadd, redis
<1> QED
  BY <1>3, <1>4, <1>5 DEF IndexCounted

\* A call fails, or a replica is stopped or dies.
Fault ==
  \/ \E h \in Handler : CallFails(h) \/ ReplyLost(h)
  \/ \E r \in Replica : Stop(r) \/ Crash(r)

LEMMA ClearAccounts ==
  ASSUME IndexCounted, AccountInv, ClearIndex \/ ClearData
  PROVE  IndexCounted' /\ AccountInv'
<1>1. UNCHANGED <<worker, event, task, timer, counted, listening>> /\ index' \subseteq index
  BY DEF ClearIndex, ClearData
<1>2. \A j : Pending(j) => Pending(j)'
  BY <1>1 DEF Pending
<1>3. \A j : Accounted(j) => Accounted(j)'
  BY <1>1 DEF worker, Accounted, RunsAccounted, ValueAccounted, SkipAccounted, UnrecordedAccounted, Counted
<1>4. IndexCounted'
  BY <1>1 DEF IndexCounted, Counted
<1> QED
  BY <1>1, <1>2, <1>3, <1>4 DEF worker, AccountInv

\* As long as no call fails and no replica is stopped or killed, whatever is cleared: once nothing is
\* left to do about a finished job, its last execution was counted, as a run, skipped, unrecorded or
\* lost.  Whatever was read of the job earlier, the events of its last end make some handler read it
\* as it is then, and what a handler has read of it is not out of date.
THEOREM SettledJobAccountedHolds ==
  ASSUME Replica # {}
  PROVE  Spec /\ [][~Fault]_vars => []SettledJobAccounted
<1> DEFINE Calm == listening = Replica /\ IndexCounted
           Inv == TypeOK /\ RecordInv
<1>1. Init => Calm /\ AccountInv
  <2>1. Init => \A j \in AgentJob : job[j].state # "done"
    BY AgentMetricsAssumption DEF AgentMetricsAssumption, Init
  <2> QED
    BY <2>1 DEF Init, AccountInv, IndexCounted
<1>2. Inv /\ Calm /\ AccountInv /\ [Next]_vars /\ [~Fault]_vars => (Calm /\ AccountInv)'
  <2> SUFFICES ASSUME Inv, Calm, AccountInv, [Next]_vars, [~Fault]_vars PROVE (Calm /\ AccountInv)'
    OBVIOUS
  <2>1. CASE Worker
    <3>1. UNCHANGED <<listening, index, counted>>
      BY <2>1 DEF Worker, Start, End, LateLine, ManualRetry, Redeliver, redis
    <3> QED
      BY <2>1, <3>1, WorkerAccounts DEF IndexCounted, Counted
  <2>2. CASE Monitor
    <3>1. UNCHANGED listening
      BY <2>2 DEF Monitor, OnEvent, OnTimer, GetJob, GetLogs, Zadd, Zrange, Multi, Decide
    <3>2. CASE \E h \in Handler : Works(h)
      BY <3>1, <3>2, WorksAccounts, WorksCounts
    <3>3. ASSUME NEW h \in Handler, NEW r \in Replica, NEW j \in Job, OnEvent(h, r, j) \/ OnTimer(h, r, j)
          PROVE  (Calm /\ AccountInv)'
      <4>1. UNCHANGED <<index, counted>>
        BY <3>3 DEF OnEvent, OnTimer, redis
      <4> QED
        BY <3>1, <3>3, <4>1, BeginAccounts DEF IndexCounted, Counted
    <3> QED
      BY <2>2, <3>2, <3>3 DEF Monitor, Works
  <2>3. CASE UNCHANGED vars
    <3>1. \A j : Pending(j) => Pending(j)'
      BY <2>3 DEF vars, Pending
    <3>2. \A j : Accounted(j) => Accounted(j)'
      BY <2>3 DEF vars, Accounted, RunsAccounted, ValueAccounted, SkipAccounted, UnrecordedAccounted, Counted
    <3> QED
      BY <2>3, <3>1, <3>2 DEF vars, redis, AccountInv, IndexCounted, Counted
  <2>4. CASE Environment /\ ~Fault
    <3>1. \A r \in Replica : ~StartCollecting(r)
      BY DEF StartCollecting
    <3>2. ClearIndex \/ ClearData
      BY <2>4, <3>1 DEF Environment, Fault
    <3> QED
      BY <3>2, ClearAccounts DEF ClearIndex, ClearData
  <2> QED
    BY <2>1, <2>2, <2>3, <2>4 DEF Next
<1>3. Inv /\ AccountInv => SettledJobAccounted
  <2> SUFFICES ASSUME Inv, AccountInv, NEW j \in AgentJob, job[j].state = "done", Settled(j)
               PROVE  IF ~job[j].kept THEN Counted(JobTally("lost", j))
                      ELSE /\ \A a \in RunsOf(log[j]) : <<j, a>> \in late \/ Counted(RunTally(<<j, a>>))
                           /\ job[j].value = job[j].attempt /\ (~(job[j].since > 0) => SkipsOf(log[j]) = {}) =>
                                Counted(RunTally(<<j, job[j].attempt>>))
                           /\ job[j].attempt \in SkipsOf(log[j]) \ RunsOf(log[j])
                                /\ (~(job[j].since > 0) => RunsOf(log[j]) = {}) =>
                                Counted(JobTally("skipped", j))
                           /\ RunsOf(log[j]) \cup SkipsOf(log[j]) = {} /\ job[j].value = 0 =>
                                Counted(JobTally("unrecorded", j))
    BY DEF SettledJobAccounted, RunsOf, SkipsOf, Counted
  <2>1. j \in Job /\ job[j].since \in Nat
    BY AgentMetricsAssumption, Bounds DEF AgentMetricsAssumption, TypeOK, WorkerType, JobHash
  <2>2. \A h \in Handler : task[h].pc \in {"getJob", "getLogs"} \cup Past => task[h].job # j
    BY DEF Settled, Idle, Past, Writing
  <2>3. ~Pending(j)
    BY <2>2 DEF Settled, Pending
  <2>4. Accounted(j)
    BY <2>3 DEF AccountInv
  <2>5. ASSUME NEW h \in Handler
        PROVE  /\ \A a : ~OwesRun(task[h], j, a)
               /\ \A since, last, lines : ~OwesValue(task[h], j, since, last, lines)
               /\ \A since, last, lines : ~OwesSkip(task[h], j, since, last, lines)
               /\ ~OwesUnrecorded(task[h], j)
    BY <2>2 DEF OwesRun, OwesValue, OwesSkip, OwesUnrecorded, Past, Writing
  <2>6. job[j].since = 0 => ~(job[j].since > 0)
    BY <2>1
  <2>7. RunsOf(log[j]) \cup SkipsOf(log[j]) = {} => log[j] = <<>>
    <3>1. log[j] \in Seq(Line)
      BY <2>1 DEF TypeOK, WorkerType
    <3>2. \A i \in 1 .. Len(log[j]) : log[j][i].attempt \in RunsOf(log[j]) \cup SkipsOf(log[j])
      <4> SUFFICES ASSUME NEW i \in 1 .. Len(log[j])
                   PROVE  log[j][i].attempt \in RunsOf(log[j]) \cup SkipsOf(log[j])
        OBVIOUS
      <4>1. i \in DOMAIN log[j] /\ log[j][i] \in Line
        BY <3>1
      <4>2. log[j][i].kind = "run" \/ log[j][i].kind = "skip"
        BY <4>1 DEF Line
      <4> QED
        BY <4>1, <4>2 DEF RunsOf, SkipsOf, AttemptsOf
    <3>3. log[j] # <<>> => 1 \in 1 .. Len(log[j])
      BY <3>1
    <3> QED
      BY <3>2, <3>3
  <2> QED
    BY <2>4, <2>5, <2>6, <2>7 DEF Accounted, RunsAccounted, ValueAccounted, SkipAccounted, UnrecordedAccounted
<1> QED
  BY <1>1, <1>2, <1>3, TypeCorrect, RecordsHold, PTL DEF Spec
=============================================================================
