----------------------------- MODULE AgentRecorder -----------------------------
(***************************************************************************)
(* The recorder a worker keeps of one attempt of an agent job              *)
(* (packages/root/src/agent/recorder.ts), and the number that attempt has  *)
(* for the worker and for the monitor (packages/root/src/shared/attempt.ts)*)
(*                                                                         *)
(* The recorder is synchronous code that calls the application back: the   *)
(* clock, the event listener, the error listener.  Any of them may throw   *)
(* and any may call the recorder again, so a call is a frame of a stack,   *)
(* and stands at a callback while calls made from it run above it.  What   *)
(* job.log answers, and the timer against it, come between calls only.     *)
(*                                                                         *)
(* Abstracted: a line is its kind, its attempt and the call that wrote it; *)
(* that job.log failed or not is the same to the recorder.  The steps and  *)
(* tools of the run, and the cutting of a line to its size, are left out.  *)
(***************************************************************************)
EXTENDS Integers, Sequences, FiniteSets

CONSTANTS
  Libraries,    \* the libraries a job may belong to
  Reentrant,    \* callbacks from which the application calls the recorder again
  Throwing,     \* what may throw
  MaxCalls,     \* bound: calls of the recorders
  MaxDepth,     \* bound: calls under way at a time
  MaxActive,    \* bound: activations of the job
  MaxThrows     \* bound: exceptions

ASSUME AgentRecorderAssumption ==
  /\ Libraries \subseteq {"bull", "bullmq4", "bullmq5"}
  /\ Reentrant \subseteq {"clock", "event", "report"}
  /\ Throwing \subseteq {"create", "clock", "build", "assign", "event", "format", "skeleton", "log"}
  /\ {MaxCalls, MaxDepth, MaxActive, MaxThrows} \subseteq Nat

VARIABLES
  job,      \* library, status, attemptsMade, attemptsStarted; activations, and a stall if any
  rec,      \* the recorder of the latest attempt
  stack,    \* its calls under way, the innermost last
  writes,   \* every call of job.log, in order
  calls, throws  \* what is left of the bounds

vars == <<job, rec, stack, writes, calls, throws>>

Closers == {"finish", "fail", "skip"}

-----------------------------------------------------------------------------
(* The numbers of attempts *)

\* The definitions marked WRONG are bugs this code could have had: each is put in place of the
\* definition after it to see that a property notices.

AtLeastOne(n) == IF n >= 1 THEN n ELSE 1

\* WRONG: attemptsMade of a BullMQ job taken for that of a Bull job.
CurrentAttemptAsBull(j) == IF j.started >= 1 THEN j.started ELSE AtLeastOne(j.made + 1)

\* WRONG: attempts counted from 0.
CurrentAttemptFromZero(j) ==
  IF j.started >= 1 THEN j.started ELSE j.made

\* currentAttempt: the attempt running now, for the worker.
CurrentAttempt(j) ==
  IF j.started >= 1 THEN j.started
  ELSE AtLeastOne(IF j.library = "bull" THEN j.made + 1 ELSE j.made)

\* terminalAttempts: the attempt that ended, for the monitor.
TerminalAttempts(j) ==
  AtLeastOne(IF j.library = "bull"
             THEN IF j.status = "completed" THEN j.made + 1 ELSE j.made
             ELSE IF j.started >= 1 THEN j.started ELSE j.made)

-----------------------------------------------------------------------------
(* The stack of calls *)

Top == stack[Len(stack)]
At(pc) == stack # <<>> /\ Top.pc = pc
Pop == SubSeq(stack, 1, Len(stack) - 1)
Goto(pc) == stack' = [stack EXCEPT ![Len(stack)].pc = pc]
Push(frame) == stack' = Append(stack, frame)

\* A call comes from the application's own code, or from a callback.
Callable ==
  /\ job.status = "active" /\ ~rec.noop /\ calls > 0
  /\ stack # <<>> => Len(stack) < MaxDepth /\ Top.pc \in Reentrant

Call == Callable /\ calls' = calls - 1

\* Something throws, and the error listener is called; the call goes on at next.
Throw(what, next) ==
  /\ what \in Throwing /\ throws > 0
  /\ throws' = throws - 1
  /\ stack' = [stack EXCEPT ![Len(stack)].pc = "report", ![Len(stack)].next = next]

Frame(op, pc) == [op |-> op, pc |-> pc, next |-> "return"]

-----------------------------------------------------------------------------
(* The calls *)

\* WRONG: a call in progress does not keep others out.
ClosableAgain == ~rec.closed

\* The recorder takes a finish, a fail or a skip.
Closable == ~rec.closed /\ ~rec.closing

\* finish and fail: the recorder is closing from here to the end of the call.
Close(op) ==
  /\ Call
  /\ IF Closable
     THEN /\ rec' = [rec EXCEPT !.closing = TRUE, !.first = IF @ = "none" THEN op ELSE @]
          /\ Push(Frame(op, "clock"))
     ELSE UNCHANGED <<rec, stack>>
  /\ UNCHANGED <<job, writes, throws>>

\* skip: nothing keeps others out before the line is made.
Skip ==
  /\ Call
  /\ IF Closable
     THEN /\ rec' = [rec EXCEPT !.first = IF @ = "none" THEN "skip" ELSE @]
          /\ Push(Frame("skip", "clock"))
     ELSE UNCHANGED <<rec, stack>>
  /\ UNCHANGED <<job, writes, throws>>

\* A line handed to job.log, which may throw at once: then it never lands.
Line(kind) ==
  [kind |-> kind, by |-> Top.op, attempt |-> rec.attempt, owner |-> job.active,
   log |-> "sent", call |-> "pending"]

Write(line) ==
  \/ /\ writes' = Append(writes, line)
     /\ Goto("return")
     /\ UNCHANGED throws
  \/ /\ Throw("log", "return")
     /\ writes' = Append(writes, [line EXCEPT !.log = "settled", !.call = "resolved"])

\* note: a text that looks like a line of the recorder is dropped, any other is written.
Note ==
  /\ Call
  /\ Push(Frame("note", "row"))
  /\ UNCHANGED <<job, rec, writes, throws>>

-----------------------------------------------------------------------------
(* What a call does between its callbacks *)

\* The clock answers, or throws and the system's is used.
Clock ==
  LET next == IF Top.op = "skip" THEN "row" ELSE "build"
  IN  /\ At("clock")
      /\ \/ Goto(next) /\ UNCHANGED throws
         \/ Throw("clock", next)
      /\ UNCHANGED <<job, rec, writes, calls>>

\* The error listener returns.
Reported ==
  /\ At("report")
  /\ Goto(Top.next)
  /\ UNCHANGED <<job, rec, writes, calls, throws>>

\* _close builds the end of the run: it may throw half-way, and then there is no event, or throw
\* where the run itself is written, and then there is no line.
Build ==
  /\ At("build")
  /\ \/ Goto("event") /\ UNCHANGED throws
     \/ Throw("build", "line")
     \/ Throw("assign", "return")
  /\ UNCHANGED <<job, rec, writes, calls>>

\* The listener returns, or throws.
Event ==
  /\ At("event")
  /\ \/ Goto("line") /\ UNCHANGED throws
     \/ Throw("event", "line")
  /\ UNCHANGED <<job, rec, writes, calls>>

Closed(r) == [r EXCEPT !.closed = TRUE]

\* The line closes the recorder and is written.
WriteRun ==
  /\ Write(Line("run"))
  /\ rec' = Closed(rec)

\* _line: the run, or else the skeleton of it, or else nothing.
FormatRun ==
  /\ At("line")
  /\ \/ WriteRun
     \/ Throw("format", "skeleton") /\ UNCHANGED <<rec, writes>>
  /\ UNCHANGED <<job, calls>>

FormatSkeleton ==
  /\ At("skeleton")
  /\ \/ WriteRun
     \/ Throw("skeleton", "return") /\ UNCHANGED <<rec, writes>>
  /\ UNCHANGED <<job, calls>>

\* skip and note write their line.
WriteRow ==
  /\ At("row")
  /\ Write(Line(IF Top.op = "skip" THEN "skip" ELSE "note"))
  /\ rec' = IF Top.op = "skip" THEN Closed(rec) ELSE rec
  /\ UNCHANGED <<job, calls>>

\* finally, in _close: a close that made no line leaves the recorder open for another.
NotClosing(r) == [r EXCEPT !.closing = FALSE, !.first = IF r.closed THEN @ ELSE "none"]

Return ==
  /\ At("return")
  /\ stack' = Pop
  /\ rec' = IF Top.op \in {"finish", "fail"} THEN NotClosing(rec) ELSE rec
  /\ UNCHANGED <<job, writes, calls, throws>>

-----------------------------------------------------------------------------
(* Between calls: what job.log does, and the timer *)

\* The line lands or fails, which the process sees between calls only.
Land(i) ==
  /\ stack = <<>> /\ writes[i].log = "sent"
  /\ writes' = [writes EXCEPT ![i].log = "settled"]
  /\ UNCHANGED <<job, rec, stack, calls, throws>>

Answered(w) == w.call = "pending" /\ w.log # "sent"

\* job.log settled: the call resolves.
Settle(i) ==
  /\ stack = <<>> /\ Answered(writes[i])
  /\ writes' = [writes EXCEPT ![i].call = "resolved"]
  /\ UNCHANGED <<job, rec, stack, calls, throws>>

\* WRONG: only a line that was answered is waited for no longer.
OverdueAnswered(w) == w.call = "pending" /\ w.log # "sent"

Overdue(w) == w.call = "pending"

\* writeTimeoutMs went by: the call resolves, and the line may land later.
Timeout(i) ==
  /\ stack = <<>> /\ Overdue(writes[i])
  /\ writes' = [writes EXCEPT ![i].call = "timedout"]
  /\ UNCHANGED <<job, rec, stack, calls, throws>>

-----------------------------------------------------------------------------
(* The job, as the libraries run it *)

NewRecorder(attempt, noop) ==
  [attempt |-> attempt, noop |-> noop, closed |-> FALSE, closing |-> FALSE, first |-> "none"]

\* createAgentRun: when even the recorder cannot be made, one that does nothing.
NewAttempt(j) ==
  \/ rec' = NewRecorder(CurrentAttempt(j), FALSE) /\ UNCHANGED throws
  \/ /\ "create" \in Throwing /\ throws > 0
     /\ rec' = NewRecorder(1, TRUE)
     /\ throws' = throws - 1

\* The job becomes active, and its processor creates a recorder.
Activate ==
  /\ job.status = "waiting" /\ job.active < MaxActive
  /\ job' = [job EXCEPT !.status = "active", !.active = @ + 1,
                        !.made = IF job.library = "bullmq4" THEN @ + 1 ELSE @,
                        !.started = IF job.library = "bullmq5" THEN @ + 1 ELSE @]
  /\ NewAttempt(job')
  /\ UNCHANGED <<stack, writes, calls>>

\* The attempt ends: the job is complete, or failed, or goes back to be retried.
End(status) ==
  /\ job.status = "active" /\ stack = <<>>
  /\ job' = [job EXCEPT !.status = status,
                        !.made = IF status = "completed" \/ job.library = "bullmq4" THEN @ ELSE @ + 1]
  /\ UNCHANGED <<rec, stack, writes, calls, throws>>

\* The worker loses the job, which is put back without having failed, or failed as one that
\* stalled too often: neither counts an attempt.
Stall(status) ==
  /\ job.status = "active" /\ stack = <<>>
  /\ job' = [job EXCEPT !.status = status, !.stalled = TRUE]
  /\ UNCHANGED <<rec, stack, writes, calls, throws>>

\* A failed job is retried from the dashboard.
ManualRetry ==
  /\ job.status \in {"failed", "stalledOut"}
  /\ job' = [job EXCEPT !.status = "waiting"]
  /\ UNCHANGED <<rec, stack, writes, calls, throws>>

-----------------------------------------------------------------------------

Init ==
  /\ \E library \in Libraries :
       job = [library |-> library, status |-> "waiting", made |-> 0, started |-> 0,
              active |-> 0, stalled |-> FALSE]
  /\ rec = NewRecorder(1, TRUE)
  /\ stack = <<>> /\ writes = <<>>
  /\ calls = MaxCalls /\ throws = MaxThrows

\* A step of the call on top of the stack.
Step ==
  Clock \/ Reported \/ Build \/ Event \/ FormatRun \/ FormatSkeleton \/ WriteRow \/ Return

Next ==
  \/ \E op \in {"finish", "fail"} : Close(op)
  \/ Skip \/ Note
  \/ Step
  \/ \E i \in DOMAIN writes : Land(i) \/ Settle(i) \/ Timeout(i)
  \/ Activate \/ ManualRetry
  \/ \E status \in {"waiting", "stalledOut"} : Stall(status)
  \/ \E status \in {"completed", "failed", "waiting"} : End(status)

Spec == Init /\ [][Next]_vars

\* Synchronous code goes on, and timers fire.
FairSpec ==
  /\ Spec
  /\ WF_vars(Step)
  /\ WF_vars(\E i \in DOMAIN writes : Timeout(i))

-----------------------------------------------------------------------------
(* Properties *)

Ops == Closers \cup {"note"}

FrameType ==
  [op : Ops, pc : {"clock", "report", "build", "event", "line", "skeleton", "row", "return"},
   next : {"build", "event", "line", "skeleton", "row", "return"}]

Status == {"waiting", "active", "completed", "failed", "stalledOut"}

LineType ==
  [kind : {"run", "skip", "note"}, by : Ops, attempt : Nat \ {0}, owner : Nat, log : {"sent", "settled"},
   call : {"pending", "resolved", "timedout"}]

\* The types of the job, of its recorder and the calls of it, and of what it wrote: attempts are
\* numbered from 1.
TypeOK ==
  /\ job \in [library : Libraries, status : Status,
              made : Nat, started : Nat, active : Nat, stalled : BOOLEAN]
  /\ rec \in [attempt : Nat \ {0}, noop : BOOLEAN, closed : BOOLEAN, closing : BOOLEAN,
              first : Closers \cup {"none"}]
  /\ stack \in Seq(FrameType) /\ writes \in Seq(LineType)
  /\ calls \in Nat /\ throws \in Nat

ClosingLines(owner) == {i \in DOMAIN writes : writes[i].owner = owner /\ writes[i].kind # "note"}

Closing == {i \in DOMAIN stack : stack[i].op \in {"finish", "fail"}}

\* First of finish, fail and skip wins: an attempt has a closing line just when its recorder is
\* closed, one only, and of the call that came first, whatever the listeners call and throw.  A
\* close that made no line leaves the recorder open: it is closing only while a call closes it.
OneClosingLine ==
  /\ \A owner \in 1 .. job.active : \A i, k \in ClosingLines(owner) : i = k
  /\ rec.closed <=> ClosingLines(job.active) # {}
  /\ \A i \in ClosingLines(job.active) : writes[i].by = rec.first
  /\ rec.closing <=> Closing # {}

\* When the job ends, the monitor's number of the attempt is the one its worker wrote, and the
\* lines of that number are those of the last attempt (currentAttempt and terminalAttempts).
\* Stalls are not attempts to Bull: the attempt after one has the number of the one that stalled,
\* and a job failed for its stalls the number of the attempt that failed before.
LinesOfLastAttempt ==
  job.status \notin {"waiting", "active"} =>
    /\ ~rec.noop /\ rec.attempt # TerminalAttempts(job) =>
         job.library = "bull" /\ job.status = "stalledOut"
    /\ \A i \in DOMAIN writes :
         writes[i].attempt = TerminalAttempts(job) /\ writes[i].owner # job.active =>
           job.library = "bull" /\ job.stalled

Pending == {i \in DOMAIN writes : writes[i].call = "pending"}

\* Every call resolves, even when job.log never answers: a worker does not hang on its log.
CallsResolve == Pending # {} ~> Pending = {}
=============================================================================
