------------------------- MODULE AgentRecorder_proofs -------------------------
(* Theorems about the recorder of an attempt, for any libraries and bounds. *)
EXTENDS AgentRecorder, SequenceTheorems, TLAPS

JobType == [library : Libraries, status : Status,
            made : Nat, started : Nat, active : Nat, stalled : BOOLEAN]

RecorderType == [attempt : Nat \ {0}, noop : BOOLEAN, closed : BOOLEAN, closing : BOOLEAN,
                 first : Closers \cup {"none"}]

LEMMA BoundsType == MaxCalls \in Nat /\ MaxThrows \in Nat
  BY AgentRecorderAssumption DEF AgentRecorderAssumption

LEMMA TypeParts ==
  TypeOK <=> /\ job \in JobType /\ rec \in RecorderType
             /\ stack \in Seq(FrameType) /\ writes \in Seq(LineType)
             /\ calls \in Nat /\ throws \in Nat
  BY DEF TypeOK, JobType, RecorderType

-----------------------------------------------------------------------------
(* What a step does to the stack *)

\* The top frame becomes f.
TopTo(f) == stack # <<>> /\ stack' = [stack EXCEPT ![Len(stack)] = f]

LEMMA TopType ==
  ASSUME stack \in Seq(FrameType), stack # <<>>
  PROVE  /\ Len(stack) \in Nat \ {0} /\ DOMAIN stack = 1 .. Len(stack)
         /\ Len(stack) \in DOMAIN stack
         /\ Top = stack[Len(stack)] /\ Top \in FrameType
<1>1. Len(stack) \in Nat \ {0} /\ DOMAIN stack = 1 .. Len(stack)
  BY LenProperties, EmptySeq
<1>2. Len(stack) \in 1 .. Len(stack)
  BY <1>1
<1> QED
  BY <1>1, <1>2, ElementOfSeq DEF Top

LEMMA TopToStack ==
  ASSUME stack \in Seq(FrameType), NEW f \in FrameType, TopTo(f)
  PROVE  /\ stack' \in Seq(FrameType) /\ Len(stack') = Len(stack) /\ DOMAIN stack' = DOMAIN stack
         /\ stack'[Len(stack)] = f
         /\ \A i \in DOMAIN stack : i # Len(stack) => stack'[i] = stack[i]
         /\ stack' # <<>>
<1>1. Len(stack) \in 1 .. Len(stack) /\ DOMAIN stack = 1 .. Len(stack)
  BY TopType DEF TopTo
<1>2. stack' \in Seq(FrameType) /\ Len(stack') = Len(stack)
  BY <1>1, ExceptSeq DEF TopTo
<1>3. DOMAIN stack' = DOMAIN stack
  BY <1>1, <1>2, LenProperties
<1>4. stack'[Len(stack)] = f /\ \A i \in DOMAIN stack : i # Len(stack) => stack'[i] = stack[i]
  BY <1>1 DEF TopTo
<1>5. stack' # <<>>
  BY <1>1, <1>2, EmptySeq
<1> QED
  BY <1>2, <1>3, <1>4, <1>5

LEMMA PushStack ==
  ASSUME stack \in Seq(FrameType), NEW f \in FrameType, Push(f)
  PROVE  /\ stack' \in Seq(FrameType) /\ Len(stack) \in Nat /\ Len(stack') = Len(stack) + 1
         /\ DOMAIN stack = 1 .. Len(stack) /\ DOMAIN stack' = 1 .. Len(stack) + 1
         /\ stack'[Len(stack) + 1] = f
         /\ \A i \in DOMAIN stack : stack'[i] = stack[i]
  BY AppendProperties, LenProperties DEF Push

LEMMA PopStack ==
  ASSUME stack \in Seq(FrameType), stack # <<>>, stack' = Pop
  PROVE  /\ stack' \in Seq(FrameType) /\ Len(stack') = Len(stack) - 1
         /\ DOMAIN stack' = 1 .. Len(stack) - 1 /\ DOMAIN stack = 1 .. Len(stack)
         /\ \A i \in DOMAIN stack' : i \in DOMAIN stack /\ stack'[i] = stack[i]
<1>1. Len(stack) \in Nat \ {0} /\ DOMAIN stack = 1 .. Len(stack)
  BY TopType
<1>2. \A i \in 1 .. Len(stack) - 1 : stack[i] \in FrameType
  BY <1>1, ElementOfSeq
<1>3. /\ stack' \in Seq(FrameType) /\ Len(stack') = Len(stack) - 1
      /\ \A i \in 1 .. Len(stack) - 1 : stack'[i] = stack[i]
  BY <1>1, <1>2, SubSeqProperties DEF Pop
<1>4. DOMAIN stack' = 1 .. Len(stack) - 1
  BY <1>3, LenProperties
<1> QED
  BY <1>1, <1>3, <1>4

\* A frame goes to another place, or to the error listener.
LEMMA GotoTop ==
  ASSUME stack \in Seq(FrameType), stack # <<>>, NEW pc, Goto(pc),
         pc \in {"clock", "report", "build", "event", "line", "skeleton", "row", "return"}
  PROVE  \E f \in FrameType : TopTo(f) /\ f.op = Top.op /\ f.pc = pc
<1> DEFINE f == [Top EXCEPT !.pc = pc]
<1>1. Top \in FrameType /\ Len(stack) \in DOMAIN stack /\ Top = stack[Len(stack)]
  BY TopType
<1>2. f \in FrameType /\ f.op = Top.op /\ f.pc = pc
  BY <1>1 DEF FrameType
<1>3. TopTo(f)
  BY <1>1 DEF Goto, TopTo
<1> HIDE DEF f
<1> QED
  BY <1>2, <1>3

LEMMA ThrowTop ==
  ASSUME stack \in Seq(FrameType), stack # <<>>, throws \in Nat, NEW what, NEW next,
         Throw(what, next), next \in {"build", "event", "line", "skeleton", "row", "return"}
  PROVE  /\ \E f \in FrameType : TopTo(f) /\ f.op = Top.op /\ f.pc = "report" /\ f.next = next
         /\ what \in Throwing /\ throws' \in Nat
<1> DEFINE g == [Top EXCEPT !.pc = "report"]
           f == [g EXCEPT !.next = next]
<1>1. Top \in FrameType /\ Len(stack) \in DOMAIN stack /\ Top = stack[Len(stack)]
  BY TopType
<1>2. g \in FrameType /\ g.op = Top.op /\ g.pc = "report"
  BY <1>1 DEF FrameType
<1>3. f \in FrameType /\ f.op = g.op /\ f.pc = g.pc /\ f.next = next
  BY <1>2 DEF FrameType
<1>4. TopTo(f)
  <2>1. stack' = [stack EXCEPT ![Len(stack)] = [[Top EXCEPT !.pc = "report"] EXCEPT !.next = next]]
    BY <1>1 DEF Throw
  <2> QED
    BY <2>1 DEF TopTo
<1>5. what \in Throwing /\ throws' \in Nat
  BY DEF Throw
<1> HIDE DEF f
<1> QED
  BY <1>2, <1>3, <1>4, <1>5

-----------------------------------------------------------------------------
(* What a step does to the lines and to the recorder *)

\* A line of the call on top is written.
Appended(kind) ==
  \E line \in LineType :
    /\ writes' = Append(writes, line)
    /\ line.kind = kind /\ line.by = Top.op
    /\ line.owner = job.active /\ line.attempt = rec.attempt

LEMMA LineFields ==
  ASSUME rec \in RecorderType, job \in JobType, stack \in Seq(FrameType), stack # <<>>,
         NEW kind \in {"run", "skip", "note"}
  PROVE  /\ Line(kind) \in LineType
         /\ Line(kind).kind = kind /\ Line(kind).by = Top.op
         /\ Line(kind).owner = job.active /\ Line(kind).attempt = rec.attempt
<1>1. Top.op \in Ops
  BY TopType DEF FrameType
<1>2. rec.attempt \in Nat \ {0} /\ job.active \in Nat
  BY DEF RecorderType, JobType
<1> QED
  BY <1>1, <1>2 DEF Line, LineType

LEMMA WriteAppends ==
  ASSUME rec \in RecorderType, job \in JobType, stack \in Seq(FrameType), stack # <<>>, throws \in Nat,
         NEW kind \in {"run", "skip", "note"}, Write(Line(kind))
  PROVE  /\ Appended(kind) /\ throws' \in Nat
         /\ \E f \in FrameType : /\ TopTo(f) /\ f.op = Top.op
                                 /\ f.pc = "return" \/ (f.pc = "report" /\ f.next = "return")
<1> DEFINE line == Line(kind)
<1>1. /\ line \in LineType /\ line.kind = kind /\ line.by = Top.op
      /\ line.owner = job.active /\ line.attempt = rec.attempt
  BY LineFields
<1> HIDE DEF line
<1>2. CASE writes' = Append(writes, line) /\ Goto("return") /\ UNCHANGED throws
  <2>1. Appended(kind)
    BY <1>1, <1>2 DEF Appended
  <2>2. \E f \in FrameType : TopTo(f) /\ f.op = Top.op /\ f.pc = "return"
    BY <1>2, GotoTop
  <2> QED
    BY <1>2, <2>1, <2>2
<1>3. CASE /\ Throw("log", "return")
           /\ writes' = Append(writes, [line EXCEPT !.log = "settled", !.call = "resolved"])
  <2> DEFINE m == [line EXCEPT !.log = "settled"]
             n == [m EXCEPT !.call = "resolved"]
  <2>1. /\ m \in LineType /\ m.kind = line.kind /\ m.by = line.by /\ m.owner = line.owner
        /\ m.attempt = line.attempt
    BY <1>1 DEF LineType
  <2>2. /\ n \in LineType /\ n.kind = m.kind /\ n.by = m.by /\ n.owner = m.owner
        /\ n.attempt = m.attempt
    BY <2>1 DEF LineType
  <2>3. writes' = Append(writes, n)
    BY <1>3
  <2> HIDE DEF n
  <2>4. Appended(kind)
    BY <1>1, <2>1, <2>2, <2>3 DEF Appended
  <2>5. /\ \E f \in FrameType : TopTo(f) /\ f.op = Top.op /\ f.pc = "report" /\ f.next = "return"
        /\ throws' \in Nat
    BY <1>3, ThrowTop
  <2> QED
    BY <2>4, <2>5
<1> QED
  BY <1>2, <1>3 DEF Write, line

\* A line after those there were.
LEMMA AppendedLines ==
  ASSUME writes \in Seq(LineType), NEW kind, Appended(kind)
  PROVE  /\ writes' \in Seq(LineType) /\ Len(writes) \in Nat
         /\ DOMAIN writes = 1 .. Len(writes) /\ DOMAIN writes' = 1 .. Len(writes) + 1
         /\ \A i \in DOMAIN writes : writes'[i] = writes[i]
         /\ writes'[Len(writes) + 1].kind = kind /\ writes'[Len(writes) + 1].by = Top.op
         /\ writes'[Len(writes) + 1].owner = job.active
         /\ writes'[Len(writes) + 1].attempt = rec.attempt
<1>1. PICK line \in LineType : /\ writes' = Append(writes, line) /\ line.kind = kind
                               /\ line.by = Top.op /\ line.owner = job.active
                               /\ line.attempt = rec.attempt
  BY DEF Appended
<1> QED
  BY <1>1, AppendProperties, LenProperties

\* The lines are those there were, whatever became of them.
SameLines ==
  /\ writes' \in Seq(LineType) /\ DOMAIN writes' = DOMAIN writes
  /\ \A i \in DOMAIN writes : /\ writes'[i].kind = writes[i].kind
                              /\ writes'[i].by = writes[i].by
                              /\ writes'[i].owner = writes[i].owner
                              /\ writes'[i].attempt = writes[i].attempt

LEMMA UpdatedLine ==
  ASSUME writes \in Seq(LineType), NEW i \in DOMAIN writes, Land(i) \/ Settle(i) \/ Timeout(i)
  PROVE  SameLines
<1>1. DOMAIN writes = 1 .. Len(writes) /\ writes[i] \in LineType
  BY LenProperties, ElementOfSeq
<1>2. PICK line \in LineType : /\ writes' = [writes EXCEPT ![i] = line]
                               /\ line.kind = writes[i].kind /\ line.by = writes[i].by
                               /\ line.owner = writes[i].owner /\ line.attempt = writes[i].attempt
  <2>1. ASSUME NEW w \in LineType
        PROVE  /\ LET l == [w EXCEPT !.log = "settled"]
                  IN  /\ l \in LineType /\ l.kind = w.kind /\ l.by = w.by /\ l.owner = w.owner
                      /\ l.attempt = w.attempt
               /\ LET l == [w EXCEPT !.call = "resolved"]
                  IN  /\ l \in LineType /\ l.kind = w.kind /\ l.by = w.by /\ l.owner = w.owner
                      /\ l.attempt = w.attempt
               /\ LET l == [w EXCEPT !.call = "timedout"]
                  IN  /\ l \in LineType /\ l.kind = w.kind /\ l.by = w.by /\ l.owner = w.owner
                      /\ l.attempt = w.attempt
    BY DEF LineType
  <2> DEFINE a == [writes[i] EXCEPT !.log = "settled"]
             b == [writes[i] EXCEPT !.call = "resolved"]
             c == [writes[i] EXCEPT !.call = "timedout"]
  <2>2. /\ a \in LineType /\ a.kind = writes[i].kind /\ a.by = writes[i].by
        /\ a.owner = writes[i].owner /\ a.attempt = writes[i].attempt
    BY <1>1, <2>1
  <2>3. /\ b \in LineType /\ b.kind = writes[i].kind /\ b.by = writes[i].by
        /\ b.owner = writes[i].owner /\ b.attempt = writes[i].attempt
    BY <1>1, <2>1
  <2>4. /\ c \in LineType /\ c.kind = writes[i].kind /\ c.by = writes[i].by
        /\ c.owner = writes[i].owner /\ c.attempt = writes[i].attempt
    BY <1>1, <2>1
  <2>5. \/ writes' = [writes EXCEPT ![i] = a]
        \/ writes' = [writes EXCEPT ![i] = b]
        \/ writes' = [writes EXCEPT ![i] = c]
    BY DEF Land, Settle, Timeout
  <2> HIDE DEF a, b, c
  <2> QED
    BY <2>2, <2>3, <2>4, <2>5
<1>3. writes' \in Seq(LineType) /\ DOMAIN writes' = DOMAIN writes
  BY <1>1, <1>2, ExceptSeq, LenProperties
<1> QED
  BY <1>2, <1>3 DEF SameLines

\* What a finish or a fail, and a skip, make of the recorder.
ClosingBy(r, op) == [r EXCEPT !.closing = TRUE, !.first = IF @ = "none" THEN op ELSE @]
SkippedBy(r) == [r EXCEPT !.first = IF @ = "none" THEN "skip" ELSE @]

SameAttempt(n, r) == n.attempt = r.attempt /\ n.noop = r.noop

LEMMA RecorderAttempt ==
  ASSUME NEW r \in RecorderType, NEW op
  PROVE  /\ SameAttempt(ClosingBy(r, op), r) /\ SameAttempt(SkippedBy(r), r)
         /\ SameAttempt(Closed(r), r) /\ SameAttempt(NotClosing(r), r)
  BY DEF SameAttempt, ClosingBy, SkippedBy, Closed, NotClosing, RecorderType

LEMMA RecorderFields ==
  ASSUME NEW r \in RecorderType, NEW op \in Closers
  PROVE  /\ LET n == ClosingBy(r, op)
            IN  /\ n \in RecorderType /\ n.closed = r.closed /\ n.closing = TRUE
                /\ n.first = IF r.first = "none" THEN op ELSE r.first
         /\ LET n == SkippedBy(r)
            IN  /\ n \in RecorderType /\ n.closed = r.closed /\ n.closing = r.closing
                /\ n.first = IF r.first = "none" THEN "skip" ELSE r.first
         /\ /\ Closed(r) \in RecorderType /\ Closed(r).closed = TRUE
            /\ Closed(r).closing = r.closing /\ Closed(r).first = r.first
         /\ /\ NotClosing(r) \in RecorderType /\ NotClosing(r).closed = r.closed
            /\ NotClosing(r).closing = FALSE
            /\ NotClosing(r).first = IF r.closed THEN r.first ELSE "none"
<1>1. /\ Closed(r) \in RecorderType /\ Closed(r).closed = TRUE
      /\ Closed(r).closing = r.closing /\ Closed(r).first = r.first
  BY DEF RecorderType, Closed
<1> DEFINE up == IF r.first = "none" THEN op ELSE r.first
           skip == IF r.first = "none" THEN "skip" ELSE r.first
           down == IF r.closed THEN r.first ELSE "none"
<1>2. /\ up \in Closers \cup {"none"} /\ skip \in Closers \cup {"none"}
      /\ down \in Closers \cup {"none"}
  BY DEF RecorderType, Closers
<1>3. /\ ClosingBy(r, op) = [[r EXCEPT !.closing = TRUE] EXCEPT !.first = up]
      /\ SkippedBy(r) = [r EXCEPT !.first = skip]
      /\ NotClosing(r) = [[r EXCEPT !.closing = FALSE] EXCEPT !.first = down]
  BY DEF RecorderType, ClosingBy, SkippedBy, NotClosing
<1> HIDE DEF up, skip, down
<1>4. ASSUME NEW m \in RecorderType, NEW first \in Closers \cup {"none"}
      PROVE  LET n == [m EXCEPT !.first = first]
             IN  n \in RecorderType /\ n.closed = m.closed /\ n.closing = m.closing /\ n.first = first
  BY DEF RecorderType
<1>5. ASSUME NEW b \in BOOLEAN
      PROVE  LET m == [r EXCEPT !.closing = b]
             IN  m \in RecorderType /\ m.closed = r.closed /\ m.closing = b /\ m.first = r.first
  BY DEF RecorderType
<1>6. LET n == [r EXCEPT !.first = skip]
      IN  n \in RecorderType /\ n.closed = r.closed /\ n.closing = r.closing /\ n.first = skip
  BY <1>2, <1>4
<1>7. LET n == [[r EXCEPT !.closing = TRUE] EXCEPT !.first = up]
      IN  n \in RecorderType /\ n.closed = r.closed /\ n.closing = TRUE /\ n.first = up
  BY <1>2, <1>4, <1>5
<1>8. LET n == [[r EXCEPT !.closing = FALSE] EXCEPT !.first = down]
      IN  n \in RecorderType /\ n.closed = r.closed /\ n.closing = FALSE /\ n.first = down
  BY <1>2, <1>4, <1>5
<1> QED
  BY <1>1, <1>3, <1>6, <1>7, <1>8 DEF up, skip, down

-----------------------------------------------------------------------------
(* Types *)

LEMMA InitType == Init => TypeOK
<1> SUFFICES ASSUME Init PROVE TypeOK
  OBVIOUS
<1>1. job \in JobType
  BY DEF Init, JobType, Status
<1>2. rec \in RecorderType
  BY DEF Init, NewRecorder, RecorderType
<1>3. stack \in Seq(FrameType) /\ writes \in Seq(LineType)
  BY EmptySeq DEF Init
<1>4. calls \in Nat /\ throws \in Nat
  BY BoundsType DEF Init
<1> QED
  BY <1>1, <1>2, <1>3, <1>4, TypeParts

LEMMA AttemptType ==
  ASSUME NEW j \in JobType
  PROVE  CurrentAttempt(j) \in Nat \ {0}
  BY DEF JobType, CurrentAttempt, AtLeastOne

LEMMA JobFields ==
  ASSUME NEW j \in JobType, NEW b \in BOOLEAN
  PROVE  /\ j.made \in Nat /\ j.started \in Nat /\ j.active \in Nat
         /\ [j EXCEPT !.active = j.active + 1] \in JobType
         /\ [j EXCEPT !.made = IF b THEN j.made + 1 ELSE j.made] \in JobType
         /\ [j EXCEPT !.made = IF b THEN j.made ELSE j.made + 1] \in JobType
         /\ [j EXCEPT !.started = IF b THEN j.started + 1 ELSE j.started] \in JobType
<1>1. j.made \in Nat /\ j.started \in Nat /\ j.active \in Nat
  BY DEF JobType
<1>2. \A n \in Nat : /\ [j EXCEPT !.active = n] \in JobType
                     /\ [j EXCEPT !.made = n] \in JobType
                     /\ [j EXCEPT !.started = n] \in JobType
  BY DEF JobType
<1> DEFINE x == j.active + 1
           y == IF b THEN j.made + 1 ELSE j.made
           z == IF b THEN j.made ELSE j.made + 1
           w == IF b THEN j.started + 1 ELSE j.started
<1>3. {x, y, z, w} \subseteq Nat
  BY <1>1
<1> HIDE DEF x, y, z, w
<1>4. /\ [j EXCEPT !.active = x] \in JobType /\ [j EXCEPT !.made = y] \in JobType
      /\ [j EXCEPT !.made = z] \in JobType /\ [j EXCEPT !.started = w] \in JobType
  BY <1>2, <1>3
<1> QED
  BY <1>1, <1>4 DEF x, y, z, w

\* Every call takes one from what is left of the bound.
LEMMA CallType == ASSUME calls \in Nat, Call PROVE calls' \in Nat
  BY DEF Call, Callable

\* A frame is pushed.
LEMMA FrameFields ==
  ASSUME NEW op \in Ops, NEW pc \in {"clock", "row"}
  PROVE  Frame(op, pc) \in FrameType /\ Frame(op, pc).op = op /\ Frame(op, pc).pc = pc
  BY DEF Frame, FrameType

LEMMA NextType ==
  ASSUME TypeOK, [Next]_vars
  PROVE  TypeOK'
<1> USE DEF Closers, Ops
<1>1. /\ job \in JobType /\ rec \in RecorderType /\ stack \in Seq(FrameType)
      /\ writes \in Seq(LineType) /\ calls \in Nat /\ throws \in Nat
  BY TypeParts
<1> SUFFICES /\ job' \in JobType /\ rec' \in RecorderType /\ stack' \in Seq(FrameType)
             /\ writes' \in Seq(LineType) /\ calls' \in Nat /\ throws' \in Nat
  BY DEF TypeOK, JobType, RecorderType
<1>2. ASSUME NEW op \in {"finish", "fail"}, Close(op)
      PROVE  rec' \in RecorderType /\ stack' \in Seq(FrameType) /\ calls' \in Nat
  <2>1. CASE Closable
    <3>1. rec' \in RecorderType
      <4>1. rec' = ClosingBy(rec, op)
        BY <1>2, <2>1 DEF Close, ClosingBy
      <4> QED
        BY <1>1, <4>1, RecorderFields
    <3>2. Frame(op, "clock") \in FrameType /\ Push(Frame(op, "clock"))
      BY <1>2, <2>1, FrameFields DEF Close
    <3> QED
      BY <1>1, <1>2, <3>1, <3>2, CallType, PushStack DEF Close
  <2>2. CASE ~Closable
    BY <1>1, <1>2, <2>2, CallType DEF Close
  <2> QED
    BY <2>1, <2>2
<1>3. ASSUME Skip
      PROVE  rec' \in RecorderType /\ stack' \in Seq(FrameType) /\ calls' \in Nat
  <2>1. CASE Closable
    <3>1. rec' \in RecorderType
      <4>1. rec' = SkippedBy(rec)
        BY <1>3, <2>1 DEF Skip, SkippedBy
      <4> QED
        BY <1>1, <4>1, RecorderFields
    <3>2. Frame("skip", "clock") \in FrameType /\ Push(Frame("skip", "clock"))
      BY <1>3, <2>1, FrameFields DEF Skip
    <3> QED
      BY <1>1, <1>3, <3>1, <3>2, CallType, PushStack DEF Skip
  <2>2. CASE ~Closable
    BY <1>1, <1>3, <2>2, CallType DEF Skip
  <2> QED
    BY <2>1, <2>2
<1>4. ASSUME Note
      PROVE  stack' \in Seq(FrameType) /\ calls' \in Nat
  BY <1>1, <1>4, CallType, FrameFields, PushStack DEF Note
<1>5. ASSUME \/ \E pc \in {"build", "event", "line", "skeleton", "row", "return"} : Goto(pc) /\ UNCHANGED throws
             \/ \E what : \E next \in {"build", "event", "line", "skeleton", "row", "return"} :
                  Throw(what, next),
             stack # <<>>
      PROVE  stack' \in Seq(FrameType) /\ throws' \in Nat
  <2>1. CASE \E pc \in {"build", "event", "line", "skeleton", "row", "return"} : Goto(pc) /\ UNCHANGED throws
    BY <1>1, <1>5, <2>1, GotoTop, TopToStack
  <2>2. CASE \E what : \E next \in {"build", "event", "line", "skeleton", "row", "return"} :
               Throw(what, next)
    BY <1>1, <1>5, <2>2, ThrowTop, TopToStack
  <2> QED
    BY <1>5, <2>1, <2>2
<1>6. ASSUME stack # <<>>, NEW kind \in {"run", "skip", "note"}, Write(Line(kind))
      PROVE  writes' \in Seq(LineType) /\ stack' \in Seq(FrameType) /\ throws' \in Nat
  BY <1>1, <1>6, WriteAppends, AppendedLines, TopToStack
<1>7. CASE Clock
  <2>1. stack # <<>> /\ UNCHANGED <<job, rec, writes, calls>>
    BY <1>7 DEF Clock, At
  <2>2. stack' \in Seq(FrameType) /\ throws' \in Nat
    BY <1>5, <1>7, <2>1 DEF Clock
  <2> QED
    BY <1>1, <2>1, <2>2
<1>8. CASE Reported
  <2>1. stack # <<>> /\ UNCHANGED <<job, rec, writes, calls, throws>> /\ Goto(Top.next)
    BY <1>8 DEF Reported, At
  <2>2. Top.next \in {"build", "event", "line", "skeleton", "row", "return"}
    BY <1>1, <2>1, TopType DEF FrameType
  <2>3. stack' \in Seq(FrameType)
    BY <1>5, <2>1, <2>2
  <2> QED
    BY <1>1, <2>1, <2>3
<1>9. CASE Build
  <2>1. stack # <<>> /\ UNCHANGED <<job, rec, writes, calls>>
    BY <1>9 DEF Build, At
  <2>2. stack' \in Seq(FrameType) /\ throws' \in Nat
    BY <1>5, <1>9, <2>1 DEF Build
  <2> QED
    BY <1>1, <2>1, <2>2
<1>10. CASE Event
  <2>1. stack # <<>> /\ UNCHANGED <<job, rec, writes, calls>>
    BY <1>10 DEF Event, At
  <2>2. stack' \in Seq(FrameType) /\ throws' \in Nat
    BY <1>5, <1>10, <2>1 DEF Event
  <2> QED
    BY <1>1, <2>1, <2>2
<1>11. CASE FormatRun \/ FormatSkeleton
  <2>1. stack # <<>> /\ UNCHANGED <<job, calls>>
    BY <1>11 DEF FormatRun, FormatSkeleton, At
  <2>2. CASE WriteRun
    BY <1>1, <1>6, <2>1, <2>2, RecorderFields DEF WriteRun
  <2>3. CASE \/ Throw("format", "skeleton") /\ UNCHANGED <<rec, writes>>
             \/ Throw("skeleton", "return") /\ UNCHANGED <<rec, writes>>
    BY <1>1, <1>5, <2>1, <2>3
  <2> QED
    BY <1>11, <2>2, <2>3 DEF FormatRun, FormatSkeleton
<1>12. CASE WriteRow
  <2>1. stack # <<>> /\ UNCHANGED <<job, calls>>
    BY <1>12 DEF WriteRow, At
  <2>2. writes' \in Seq(LineType) /\ stack' \in Seq(FrameType) /\ throws' \in Nat
    BY <1>6, <1>12, <2>1 DEF WriteRow
  <2>3. rec' \in RecorderType
    BY <1>1, <1>12, RecorderFields DEF WriteRow
  <2> QED
    BY <1>1, <2>1, <2>2, <2>3
<1>13. CASE Return
  <2>1. stack # <<>> /\ UNCHANGED <<job, writes, calls, throws>>
    BY <1>13 DEF Return, At
  <2>2. stack' \in Seq(FrameType)
    BY <1>1, <1>13, <2>1, PopStack DEF Return
  <2>3. rec' \in RecorderType
    BY <1>1, <1>13, RecorderFields DEF Return
  <2> QED
    BY <1>1, <2>1, <2>2, <2>3
<1>14. ASSUME NEW i \in DOMAIN writes, Land(i) \/ Settle(i) \/ Timeout(i)
       PROVE  writes' \in Seq(LineType) /\ UNCHANGED <<job, rec, stack, calls, throws>>
  BY <1>1, <1>14, UpdatedLine DEF SameLines, Land, Settle, Timeout
<1>15. CASE Activate
  <2>1. job' \in JobType
    <3> DEFINE a == [job EXCEPT !.status = "active"]
               b == [a EXCEPT !.active = a.active + 1]
               c == [b EXCEPT !.made = IF job.library = "bullmq4" THEN b.made + 1 ELSE b.made]
               d == [c EXCEPT !.started = IF job.library = "bullmq5" THEN c.started + 1 ELSE c.started]
    <3>1. a \in JobType
      BY <1>1 DEF JobType, Status
    <3>2. b \in JobType
      BY <3>1, JobFields
    <3>3. c \in JobType
      BY <3>2, JobFields
    <3>4. d \in JobType
      BY <3>3, JobFields
    <3>5. job' = d
      BY <1>1, <1>15 DEF Activate, JobType, Status
    <3> QED
      BY <3>4, <3>5
  <2>2. rec' \in RecorderType /\ throws' \in Nat
    <3>1. CurrentAttempt(job') \in Nat \ {0}
      BY <2>1, AttemptType
    <3>2. \A n \in Nat \ {0} : /\ NewRecorder(n, FALSE) \in RecorderType
                               /\ NewRecorder(n, TRUE) \in RecorderType
      BY DEF NewRecorder, RecorderType
    <3>3. \/ rec' = NewRecorder(CurrentAttempt(job'), FALSE) /\ UNCHANGED throws
          \/ throws > 0 /\ rec' = NewRecorder(1, TRUE) /\ throws' = throws - 1
      BY <1>15 DEF Activate, NewAttempt
    <3>4. CASE rec' = NewRecorder(CurrentAttempt(job'), FALSE) /\ UNCHANGED throws
      BY <1>1, <3>1, <3>2, <3>4
    <3>5. CASE throws > 0 /\ rec' = NewRecorder(1, TRUE) /\ throws' = throws - 1
      <4>1. rec' \in RecorderType
        BY <3>5 DEF NewRecorder, RecorderType
      <4>2. throws' \in Nat
        BY <1>1, <3>5
      <4> QED
        BY <4>1, <4>2
    <3> QED
      BY <3>3, <3>4, <3>5
  <2> QED
    BY <1>1, <1>15, <2>1, <2>2 DEF Activate
<1>16. ASSUME NEW status \in {"completed", "failed", "waiting"}, End(status)
       PROVE  job' \in JobType /\ UNCHANGED <<rec, stack, writes, calls, throws>>
  <2> DEFINE a == [job EXCEPT !.status = status]
             b == [a EXCEPT !.made = IF status = "completed" \/ job.library = "bullmq4" THEN a.made
                                     ELSE a.made + 1]
  <2>1. a \in JobType
    BY <1>1 DEF JobType, Status
  <2>2. b \in JobType
    BY <2>1, JobFields
  <2>3. job' = b
    BY <1>1, <1>16 DEF End, JobType
  <2> QED
    BY <1>16, <2>2, <2>3 DEF End
<1>17. ASSUME (\E status \in {"waiting", "stalledOut"} : Stall(status)) \/ ManualRetry
       PROVE  job' \in JobType /\ UNCHANGED <<rec, stack, writes, calls, throws>>
  BY <1>1, <1>17 DEF Stall, ManualRetry, JobType, Status
<1>18. CASE UNCHANGED vars
  BY <1>1, <1>18 DEF vars
<1>19. CASE Next
  <2>1. CASE \E op \in {"finish", "fail"} : Close(op)
    BY <1>1, <1>2, <2>1 DEF Close
  <2>2. CASE Skip \/ Note
    BY <1>1, <1>3, <1>4, <2>2 DEF Skip, Note
  <2>3. CASE Step
    BY <2>3, <1>7, <1>8, <1>9, <1>10, <1>11, <1>12, <1>13 DEF Step
  <2>4. CASE \E i \in DOMAIN writes : Land(i) \/ Settle(i) \/ Timeout(i)
    BY <1>1, <1>14, <2>4
  <2>5. CASE Activate
    BY <1>15, <2>5
  <2>6. CASE (\E status \in {"waiting", "stalledOut"} : Stall(status)) \/ ManualRetry
    BY <1>1, <1>17, <2>6
  <2>7. CASE \E status \in {"completed", "failed", "waiting"} : End(status)
    BY <1>1, <1>16, <2>7
  <2> QED
    BY <1>19, <2>1, <2>2, <2>3, <2>4, <2>5, <2>6, <2>7 DEF Next
<1> QED
  BY <1>18, <1>19

\* The job, its recorder, the calls under way and the lines written are what the code takes them
\* for; attempts are numbered from 1.
THEOREM TypeCorrect == Spec => []TypeOK
  BY InitType, NextType, PTL DEF Spec

-----------------------------------------------------------------------------
(* First of finish, fail and skip wins *)

\* A clock that throws lets the error listener in before skip has closed the recorder: the theorem
\* is about clocks that only answer.
ClockOnlyAnswers == "clock" \notin Throwing \cup Reentrant

\* A call with nothing left to do but return.
Finished(f) == f.pc = "return" \/ (f.pc = "report" /\ f.next = "return")
IsClose(f) == f.op \in {"finish", "fail"}
HasNoLine(f) == f.pc \in {"clock", "row"}

\* What is known of the recorder while a call is under way.
FrameOK(f) ==
  /\ f.op = "note" => f.pc = "row" \/ Finished(f)
  /\ f.op = "skip" => \/ HasNoLine(f) /\ ~rec.closed /\ ~rec.closing /\ rec.first = "skip"
                      \/ Finished(f) /\ rec.closed
  /\ IsClose(f) => /\ rec.closing /\ rec.first = f.op /\ f.pc # "row"
                   /\ f.pc = "report" => f.next \in {"line", "skeleton", "return"}
                   /\ Finished(f) \/ ~rec.closed

CallsInv ==
  /\ stack # <<>> => job.status = "active"
  /\ \A i \in DOMAIN stack : FrameOK(stack[i])
  /\ \A i \in DOMAIN stack : i # Len(stack) => stack[i].pc \in {"event", "report"}
  /\ \A i, k \in DOMAIN stack : IsClose(stack[i]) /\ IsClose(stack[k]) => i = k
  /\ rec.closing => \E i \in DOMAIN stack : IsClose(stack[i])
  /\ rec.first # "none" =>
       rec.closed \/ rec.closing \/ \E i \in DOMAIN stack : stack[i].op = "skip"

IsClosing(w) == w.kind # "note"

LinesInv ==
  /\ \A i \in DOMAIN writes : writes[i].owner <= job.active
  /\ \A i, k \in DOMAIN writes :
       IsClosing(writes[i]) /\ IsClosing(writes[k]) /\ writes[i].owner = writes[k].owner => i = k
  /\ rec.closed => \E i \in DOMAIN writes : IsClosing(writes[i]) /\ writes[i].owner = job.active
  /\ \A i \in DOMAIN writes : IsClosing(writes[i]) /\ writes[i].owner = job.active =>
       rec.closed /\ writes[i].by = rec.first

RecorderInv == TypeOK /\ CallsInv /\ LinesInv

LEMMA InvImpliesOneClosingLine == RecorderInv => OneClosingLine
<1> SUFFICES ASSUME RecorderInv PROVE OneClosingLine
  OBVIOUS
<1>1. \A owner \in 1 .. job.active : \A i, k \in ClosingLines(owner) : i = k
  BY DEF RecorderInv, LinesInv, ClosingLines, IsClosing
<1>2. rec.closed <=> ClosingLines(job.active) # {}
  BY DEF RecorderInv, LinesInv, ClosingLines, IsClosing
<1>3. \A i \in ClosingLines(job.active) : writes[i].by = rec.first
  BY DEF RecorderInv, LinesInv, ClosingLines, IsClosing
<1>4. rec.closing <=> Closing # {}
  BY DEF RecorderInv, CallsInv, FrameOK, IsClose, Closing
<1> QED
  BY <1>1, <1>2, <1>3, <1>4 DEF OneClosingLine

LEMMA InitInv == Init => RecorderInv
<1> SUFFICES ASSUME Init PROVE RecorderInv
  OBVIOUS
<1>1. TypeOK
  BY InitType
<1>2. stack = <<>> /\ writes = <<>> /\ DOMAIN stack = {} /\ DOMAIN writes = {}
  BY DEF Init
<1>3. rec.closed = FALSE /\ rec.closing = FALSE /\ rec.first = "none"
  BY DEF Init, NewRecorder
<1> QED
  BY <1>1, <1>2, <1>3 DEF RecorderInv, CallsInv, LinesInv

\* A recorder that takes a finish, a fail or a skip has nothing but notes under way.
LEMMA ClosableMeansNotes ==
  ASSUME TypeOK, CallsInv, ClockOnlyAnswers, Callable, Closable
  PROVE  rec.first = "none" /\ \A i \in DOMAIN stack : stack[i].op = "note"
<1>1. stack \in Seq(FrameType)
  BY TypeParts
<1>2. ASSUME NEW i \in DOMAIN stack
      PROVE  stack[i].op = "note"
  <2>1. stack # <<>> /\ stack[i] \in FrameType
    BY <1>1, <1>2, ElementOfSeq, LenProperties
  <2>2. stack[i].op \in {"note", "skip", "finish", "fail"}
    BY <2>1 DEF FrameType, Ops, Closers
  <2>3. ~IsClose(stack[i])
    BY DEF CallsInv, FrameOK, Closable
  <2>4. ASSUME stack[i].op = "skip"
        PROVE  FALSE
    <3>1. stack[i].pc \in {"clock", "row"}
      BY <2>4 DEF CallsInv, FrameOK, Closable, HasNoLine
    <3>2. i = Len(stack)
      BY <3>1 DEF CallsInv
    <3>3. stack[i].pc \in Reentrant
      BY <2>1, <3>2, TopType DEF Callable, Top
    <3> QED
      BY <3>1, <3>3, AgentRecorderAssumption DEF ClockOnlyAnswers, AgentRecorderAssumption
  <2> QED
    BY <2>2, <2>3, <2>4 DEF IsClose
<1>3. rec.first = "none"
  BY <1>2 DEF CallsInv, Closable
<1> QED
  BY <1>2, <1>3

\* The lines keep what is said of them when none is added but a note, and the recorder is not
\* closed or opened.
LEMMA NoClosingLine ==
  ASSUME TypeOK, LinesInv, SameLines \/ UNCHANGED writes \/ Appended("note"),
         job'.active = job.active, rec'.closed = rec.closed, rec.closed => rec'.first = rec.first
  PROVE  LinesInv'
<1>1. writes \in Seq(LineType) /\ job.active \in Nat
  BY TypeParts DEF JobType
<1>2. CASE SameLines \/ UNCHANGED writes
  <2>1. /\ DOMAIN writes' = DOMAIN writes
        /\ \A i \in DOMAIN writes : /\ writes'[i].kind = writes[i].kind
                                    /\ writes'[i].by = writes[i].by
                                    /\ writes'[i].owner = writes[i].owner
    BY <1>2 DEF SameLines
  <2> QED
    BY <2>1 DEF LinesInv, IsClosing
<1>3. CASE Appended("note")
  <2> DEFINE n == Len(writes) + 1
  <2>1. /\ n \in DOMAIN writes' /\ writes'[n].kind = "note" /\ writes'[n].owner = job.active
        /\ \A i \in DOMAIN writes : i \in DOMAIN writes' /\ writes'[i] = writes[i]
        /\ \A i \in DOMAIN writes' : i = n \/ i \in DOMAIN writes
    BY <1>1, <1>3, AppendedLines
  <2> HIDE DEF n
  <2> QED
    BY <1>1, <2>1 DEF LinesInv, IsClosing
<1> QED
  BY <1>2, <1>3

\* The line that closes the recorder is the first of its attempt.
LEMMA FirstClosingLine ==
  ASSUME TypeOK, LinesInv, NEW kind, kind # "note", Appended(kind),
         ~rec.closed, rec.first = Top.op, rec' = Closed(rec), UNCHANGED job
  PROVE  LinesInv'
<1>1. writes \in Seq(LineType) /\ job.active \in Nat /\ rec \in RecorderType
  BY TypeParts DEF JobType
<1>2. rec'.closed = TRUE /\ rec'.first = rec.first
  BY <1>1, RecorderFields DEF Closers
<1> DEFINE n == Len(writes) + 1
<1>3. /\ n \in DOMAIN writes' /\ writes'[n].kind = kind /\ writes'[n].owner = job.active
      /\ writes'[n].by = Top.op
      /\ \A i \in DOMAIN writes : i \in DOMAIN writes' /\ writes'[i] = writes[i]
      /\ \A i \in DOMAIN writes' : i = n \/ i \in DOMAIN writes
  BY <1>1, AppendedLines
<1> HIDE DEF n
<1>4. \A i \in DOMAIN writes : IsClosing(writes[i]) => writes[i].owner # job.active
  BY DEF LinesInv
<1> QED
  BY <1>1, <1>2, <1>3, <1>4 DEF LinesInv, IsClosing

\* The top frame goes on, and the recorder stays as it is.
LEMMA TopGoesOn ==
  ASSUME TypeOK, CallsInv, NEW f \in FrameType, TopTo(f), f.op = Top.op, FrameOK(f),
         UNCHANGED <<job, rec>>
  PROVE  CallsInv'
<1>1. stack \in Seq(FrameType) /\ stack # <<>>
  BY TypeParts DEF TopTo
<1> DEFINE n == Len(stack)
<1>2. /\ n \in DOMAIN stack /\ Top = stack[n]
      /\ Len(stack') = n /\ DOMAIN stack' = DOMAIN stack /\ stack'[n] = f
      /\ \A i \in DOMAIN stack : i # n => stack'[i] = stack[i]
  BY <1>1, TopType, TopToStack
<1>3. \A i \in DOMAIN stack : stack'[i].op = stack[i].op
  BY <1>2
<1>4. \A i \in DOMAIN stack : FrameOK(stack[i])'
  <2> SUFFICES ASSUME NEW i \in DOMAIN stack PROVE FrameOK(stack[i])'
    OBVIOUS
  <2>1. FrameOK(stack'[i])
    BY <1>2 DEF CallsInv
  <2> QED
    BY <2>1 DEF FrameOK, Finished, IsClose, HasNoLine
<1> HIDE DEF n
<1> QED
  BY <1>1, <1>2, <1>3, <1>4 DEF CallsInv, IsClose, n

\* The call on top closes the recorder: the others under way are notes.
LEMMA TopCloses ==
  ASSUME TypeOK, CallsInv, NEW f \in FrameType, TopTo(f), f.op = Top.op, Finished(f),
         Top.op # "note", ~rec.closed, rec' = Closed(rec), UNCHANGED job
  PROVE  CallsInv' /\ rec.first = Top.op
<1>1. stack \in Seq(FrameType) /\ stack # <<>> /\ rec \in RecorderType
  BY TypeParts DEF TopTo
<1> DEFINE n == Len(stack)
<1>2. /\ n \in DOMAIN stack /\ Top = stack[n] /\ Top \in FrameType
      /\ Len(stack') = n /\ DOMAIN stack' = DOMAIN stack /\ stack'[n] = f
      /\ \A i \in DOMAIN stack : i # n => stack'[i] = stack[i]
  BY <1>1, TopType, TopToStack
<1>3. rec'.closed = TRUE /\ rec'.first = rec.first /\ rec'.closing = rec.closing
  BY <1>1, RecorderFields DEF Closers
<1>4. \A i \in DOMAIN stack : stack[i].op \in {"note", "skip", "finish", "fail"}
  <2>1. \A i \in DOMAIN stack : stack[i] \in FrameType
    BY <1>1, ElementOfSeq, LenProperties
  <2> QED
    BY <2>1 DEF FrameType, Ops, Closers
<1>5. IsClose(Top) \/ Top.op = "skip"
  BY <1>2, <1>4 DEF IsClose
<1>6. rec.first = Top.op /\ (IsClose(Top) => rec.closing) /\ (Top.op = "skip" => ~rec.closing)
  BY <1>2, <1>5 DEF CallsInv, FrameOK, IsClose
<1>7. ASSUME NEW i \in DOMAIN stack, i # n
      PROVE  stack[i].op = "note"
  <2>1. stack[i].op # "skip"
    BY <1>7 DEF CallsInv, FrameOK, HasNoLine, n
  <2>2. ~IsClose(stack[i])
    BY <1>2, <1>5, <1>6, <1>7 DEF CallsInv, FrameOK, IsClose
  <2> QED
    BY <1>4, <2>1, <2>2 DEF IsClose
<1>8. \A i \in DOMAIN stack : stack'[i].op = stack[i].op
  BY <1>2
<1>9. \A i \in DOMAIN stack : FrameOK(stack[i])'
  <2> SUFFICES ASSUME NEW i \in DOMAIN stack PROVE FrameOK(stack[i])'
    OBVIOUS
  <2>1. CASE i = n
    BY <1>2, <1>3, <1>5, <1>6, <2>1 DEF FrameOK, Finished, IsClose
  <2>2. CASE i # n
    <3>1. stack'[i] = stack[i] /\ stack[i].op = "note" /\ FrameOK(stack[i])
      BY <1>2, <1>7, <2>2 DEF CallsInv
    <3> QED
      BY <3>1 DEF FrameOK, Finished, IsClose
  <2> QED
    BY <2>1, <2>2
<1> HIDE DEF n
<1> QED
  BY <1>1, <1>2, <1>3, <1>6, <1>8, <1>9 DEF CallsInv, IsClose, n

\* A call is made: the one it is made from stands at a listener.
LEMMA CallPushes ==
  ASSUME TypeOK, CallsInv, ClockOnlyAnswers, Callable, NEW f \in FrameType, Push(f), UNCHANGED job
  PROVE  /\ DOMAIN stack = 1 .. Len(stack) /\ Len(stack) \in Nat
         /\ Len(stack') = Len(stack) + 1 /\ DOMAIN stack' = 1 .. Len(stack) + 1
         /\ stack'[Len(stack) + 1] = f
         /\ \A i \in DOMAIN stack : stack'[i] = stack[i] /\ stack[i].pc \in {"event", "report"}
         /\ job'.status = "active"
<1>1. stack \in Seq(FrameType)
  BY TypeParts
<1>2. ASSUME NEW i \in DOMAIN stack
      PROVE  stack[i].pc \in {"event", "report"}
  <2>1. CASE i = Len(stack)
    <3>1. stack # <<>>
      BY <1>1, <1>2, LenProperties
    <3>2. stack[i].pc \in Reentrant
      BY <1>1, <2>1, <3>1, TopType DEF Callable
    <3> QED
      BY <3>2, AgentRecorderAssumption DEF ClockOnlyAnswers, AgentRecorderAssumption
  <2>2. CASE i # Len(stack)
    BY <2>2 DEF CallsInv
  <2> QED
    BY <2>1, <2>2
<1> QED
  BY <1>1, <1>2, PushStack DEF Callable

LEMMA NoteBegins ==
  ASSUME TypeOK, CallsInv, ClockOnlyAnswers, Callable, Push(Frame("note", "row")),
         UNCHANGED <<job, rec>>
  PROVE  CallsInv'
<1> DEFINE n == Len(stack) + 1
           f == Frame("note", "row")
<1>1. f \in FrameType /\ f.op = "note" /\ f.pc = "row"
  BY FrameFields DEF Ops, Closers
<1> HIDE DEF f
<1>2. /\ n \in DOMAIN stack' /\ Len(stack') = n /\ stack'[n] = f /\ job'.status = "active"
      /\ \A i \in DOMAIN stack : /\ i \in DOMAIN stack' /\ i # n
                                 /\ stack'[i] = stack[i] /\ stack[i].pc \in {"event", "report"}
      /\ \A i \in DOMAIN stack' : i = n \/ i \in DOMAIN stack
  BY <1>1, CallPushes DEF f
<1>3. \A i \in DOMAIN stack' : FrameOK(stack[i])'
  <2> SUFFICES ASSUME NEW i \in DOMAIN stack' PROVE FrameOK(stack[i])'
    OBVIOUS
  <2>1. CASE i = n
    BY <1>1, <1>2, <2>1 DEF FrameOK, Finished, IsClose
  <2>2. CASE i \in DOMAIN stack
    <3>1. stack'[i] = stack[i] /\ FrameOK(stack[i])
      BY <1>2, <2>2 DEF CallsInv
    <3> QED
      BY <3>1 DEF FrameOK, Finished, IsClose, HasNoLine
  <2> QED
    BY <1>2, <2>1, <2>2
<1> HIDE DEF n
<1> QED
  BY <1>1, <1>2, <1>3 DEF CallsInv, IsClose

LEMMA CloserFields ==
  ASSUME rec \in RecorderType, rec.first = "none", NEW op \in Closers,
         \/ op # "skip" /\ rec' = ClosingBy(rec, op)
         \/ op = "skip" /\ rec' = SkippedBy(rec)
  PROVE  /\ rec'.closed = rec.closed /\ rec'.first = op
         /\ rec'.closing = IF op = "skip" THEN rec.closing ELSE TRUE
<1>1. CASE op # "skip" /\ rec' = ClosingBy(rec, op)
  <2>1. rec'.closed = rec.closed /\ rec'.closing = TRUE
    BY <1>1, RecorderFields
  <2>2. rec'.first = op
    BY <1>1 DEF ClosingBy, RecorderType
  <2> QED
    BY <1>1, <2>1, <2>2
<1>2. CASE op = "skip" /\ rec' = SkippedBy(rec)
  <2>1. rec'.closed = rec.closed /\ rec'.closing = rec.closing
    BY <1>2, RecorderFields
  <2>2. rec'.first = op
    BY <1>2, RecorderFields
  <2> QED
    BY <1>2, <2>1, <2>2
<1> QED
  BY <1>1, <1>2

\* A finish, a fail or a skip begins, above notes only.
LEMMA CloserBegins ==
  ASSUME TypeOK, CallsInv, ClockOnlyAnswers, Callable, Closable,
         NEW op \in Closers, Push(Frame(op, "clock")), UNCHANGED job,
         \/ op # "skip" /\ rec' = ClosingBy(rec, op)
         \/ op = "skip" /\ rec' = SkippedBy(rec)
  PROVE  CallsInv' /\ rec'.closed = rec.closed
<1> DEFINE n == Len(stack) + 1
           f == Frame(op, "clock")
<1>1. f \in FrameType /\ f.op = op /\ f.pc = "clock"
  BY FrameFields DEF Ops
<1> HIDE DEF f
<1>2. /\ n \in DOMAIN stack' /\ Len(stack') = n /\ stack'[n] = f /\ job'.status = "active"
      /\ \A i \in DOMAIN stack : /\ i \in DOMAIN stack' /\ i # n
                                 /\ stack'[i] = stack[i] /\ stack[i].pc \in {"event", "report"}
      /\ \A i \in DOMAIN stack' : i = n \/ i \in DOMAIN stack
  BY <1>1, CallPushes DEF f
<1>3. rec.first = "none" /\ \A i \in DOMAIN stack : stack[i].op = "note"
  BY ClosableMeansNotes
<1>4. /\ rec'.closed = rec.closed /\ rec'.first = op
      /\ rec'.closing = IF op = "skip" THEN rec.closing ELSE TRUE
  <2>1. rec \in RecorderType
    BY TypeParts
  <2> QED
    BY <1>3, <2>1, CloserFields
<1>5. \A i \in DOMAIN stack' : FrameOK(stack[i])'
  <2> SUFFICES ASSUME NEW i \in DOMAIN stack' PROVE FrameOK(stack[i])'
    OBVIOUS
  <2>1. CASE i = n
    BY <1>1, <1>2, <1>4, <2>1 DEF FrameOK, Finished, IsClose, HasNoLine, Closable, Closers
  <2>2. CASE i \in DOMAIN stack
    <3>1. stack'[i] = stack[i] /\ stack[i].op = "note" /\ FrameOK(stack[i])
      BY <1>2, <1>3, <2>2 DEF CallsInv
    <3> QED
      BY <3>1 DEF FrameOK, Finished, IsClose
  <2> QED
    BY <1>2, <2>1, <2>2
<1> HIDE DEF n
<1>6. \A i, k \in DOMAIN stack' : IsClose(stack[i])' /\ IsClose(stack[k])' => i = k
  BY <1>2, <1>3 DEF IsClose
<1>7. rec'.closing => \E i \in DOMAIN stack' : IsClose(stack[i])'
  BY <1>1, <1>2, <1>4 DEF IsClose, Closable, Closers
<1>8. rec'.first # "none" =>
        rec'.closed \/ rec'.closing \/ \E i \in DOMAIN stack' : stack'[i].op = "skip"
  BY <1>1, <1>2, <1>4
<1> QED
  BY <1>2, <1>4, <1>5, <1>6, <1>7, <1>8 DEF CallsInv

\* A call returns.
LEMMA CallReturns ==
  ASSUME TypeOK, CallsInv, Return
  PROVE  /\ CallsInv' /\ rec'.closed = rec.closed
         /\ rec.closed => rec'.first = rec.first
<1>1. /\ stack \in Seq(FrameType) /\ stack # <<>> /\ rec \in RecorderType
      /\ Top.pc = "return" /\ stack' = Pop /\ UNCHANGED job
  BY TypeParts DEF Return, At
<1> DEFINE n == Len(stack)
<1>2. /\ n \in DOMAIN stack /\ n \in Nat \ {0} /\ Top = stack[n] /\ Top \in FrameType
      /\ DOMAIN stack = 1 .. n
  BY <1>1, TopType
<1>3. /\ Len(stack') = n - 1 /\ DOMAIN stack' = 1 .. n - 1 /\ stack' \in Seq(FrameType)
      /\ \A i \in DOMAIN stack' : i \in DOMAIN stack /\ stack'[i] = stack[i]
  BY <1>1, PopStack
<1>4. \A i \in DOMAIN stack : i = n \/ i \in DOMAIN stack'
  BY <1>2, <1>3
<1>5. \A i \in DOMAIN stack' : i # n
  BY <1>2, <1>3
<1>6. stack' # <<>> => job'.status = "active"
  BY <1>1 DEF CallsInv
<1>7. \A i \in DOMAIN stack' : i # Len(stack') => stack'[i].pc \in {"event", "report"}
  BY <1>3, <1>5 DEF CallsInv
<1>8. \A i, k \in DOMAIN stack' : IsClose(stack[i])' /\ IsClose(stack[k])' => i = k
  BY <1>3 DEF CallsInv, IsClose
<1>9. CASE IsClose(Top)
  <2>1. /\ rec'.closed = rec.closed /\ rec'.closing = FALSE
        /\ rec'.first = IF rec.closed THEN rec.first ELSE "none"
    BY <1>1, <1>9, RecorderFields DEF Return, IsClose, Closers
  <2>2. ASSUME NEW i \in DOMAIN stack'
        PROVE  FrameOK(stack[i])'
    <3>1. i \in DOMAIN stack /\ i # n /\ stack'[i] = stack[i] /\ FrameOK(stack[i])
      BY <1>3, <1>5, <2>2 DEF CallsInv
    <3>2. ~IsClose(stack[i])
      BY <1>2, <1>9, <3>1 DEF CallsInv
    <3>3. stack[i].op = "skip" => rec.closed /\ Finished(stack[i])
      <4>1. stack[i].pc \in {"event", "report"}
        BY <3>1 DEF CallsInv, n
      <4> QED
        BY <3>1, <4>1 DEF FrameOK, HasNoLine
    <3> QED
      BY <2>1, <3>1, <3>2, <3>3 DEF FrameOK, Finished, IsClose, HasNoLine
  <2>3. rec'.first # "none" => rec'.closed
    BY <2>1
  <2> QED
    BY <1>6, <1>7, <1>8, <2>1, <2>2, <2>3 DEF CallsInv
<1>10. CASE ~IsClose(Top)
  <2>1. UNCHANGED rec
    BY <1>10 DEF Return, IsClose
  <2>2. ASSUME NEW i \in DOMAIN stack'
        PROVE  FrameOK(stack[i])'
    <3>1. stack'[i] = stack[i] /\ FrameOK(stack[i])
      BY <1>3, <2>2 DEF CallsInv
    <3> QED
      BY <2>1, <3>1 DEF FrameOK, Finished, IsClose, HasNoLine
  <2>3. rec'.closing => \E i \in DOMAIN stack' : IsClose(stack[i])'
    BY <1>2, <1>3, <1>4, <1>10, <2>1 DEF CallsInv, IsClose
  <2>4. Top.op = "skip" => rec.closed
    BY <1>1, <1>2 DEF CallsInv, FrameOK, HasNoLine
  <2>5. rec'.first # "none" =>
          rec'.closed \/ rec'.closing \/ \E i \in DOMAIN stack' : stack'[i].op = "skip"
    BY <1>2, <1>3, <1>4, <2>1, <2>4 DEF CallsInv
  <2> QED
    BY <1>6, <1>7, <1>8, <2>1, <2>2, <2>3, <2>5 DEF CallsInv
<1> QED
  BY <1>9, <1>10

LEMMA NextInv ==
  ASSUME RecorderInv, ClockOnlyAnswers, [Next]_vars
  PROVE  RecorderInv'
<1>1. TypeOK'
  BY NextType DEF RecorderInv
<1>2. /\ TypeOK /\ CallsInv /\ LinesInv
      /\ job \in JobType /\ rec \in RecorderType /\ stack \in Seq(FrameType)
      /\ writes \in Seq(LineType) /\ throws \in Nat
  BY TypeParts DEF RecorderInv
<1> SUFFICES CallsInv' /\ LinesInv'
  BY <1>1 DEF RecorderInv
\* The top frame, and what is said of it.
<1>3. ASSUME stack # <<>>
      PROVE  Top \in FrameType /\ FrameOK(Top)
  BY <1>2, <1>3, TopType DEF CallsInv
<1>4. ASSUME stack # <<>>, UNCHANGED <<job, rec, writes>>,
             NEW f \in FrameType, TopTo(f), f.op = Top.op, FrameOK(f)
      PROVE  CallsInv' /\ LinesInv'
  BY <1>2, <1>4, TopGoesOn, NoClosingLine
<1>5. ASSUME UNCHANGED <<stack, job, rec>>, SameLines \/ UNCHANGED writes
      PROVE  CallsInv' /\ LinesInv'
  <2>1. LinesInv'
    BY <1>2, <1>5, NoClosingLine
  <2>2. CallsInv'
    BY <1>2, <1>5 DEF CallsInv, FrameOK, Finished, IsClose, HasNoLine
  <2> QED
    BY <2>1, <2>2
<1>6. ASSUME NEW op \in {"finish", "fail"}, Close(op)
      PROVE  CallsInv' /\ LinesInv'
  <2>1. CASE Closable
    <3>1. Callable /\ Push(Frame(op, "clock")) /\ rec' = ClosingBy(rec, op) /\ UNCHANGED <<job, writes>>
      BY <1>6, <2>1 DEF Close, Call, ClosingBy
    <3>2. CallsInv' /\ rec'.closed = rec.closed
      BY <1>2, <2>1, <3>1, CloserBegins DEF Closers
    <3>3. LinesInv'
      BY <1>2, <2>1, <3>1, <3>2, NoClosingLine DEF Closable
    <3> QED
      BY <3>2, <3>3
  <2>2. CASE ~Closable
    BY <1>5, <1>6, <2>2 DEF Close
  <2> QED
    BY <2>1, <2>2
<1>7. CASE Skip
  <2>1. CASE Closable
    <3>1. Callable /\ Push(Frame("skip", "clock")) /\ rec' = SkippedBy(rec) /\ UNCHANGED <<job, writes>>
      BY <1>7, <2>1 DEF Skip, Call, SkippedBy
    <3>2. CallsInv' /\ rec'.closed = rec.closed
      BY <1>2, <2>1, <3>1, CloserBegins DEF Closers
    <3>3. LinesInv'
      BY <1>2, <2>1, <3>1, <3>2, NoClosingLine DEF Closable
    <3> QED
      BY <3>2, <3>3
  <2>2. CASE ~Closable
    BY <1>5, <1>7, <2>2 DEF Skip
  <2> QED
    BY <2>1, <2>2
<1>8. CASE Note
  <2>1. Callable /\ Push(Frame("note", "row")) /\ UNCHANGED <<job, rec, writes>>
    BY <1>8 DEF Note, Call
  <2> QED
    BY <1>2, <2>1, NoteBegins, NoClosingLine
<1>9. CASE Clock
  <2> DEFINE next == IF Top.op = "skip" THEN "row" ELSE "build"
  <2>1. stack # <<>> /\ Top.pc = "clock" /\ UNCHANGED <<job, rec, writes>>
    BY <1>9 DEF Clock, At
  <2>2. Goto(next)
    BY <1>9 DEF Clock, Throw, ClockOnlyAnswers
  <2>3. PICK f \in FrameType : TopTo(f) /\ f.op = Top.op /\ f.pc = next
    BY <1>2, <2>1, <2>2, GotoTop
  <2>4. FrameOK(f)
    BY <1>3, <2>1, <2>3 DEF FrameOK, Finished, IsClose, HasNoLine
  <2> QED
    BY <1>4, <2>1, <2>3, <2>4
<1>10. CASE Reported
  <2>1. stack # <<>> /\ Top.pc = "report" /\ UNCHANGED <<job, rec, writes>> /\ Goto(Top.next)
    BY <1>10 DEF Reported, At
  <2>2. Top.next \in {"build", "event", "line", "skeleton", "row", "return"}
    BY <1>3, <2>1 DEF FrameType
  <2>3. PICK f \in FrameType : TopTo(f) /\ f.op = Top.op /\ f.pc = Top.next
    BY <1>2, <2>1, <2>2, GotoTop
  <2>4. FrameOK(f)
    BY <1>3, <2>1, <2>3 DEF FrameOK, Finished, IsClose, HasNoLine
  <2> QED
    BY <1>4, <2>1, <2>3, <2>4
<1>11. CASE Build \/ Event
  <2>1. stack # <<>> /\ Top.pc \in {"build", "event"} /\ UNCHANGED <<job, rec, writes>>
    BY <1>11 DEF Build, Event, At
  <2>2. IsClose(Top) /\ ~rec.closed
    BY <1>3, <2>1 DEF FrameOK, Finished, IsClose, HasNoLine, FrameType, Ops, Closers
  <2>3. \E f \in FrameType :
          /\ TopTo(f) /\ f.op = Top.op
          /\ \/ f.pc \in {"event", "line"}
             \/ f.pc = "report" /\ f.next \in {"line", "return"}
    <3>1. CASE Goto("event") \/ Goto("line")
      BY <1>2, <2>1, <3>1, GotoTop
    <3>2. CASE \E what : Throw(what, "line") \/ Throw(what, "return")
      BY <1>2, <2>1, <3>2, ThrowTop
    <3> QED
      BY <1>11, <3>1, <3>2 DEF Build, Event
  <2>4. PICK f \in FrameType :
          /\ TopTo(f) /\ f.op = Top.op
          /\ \/ f.pc \in {"event", "line"}
             \/ f.pc = "report" /\ f.next \in {"line", "return"}
    BY <2>3
  <2>5. FrameOK(f)
    BY <1>3, <2>1, <2>2, <2>4 DEF FrameOK, Finished, IsClose, HasNoLine
  <2> QED
    BY <1>4, <2>1, <2>4, <2>5
<1>12. CASE FormatRun \/ FormatSkeleton
  <2>1. stack # <<>> /\ Top.pc \in {"line", "skeleton"} /\ UNCHANGED job
    BY <1>12 DEF FormatRun, FormatSkeleton, At
  <2>2. IsClose(Top) /\ ~rec.closed /\ Top.op # "note"
    BY <1>3, <2>1 DEF FrameOK, Finished, IsClose, HasNoLine, FrameType, Ops, Closers
  <2>3. CASE WriteRun
    <3>1. rec' = Closed(rec) /\ Write(Line("run"))
      BY <2>3 DEF WriteRun
    <3>2. PICK f \in FrameType : TopTo(f) /\ f.op = Top.op /\ Finished(f)
      BY <1>2, <2>1, <3>1, WriteAppends DEF Finished
    <3>3. Appended("run")
      BY <1>2, <2>1, <3>1, WriteAppends
    <3>4. CallsInv' /\ rec.first = Top.op
      BY <1>2, <2>1, <2>2, <3>1, <3>2, TopCloses
    <3> QED
      BY <1>2, <2>1, <2>2, <3>1, <3>3, <3>4, FirstClosingLine
  <2>4. CASE Throw("format", "skeleton") /\ UNCHANGED <<rec, writes>>
    <3>1. PICK f \in FrameType : TopTo(f) /\ f.op = Top.op /\ f.pc = "report" /\ f.next = "skeleton"
      BY <1>2, <2>1, <2>4, ThrowTop
    <3>2. FrameOK(f)
      BY <1>3, <2>1, <2>2, <3>1 DEF FrameOK, Finished, IsClose, HasNoLine
    <3> QED
      BY <1>4, <2>1, <2>4, <3>1, <3>2
  <2>5. CASE Throw("skeleton", "return") /\ UNCHANGED <<rec, writes>>
    <3>1. PICK f \in FrameType : TopTo(f) /\ f.op = Top.op /\ f.pc = "report" /\ f.next = "return"
      BY <1>2, <2>1, <2>5, ThrowTop
    <3>2. FrameOK(f)
      BY <1>3, <2>1, <2>2, <3>1 DEF FrameOK, Finished, IsClose, HasNoLine
    <3> QED
      BY <1>4, <2>1, <2>5, <3>1, <3>2
  <2> QED
    BY <1>12, <2>3, <2>4, <2>5 DEF FormatRun, FormatSkeleton
<1>13. CASE WriteRow
  <2>1. stack # <<>> /\ Top.pc = "row" /\ UNCHANGED job
    BY <1>13 DEF WriteRow, At
  <2>2. \/ Top.op = "note"
        \/ Top.op = "skip" /\ ~rec.closed
    BY <1>3, <2>1 DEF FrameOK, Finished, IsClose, HasNoLine, FrameType, Ops, Closers
  <2>3. CASE Top.op = "note"
    <3>1. Write(Line("note")) /\ UNCHANGED rec
      BY <1>13, <2>3 DEF WriteRow
    <3>2. PICK f \in FrameType : TopTo(f) /\ f.op = Top.op /\ Finished(f)
      BY <1>2, <2>1, <3>1, WriteAppends DEF Finished
    <3>3. Appended("note")
      BY <1>2, <2>1, <3>1, WriteAppends
    <3>4. FrameOK(f)
      BY <2>3, <3>2 DEF FrameOK, Finished, IsClose
    <3>5. CallsInv'
      BY <1>2, <2>1, <3>1, <3>2, <3>4, TopGoesOn
    <3> QED
      BY <1>2, <2>1, <3>1, <3>3, <3>5, NoClosingLine
  <2>4. CASE Top.op = "skip" /\ ~rec.closed
    <3>1. Write(Line("skip")) /\ rec' = Closed(rec)
      BY <1>13, <2>4 DEF WriteRow
    <3>2. PICK f \in FrameType : TopTo(f) /\ f.op = Top.op /\ Finished(f)
      BY <1>2, <2>1, <3>1, WriteAppends DEF Finished
    <3>3. Appended("skip")
      BY <1>2, <2>1, <3>1, WriteAppends
    <3>4. CallsInv' /\ rec.first = Top.op
      BY <1>2, <2>1, <2>4, <3>1, <3>2, TopCloses
    <3> QED
      BY <1>2, <2>1, <2>4, <3>1, <3>3, <3>4, FirstClosingLine
  <2> QED
    BY <2>2, <2>3, <2>4
<1>14. CASE Return
  <2>1. UNCHANGED <<job, writes>>
    BY <1>14 DEF Return
  <2> QED
    BY <1>2, <1>14, <2>1, CallReturns, NoClosingLine
<1>15. ASSUME NEW i \in DOMAIN writes, Land(i) \/ Settle(i) \/ Timeout(i)
       PROVE  CallsInv' /\ LinesInv'
  <2>1. SameLines
    BY <1>2, <1>15, UpdatedLine
  <2> QED
    BY <1>5, <1>15, <2>1 DEF Land, Settle, Timeout
\* Between attempts nothing is under way.
<1>16. ASSUME stack = <<>>, UNCHANGED <<stack, writes>>,
              job'.active = job.active, UNCHANGED rec
       PROVE  CallsInv' /\ LinesInv'
  <2>1. DOMAIN stack = {}
    BY <1>16
  <2>2. LinesInv'
    BY <1>2, <1>16, NoClosingLine
  <2>3. CallsInv'
    BY <1>2, <1>16, <2>1 DEF CallsInv
  <2> QED
    BY <2>2, <2>3
<1>17. CASE Activate
  <2>1. stack = <<>> /\ UNCHANGED <<stack, writes>> /\ DOMAIN stack = {}
    BY <1>2, <1>17 DEF Activate, CallsInv
  <2>2. job'.active = job.active + 1 /\ job.active \in Nat
    BY <1>2, <1>17 DEF Activate, JobType
  <2>3. ~rec'.closed /\ ~rec'.closing /\ rec'.first = "none"
    BY <1>17 DEF Activate, NewAttempt, NewRecorder
  <2>4. CallsInv'
    BY <2>1, <2>3 DEF CallsInv
  <2>5. \A i \in DOMAIN writes : writes[i].owner \in Nat
    <3>1. \A i \in DOMAIN writes : writes[i] \in LineType
      BY <1>2, ElementOfSeq, LenProperties
    <3> QED
      BY <3>1 DEF LineType
  <2>6. \A i \in DOMAIN writes : writes[i].owner # job'.active /\ writes[i].owner <= job'.active
    BY <1>2, <2>2, <2>5 DEF LinesInv
  <2>7. LinesInv'
    BY <1>2, <2>1, <2>3, <2>6 DEF LinesInv, IsClosing
  <2> QED
    BY <2>4, <2>7
<1>18. CASE (\E status \in {"waiting", "stalledOut"} : Stall(status)) \/ ManualRetry \/ \E status \in {"completed", "failed", "waiting"} : End(status)
  <2>1. stack = <<>> /\ UNCHANGED <<stack, writes, rec>>
    BY <1>2, <1>18 DEF Stall, ManualRetry, End, CallsInv
  <2>2. job'.active = job.active
    BY <1>2, <1>18 DEF Stall, ManualRetry, End, JobType
  <2> QED
    BY <1>16, <2>1, <2>2
<1>19. CASE UNCHANGED vars
  BY <1>5, <1>19 DEF vars
<1>20. CASE Next
  BY <1>6, <1>7, <1>8, <1>9, <1>10, <1>11, <1>12, <1>13, <1>14, <1>15, <1>17, <1>18, <1>20
     DEF Next, Step
<1> QED
  BY <1>19, <1>20

\* First of finish, fail and skip wins, whatever the listeners call and throw, for clocks that only
\* answer: an attempt has one closing line at most, of the call that came first, just when its
\* recorder is closed, and the recorder is closing only while a call closes it.
THEOREM OneClosingLineHolds ==
  ASSUME ClockOnlyAnswers
  PROVE  Spec => []OneClosingLine
<1>1. Init => RecorderInv
  BY InitInv
<1>2. RecorderInv /\ [Next]_vars => RecorderInv'
  BY ClockOnlyAnswers, NextInv
<1>3. RecorderInv => OneClosingLine
  BY InvImpliesOneClosingLine
<1> QED
  BY <1>1, <1>2, <1>3, PTL DEF Spec
-----------------------------------------------------------------------------
(* The lines of the last attempt *)

\* Bull does not count an attempt that stalled: from then on its numbers are not those of the
\* activations.
Numbered == ~(job.library = "bull" /\ job.stalled)

\* How the libraries count.
JobNumbers ==
  /\ job.library \in {"bull", "bullmq4", "bullmq5"}
  /\ job.status # "waiting" => job.active >= 1
  /\ job.library = "bullmq5" => job.started = job.active
  /\ job.library # "bullmq5" => job.started = 0
  /\ job.library = "bullmq4" => job.made = job.active
  /\ job.library = "bull" /\ ~job.stalled =>
       job.active = IF job.status \in {"active", "completed"} THEN job.made + 1 ELSE job.made

RecorderNumber ==
  ~rec.noop =>
    /\ Numbered => rec.attempt = job.active
    /\ job.library = "bull" /\ job.status \in {"active", "completed"} => rec.attempt = job.made + 1
    /\ job.library = "bull" /\ job.status = "failed" => rec.attempt = job.made

LineNumbers == Numbered => \A i \in DOMAIN writes : writes[i].attempt = writes[i].owner

CallsOnRecorder == stack # <<>> => job.status = "active" /\ ~rec.noop

NumbersInv == TypeOK /\ JobNumbers /\ RecorderNumber /\ LineNumbers /\ CallsOnRecorder

LEMMA InitNumbers == Init => NumbersInv
<1> SUFFICES ASSUME Init PROVE NumbersInv
  OBVIOUS
<1>1. TypeOK
  BY InitType
<1>2. writes = <<>> /\ DOMAIN writes = {} /\ stack = <<>>
  BY DEF Init
<1>3. JobNumbers
  BY AgentRecorderAssumption DEF Init, JobNumbers, AgentRecorderAssumption
<1>4. RecorderNumber
  BY DEF Init, NewRecorder, RecorderNumber
<1> QED
  BY <1>1, <1>2, <1>3, <1>4 DEF NumbersInv, LineNumbers, CallsOnRecorder

LEMMA NumbersImplyLines == NumbersInv => LinesOfLastAttempt
<1> SUFFICES ASSUME NumbersInv, job.status \notin {"waiting", "active"}
             PROVE  /\ ~rec.noop /\ rec.attempt # TerminalAttempts(job) =>
                         job.library = "bull" /\ job.status = "stalledOut"
                    /\ \A i \in DOMAIN writes :
                         writes[i].attempt = TerminalAttempts(job) /\ writes[i].owner # job.active =>
                           job.library = "bull" /\ job.stalled
  BY DEF LinesOfLastAttempt
<1>1. /\ job \in JobType /\ rec \in RecorderType
      /\ JobNumbers /\ RecorderNumber /\ LineNumbers
  BY TypeParts DEF NumbersInv
<1>2. /\ job.made \in Nat /\ job.started \in Nat /\ job.active \in Nat \ {0}
      /\ rec.attempt \in Nat \ {0}
  BY <1>1 DEF JobType, RecorderType, JobNumbers
<1>3. Numbered => TerminalAttempts(job) = job.active
  BY <1>1, <1>2 DEF Numbered, JobNumbers, TerminalAttempts, AtLeastOne
<1>4. ~rec.noop /\ rec.attempt # TerminalAttempts(job) =>
        job.library = "bull" /\ job.status = "stalledOut"
  <2>1. CASE Numbered
    BY <1>1, <1>3, <2>1 DEF RecorderNumber
  <2>2. CASE ~Numbered
    <3>1. job.library = "bull" /\ job.status \in {"completed", "failed", "stalledOut"}
      BY <1>1, <2>2 DEF Numbered, JobNumbers, JobType, Status
    <3> QED
      BY <1>1, <1>2, <3>1 DEF RecorderNumber, TerminalAttempts, AtLeastOne
  <2> QED
    BY <2>1, <2>2
<1> QED
  BY <1>1, <1>3, <1>4 DEF LineNumbers, Numbered

\* The calls of the recorder change neither the job nor its numbers.
LEMMA CallKeepsNumbers ==
  ASSUME NumbersInv, UNCHANGED job, SameAttempt(rec', rec),
         \/ SameLines \/ UNCHANGED writes
         \/ stack # <<>> /\ \E kind : Appended(kind),
         stack' # <<>> => stack # <<>> \/ (job.status = "active" /\ ~rec.noop)
  PROVE  JobNumbers' /\ RecorderNumber' /\ LineNumbers' /\ CallsOnRecorder'
<1>1. JobNumbers'
  BY DEF NumbersInv, JobNumbers
<1>2. RecorderNumber'
  BY DEF NumbersInv, RecorderNumber, SameAttempt, Numbered
<1>3. CallsOnRecorder'
  BY DEF NumbersInv, CallsOnRecorder, SameAttempt
<1>4. LineNumbers'
  <2>1. CASE SameLines \/ UNCHANGED writes
    BY <2>1 DEF NumbersInv, LineNumbers, Numbered, SameLines
  <2>2. CASE stack # <<>> /\ \E kind : Appended(kind)
    <3> DEFINE n == Len(writes) + 1
    <3>1. writes \in Seq(LineType)
      BY TypeParts DEF NumbersInv
    <3>2. /\ writes'[n].owner = job.active /\ writes'[n].attempt = rec.attempt
          /\ \A i \in DOMAIN writes : writes'[i] = writes[i]
          /\ \A i \in DOMAIN writes' : i = n \/ i \in DOMAIN writes
      BY <2>2, <3>1, AppendedLines
    <3> HIDE DEF n
    <3>3. Numbered => rec.attempt = job.active
      BY <2>2 DEF NumbersInv, CallsOnRecorder, RecorderNumber
    <3> QED
      BY <3>2, <3>3 DEF NumbersInv, LineNumbers, Numbered
  <2> QED
    BY <2>1, <2>2
<1> QED
  BY <1>1, <1>2, <1>3, <1>4

LEMMA NextNumbers ==
  ASSUME NumbersInv, [Next]_vars
  PROVE  NumbersInv'
<1>1. /\ TypeOK /\ JobNumbers /\ RecorderNumber /\ LineNumbers /\ CallsOnRecorder
      /\ job \in JobType /\ rec \in RecorderType /\ stack \in Seq(FrameType)
      /\ writes \in Seq(LineType) /\ throws \in Nat
  BY TypeParts DEF NumbersInv
<1>2. TypeOK'
  BY <1>1, NextType
<1> SUFFICES JobNumbers' /\ RecorderNumber' /\ LineNumbers' /\ CallsOnRecorder'
  BY <1>2 DEF NumbersInv
<1>3. /\ job.made \in Nat /\ job.started \in Nat /\ job.active \in Nat
      /\ SameAttempt(rec, rec)
  BY <1>1 DEF JobType, SameAttempt
<1>4. CASE (\E op \in {"finish", "fail"} : Close(op)) \/ Skip \/ Note
  <2>1. UNCHANGED <<job, writes>> /\ job.status = "active" /\ ~rec.noop
    BY <1>4 DEF Close, Skip, Note, Call, Callable
  <2>2. SameAttempt(rec', rec)
    <3>1. (\E op : rec' = ClosingBy(rec, op)) \/ rec' = SkippedBy(rec) \/ rec' = rec
      BY <1>4 DEF Close, Skip, Note, ClosingBy, SkippedBy
    <3> QED
      BY <1>1, <1>3, <3>1, RecorderAttempt
  <2> QED
    BY <2>1, <2>2, CallKeepsNumbers
<1>5. CASE Clock \/ Reported \/ Build \/ Event
  <2>1. stack # <<>> /\ UNCHANGED <<job, rec, writes>>
    BY <1>5 DEF Clock, Reported, Build, Event, At
  <2> QED
    BY <1>3, <2>1, CallKeepsNumbers
<1>6. CASE FormatRun \/ FormatSkeleton \/ WriteRow
  <2>1. stack # <<>> /\ UNCHANGED job
    BY <1>6 DEF FormatRun, FormatSkeleton, WriteRow, At
  <2>2. UNCHANGED writes \/ \E kind : Appended(kind)
    <3>1. \/ UNCHANGED writes
          \/ \E kind \in {"run", "skip", "note"} : Write(Line(kind))
      BY <1>6 DEF FormatRun, FormatSkeleton, WriteRun, WriteRow
    <3> QED
      BY <1>1, <2>1, <3>1, WriteAppends
  <2>3. SameAttempt(rec', rec)
    <3>1. rec' = Closed(rec) \/ rec' = rec
      BY <1>6 DEF FormatRun, FormatSkeleton, WriteRun, WriteRow
    <3> QED
      BY <1>1, <1>3, <3>1, RecorderAttempt
  <2> QED
    BY <2>1, <2>2, <2>3, CallKeepsNumbers
<1>7. CASE Return
  <2>1. stack # <<>> /\ UNCHANGED <<job, writes>>
    BY <1>7 DEF Return, At
  <2>2. SameAttempt(rec', rec)
    <3>1. rec' = NotClosing(rec) \/ rec' = rec
      BY <1>7 DEF Return
    <3> QED
      BY <1>1, <1>3, <3>1, RecorderAttempt
  <2> QED
    BY <2>1, <2>2, CallKeepsNumbers
<1>8. CASE \E i \in DOMAIN writes : Land(i) \/ Settle(i) \/ Timeout(i)
  <2>1. SameLines
    BY <1>1, <1>8, UpdatedLine
  <2>2. UNCHANGED <<job, rec, stack>>
    BY <1>8 DEF Land, Settle, Timeout
  <2> QED
    BY <1>3, <2>1, <2>2, CallKeepsNumbers
<1>9. CASE Activate
  <2>1. /\ stack = <<>> /\ UNCHANGED <<stack, writes>> /\ job.status = "waiting"
    BY <1>1, <1>9 DEF Activate, CallsOnRecorder
  <2>2. /\ job'.library = job.library /\ job'.status = "active" /\ job'.active = job.active + 1
        /\ job'.stalled = job.stalled
        /\ job'.made = IF job.library = "bullmq4" THEN job.made + 1 ELSE job.made
        /\ job'.started = IF job.library = "bullmq5" THEN job.started + 1 ELSE job.started
    BY <1>1, <1>9 DEF Activate, JobType
  <2>3. JobNumbers'
    BY <1>1, <1>3, <2>1, <2>2 DEF JobNumbers
  <2>4. ~rec'.noop => rec'.attempt = CurrentAttempt(job')
    BY <1>9 DEF Activate, NewAttempt, NewRecorder
  <2>5. RecorderNumber'
    <3>1. /\ Numbered' => CurrentAttempt(job') = job'.active
          /\ job'.library = "bull" => CurrentAttempt(job') = job'.made + 1
      BY <1>1, <1>3, <2>1, <2>2 DEF JobNumbers, Numbered, CurrentAttempt, AtLeastOne
    <3> QED
      BY <2>2, <2>4, <3>1 DEF RecorderNumber
  <2>6. LineNumbers'
    BY <1>1, <2>1, <2>2 DEF LineNumbers, Numbered
  <2> QED
    BY <2>1, <2>3, <2>5, <2>6 DEF CallsOnRecorder
<1>10. ASSUME stack = <<>>, UNCHANGED <<stack, writes, rec>>,
              job'.library = job.library, job.stalled => job'.stalled, JobNumbers', RecorderNumber'
       PROVE  JobNumbers' /\ RecorderNumber' /\ LineNumbers' /\ CallsOnRecorder'
  BY <1>1, <1>10 DEF LineNumbers, Numbered, CallsOnRecorder
<1>11. ASSUME NEW status \in {"completed", "failed", "waiting"}, End(status)
       PROVE  JobNumbers' /\ RecorderNumber' /\ LineNumbers' /\ CallsOnRecorder'
  <2>1. /\ stack = <<>> /\ UNCHANGED <<stack, writes, rec>> /\ job.status = "active"
        /\ job'.library = job.library /\ job'.status = status /\ job'.active = job.active
        /\ job'.stalled = job.stalled /\ job'.started = job.started
        /\ job'.made = IF status = "completed" \/ job.library = "bullmq4" THEN job.made
                       ELSE job.made + 1
    BY <1>1, <1>11 DEF End, JobType
  <2>2. JobNumbers' /\ RecorderNumber'
    BY <1>1, <1>3, <1>11, <2>1 DEF JobNumbers, RecorderNumber, Numbered
  <2> QED
    BY <1>10, <2>1, <2>2
<1>12. CASE (\E status \in {"waiting", "stalledOut"} : Stall(status)) \/ ManualRetry
  <2>1. /\ stack = <<>> /\ UNCHANGED <<stack, writes, rec>>
        /\ job'.library = job.library /\ job'.active = job.active
        /\ job'.made = job.made /\ job'.started = job.started
        /\ \/ /\ job.status = "active" /\ job'.stalled = TRUE
              /\ job'.status \in {"waiting", "stalledOut"}
           \/ /\ job.status \in {"failed", "stalledOut"} /\ job'.stalled = job.stalled
              /\ job'.status = "waiting"
    BY <1>1, <1>12 DEF Stall, ManualRetry, JobType, CallsOnRecorder
  <2>2. JobNumbers' /\ RecorderNumber'
    BY <1>1, <1>3, <2>1 DEF JobNumbers, RecorderNumber, Numbered
  <2> QED
    BY <1>10, <2>1, <2>2
<1>13. CASE UNCHANGED vars
  BY <1>3, <1>13, CallKeepsNumbers DEF vars
<1>14. CASE Next
  BY <1>4, <1>5, <1>6, <1>7, <1>8, <1>9, <1>11, <1>12, <1>14 DEF Next, Step
<1> QED
  BY <1>13, <1>14

\* When the job ends, the monitor's number of the attempt is the one its worker wrote, but for a
\* Bull job failed for its stalls, and no earlier attempt wrote lines of that number, but for a
\* Bull job that stalled.
THEOREM LinesOfLastAttemptHolds == Spec => []LinesOfLastAttempt
  BY InitNumbers, NextNumbers, NumbersImplyLines, PTL DEF Spec
=============================================================================
