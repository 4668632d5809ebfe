--------------------------- MODULE FlowIndex_proofs ---------------------------
(***************************************************************************)
(* Proofs about FlowIndex, for any handlers, traces, jobs, keys, limits    *)
(* and bounds.                                                             *)
(***************************************************************************)
EXTENDS FlowIndex, Sums_proofs, SequenceTheorems

\* What Without keeps of the first i elements of s, for i up to n.
AreKept(k, n, s, gone, S) ==
  /\ k \in [0 .. n -> Seq(S)] /\ k[0] = <<>>
  /\ \A i \in 1 .. n : k[i] = IF s[i] \in gone THEN k[i - 1] ELSE Append(k[i - 1], s[i])

LEMMA KeptExist ==
  ASSUME NEW S, NEW s \in Seq(S), NEW gone
  PROVE  \E k : AreKept(k, Len(s), s, gone, S)
<1> DEFINE n == Len(s)
           P == {m \in Nat : m <= n => \E k : AreKept(k, m, s, gone, S)}
<1>0. n \in Nat /\ \A i \in 1 .. n : s[i] \in S
  OBVIOUS
<1> HIDE DEF n
<1>1. 0 \in P
  <2>1. AreKept([i \in 0 .. 0 |-> <<>>], 0, s, gone, S)
    BY DEF AreKept
  <2> QED
    BY <2>1
<1>2. ASSUME NEW m \in Nat, m \in P
      PROVE  m + 1 \in P
  <2> SUFFICES ASSUME m + 1 <= n PROVE \E k : AreKept(k, m + 1, s, gone, S)
    OBVIOUS
  <2>1. PICK k : AreKept(k, m, s, gone, S)
    BY <1>0, <1>2
  <2> DEFINE last == IF s[m + 1] \in gone THEN k[m] ELSE Append(k[m], s[m + 1])
             t == [i \in 0 .. m + 1 |-> IF i = m + 1 THEN last ELSE k[i]]
  <2>2. k[m] \in Seq(S) /\ s[m + 1] \in S
    BY <1>0, <2>1 DEF AreKept
  <2>3. last \in Seq(S)
    BY <2>2
  <2>4. k \in [0 .. m -> Seq(S)] /\ k[0] = <<>>
    BY <2>1 DEF AreKept
  <2>5. t[m + 1] = last /\ \A i \in 0 .. m : t[i] = k[i]
    OBVIOUS
  <2>6. t \in [0 .. m + 1 -> Seq(S)] /\ t[0] = <<>>
    <3> HIDE DEF last
    <3> QED
      BY <2>3, <2>4
  <2> HIDE DEF t
  <2>7. ASSUME NEW i \in 1 .. m + 1
        PROVE  t[i] = IF s[i] \in gone THEN t[i - 1] ELSE Append(t[i - 1], s[i])
    <3>1. CASE i = m + 1
      BY <2>5, <3>1
    <3>2. CASE i \in 1 .. m
      <4>1. t[i] = k[i] /\ t[i - 1] = k[i - 1]
        BY <2>5, <3>2
      <4> QED
        BY <2>1, <3>2, <4>1 DEF AreKept
    <3> QED
      BY <3>1, <3>2
  <2>8. AreKept(t, m + 1, s, gone, S)
    BY <2>6, <2>7 DEF AreKept
  <2> QED
    BY <2>8
<1> HIDE DEF P
<1>3. n \in P
  BY <1>0, <1>1, <1>2, SetInduction
<1> QED
  BY <1>3 DEF P, n

\* Without is what is kept of the whole sequence.
LEMMA WithoutIsKept ==
  ASSUME NEW S, NEW s \in Seq(S), NEW gone
  PROVE  \E k : AreKept(k, Len(s), s, gone, S) /\ Without(s, gone) = k[Len(s)]
<1> DEFINE n == Len(s)
           Is(k) == k = [i \in 0 .. n |-> IF i = 0 THEN <<>>
                                          ELSE IF s[i] \in gone THEN k[i - 1]
                                               ELSE Append(k[i - 1], s[i])]
           p == CHOOSE k : Is(k)
<1>0. n \in Nat
  OBVIOUS
<1>1. PICK k : AreKept(k, n, s, gone, S)
  BY KeptExist
<1> HIDE DEF n
<1>2. Is(k)
  <2>1. k \in [0 .. n -> Seq(S)]
    BY <1>1 DEF AreKept
  <2>2. ASSUME NEW i \in 0 .. n
        PROVE  k[i] = IF i = 0 THEN <<>>
                      ELSE IF s[i] \in gone THEN k[i - 1] ELSE Append(k[i - 1], s[i])
    <3>1. CASE i = 0
      BY <1>1, <3>1 DEF AreKept
    <3>2. CASE i \in 1 .. n
      BY <1>1, <3>2 DEF AreKept
    <3> QED
      BY <1>0, <3>1, <3>2
  <2> QED
    BY <2>1, <2>2, Zenon
<1>3. Is(p)
  BY <1>2, Zenon
<1>4. Without(s, gone) = p[n]
  BY DEF Without, n
<1> HIDE DEF p
<1>5. p = [i \in 0 .. n |-> IF i = 0 THEN <<>>
                            ELSE IF s[i] \in gone THEN p[i - 1] ELSE Append(p[i - 1], s[i])]
  BY <1>3, Zenon
<1>6. DOMAIN p = 0 .. n /\ p[0] = <<>>
  BY <1>0, <1>5
<1>7. \A i \in 1 .. n : p[i] = IF s[i] \in gone THEN p[i - 1] ELSE Append(p[i - 1], s[i])
  <2>1. ASSUME NEW i \in 0 .. n
        PROVE  p[i] = IF i = 0 THEN <<>>
                      ELSE IF s[i] \in gone THEN p[i - 1] ELSE Append(p[i - 1], s[i])
    BY <1>5, Zenon
  <2>2. \A i \in 1 .. n : i \in 0 .. n /\ i # 0
    BY <1>0
  <2> QED
    BY <2>1, <2>2
<1> DEFINE P == {m \in Nat : m <= n => p[m] = k[m]}
<1>8. 0 \in P
  BY <1>1, <1>6 DEF AreKept
<1>9. \A m \in Nat : m \in P => m + 1 \in P
  <2> SUFFICES ASSUME NEW m \in Nat, m \in P, m + 1 <= n PROVE p[m + 1] = k[m + 1]
    OBVIOUS
  <2>1. p[m] = k[m] /\ m + 1 \in 1 .. n /\ m + 1 - 1 = m
    BY <1>0
  <2> QED
    BY <1>1, <1>7, <2>1 DEF AreKept
<1> HIDE DEF P
<1>10. \A m \in Nat : m \in P
  BY <1>8, <1>9, SetInduction
<1>11. p[n] = k[n]
  BY <1>0, <1>10 DEF P
<1> QED
  BY <1>1, <1>4, <1>11 DEF n

\* Without removes exactly the elements of the set, and repeats none.
LEMMA WithoutRemoves ==
  ASSUME NEW S, NEW s \in Seq(S), NEW gone
  PROVE  /\ Without(s, gone) \in Seq(S)
         /\ ToSet(Without(s, gone)) = ToSet(s) \ gone
         /\ IsInjective(s) => IsInjective(Without(s, gone))
<1> DEFINE n == Len(s)
<1>1. PICK k : AreKept(k, n, s, gone, S) /\ Without(s, gone) = k[n]
  BY WithoutIsKept
<1>2. n \in Nat /\ DOMAIN s = 1 .. n
  OBVIOUS
<1> HIDE DEF n
<1>3. \A i \in 0 .. n : k[i] \in Seq(S)
  BY <1>1 DEF AreKept
<1> DEFINE Good(m) == /\ \A x : (\E i \in DOMAIN k[m] : k[m][i] = x)
                              <=> ((\E i \in 1 .. m : s[i] = x) /\ x \notin gone)
                      /\ IsInjective(s) => IsInjective(k[m])
           P == {m \in Nat : m <= n => Good(m)}
<1>4. 0 \in P
  <2>1. k[0] = <<>> /\ DOMAIN k[0] = {}
    BY <1>1 DEF AreKept
  <2> QED
    BY <2>1 DEF IsInjective
<1>5. ASSUME NEW m \in Nat, m \in P
      PROVE  m + 1 \in P
  <2> SUFFICES ASSUME m + 1 <= n PROVE Good(m + 1)
    OBVIOUS
  <2>1. Good(m)
    BY <1>2, <1>5
  <2>2. m + 1 \in 1 .. n /\ m + 1 - 1 = m /\ m \in 0 .. n
    BY <1>2
  <2>3. k[m + 1] = IF s[m + 1] \in gone THEN k[m] ELSE Append(k[m], s[m + 1])
    BY <1>1, <2>2 DEF AreKept
  <2>4. \A x : (\E i \in 1 .. m + 1 : s[i] = x) <=> ((\E i \in 1 .. m : s[i] = x) \/ s[m + 1] = x)
    <3>1. \A i : i \in 1 .. m + 1 <=> (i \in 1 .. m \/ i = m + 1)
      OBVIOUS
    <3> QED
      BY <3>1, Zenon
  <2>5. CASE s[m + 1] \in gone
    <3>1. k[m + 1] = k[m]
      BY <2>3, <2>5
    <3> QED
      BY <2>1, <2>4, <2>5, <3>1, Zenon
  <2>6. CASE s[m + 1] \notin gone
    <3> DEFINE q == k[m]
               e == s[m + 1]
               l == Len(q)
    <3>1. k[m + 1] = Append(q, e) /\ q \in Seq(S) /\ e \in S
      BY <1>2, <1>3, <2>2, <2>3, <2>6
    <3>2. l \in Nat /\ DOMAIN q = 1 .. l
      BY <3>1
    <3>3. /\ DOMAIN k[m + 1] = 1 .. l + 1
          /\ k[m + 1][l + 1] = e
          /\ \A i \in 1 .. l : k[m + 1][i] = q[i]
      BY <3>1
    <3>4. \A i : i \in 1 .. l + 1 <=> (i \in 1 .. l \/ i = l + 1)
      BY <3>2
    <3>5. \A x : (\E i \in DOMAIN k[m + 1] : k[m + 1][i] = x)
               <=> ((\E i \in DOMAIN q : q[i] = x) \/ x = e)
      <4> HIDE DEF q, e, l
      <4> QED
        BY <3>2, <3>3, <3>4, Zenon
    <3>6. \A x : (\E i \in DOMAIN q : q[i] = x) <=> ((\E i \in 1 .. m : s[i] = x) /\ x \notin gone)
      BY <2>1
    <3>7. \A x : (\E i \in DOMAIN k[m + 1] : k[m + 1][i] = x)
               <=> ((\E i \in 1 .. m + 1 : s[i] = x) /\ x \notin gone)
      BY <2>4, <2>6, <3>5, <3>6, Zenon
    <3>8. ASSUME IsInjective(s)
          PROVE  IsInjective(k[m + 1])
      <4>1. \A i \in 1 .. m : i \in DOMAIN s /\ i # m + 1
        BY <1>2, <2>2
      <4>2. \A i \in 1 .. m : s[i] # e
        BY <1>2, <2>2, <3>8, <4>1 DEF IsInjective
      <4>3. \A i \in DOMAIN q : q[i] # e
        BY <3>6, <4>2, Zenon
      <4>4. IsInjective(q)
        BY <2>1, <3>8
      <4>5. ASSUME NEW a \in 1 .. l + 1, NEW b \in 1 .. l + 1, k[m + 1][a] = k[m + 1][b]
            PROVE  a = b
        <5> HIDE DEF q, e, l
        <5>1. CASE a \in 1 .. l /\ b \in 1 .. l
          BY <3>2, <3>3, <4>4, <4>5, <5>1 DEF IsInjective
        <5>2. CASE a = l + 1 /\ b = l + 1
          BY <5>2
        <5>3. CASE a \in 1 .. l /\ b = l + 1
          BY <3>2, <3>3, <4>3, <4>5, <5>3
        <5>4. CASE a = l + 1 /\ b \in 1 .. l
          BY <3>2, <3>3, <4>3, <4>5, <5>4
        <5> QED
          BY <3>4, <5>1, <5>2, <5>3, <5>4
      <4> QED
        BY <3>3, <4>5 DEF IsInjective
    <3> QED
      BY <3>7, <3>8
  <2> QED
    BY <2>5, <2>6
<1> HIDE DEF P
<1>6. n \in P
  BY <1>2, <1>4, <1>5, SetInduction
<1>7. Good(n)
  BY <1>2, <1>6 DEF P
<1>8. ToSet(k[n]) = ToSet(s) \ gone
  BY <1>2, <1>7 DEF ToSet
<1> QED
  BY <1>1, <1>2, <1>3, <1>7, <1>8

\* A new element may take any place of a sequence.
LEMMA InsertAdds ==
  ASSUME NEW S, NEW s \in Seq(S), NEW x \in S, x \notin ToSet(s), IsInjective(s),
         NEW i \in 1 .. Len(s) + 1
  PROVE  /\ InsertAt(s, i, x) \in Seq(S)
         /\ ToSet(InsertAt(s, i, x)) = ToSet(s) \cup {x}
         /\ IsInjective(InsertAt(s, i, x))
<1> DEFINE n == Len(s)
           t == InsertAt(s, i, x)
<1>1. n \in Nat /\ DOMAIN s = 1 .. n
  OBVIOUS
<1>2. /\ t \in Seq(S) /\ Len(t) = n + 1
      /\ \A j \in 1 .. n + 1 : t[j] = IF j < i THEN s[j] ELSE IF j = i THEN x ELSE s[j - 1]
  <2> DEFINE u == SubSeq(s, 1, i - 1)
             v == SubSeq(s, i, n)
             w == u \o <<x>>
  <2>1. t = w \o v
    BY DEF InsertAt
  <2>2. i \in 1 .. n + 1 /\ i - 1 \in 0 .. n
    BY <1>1
  <2>3. u \in Seq(S) /\ Len(u) = i - 1 /\ \A j \in 1 .. i - 1 : u[j] = s[j]
    BY <1>1, <2>2
  <2>4. v \in Seq(S) /\ Len(v) = n - i + 1 /\ \A j \in 1 .. n - i + 1 : v[j] = s[i + j - 1]
    BY <1>1, <2>2
  <2> HIDE DEF t, n, u, v
  <2>5. /\ w \in Seq(S) /\ Len(w) = i /\ w[i] = x
        /\ \A j \in 1 .. i - 1 : w[j] = s[j]
    BY <1>1, <2>2, <2>3
  <2> HIDE DEF w
  <2>6. /\ t \in Seq(S) /\ Len(t) = n + 1
        /\ \A j \in 1 .. n + 1 : t[j] = IF j <= i THEN w[j] ELSE v[j - i]
    <3>1. Len(w) + Len(v) = n + 1
      BY <1>1, <2>2, <2>4, <2>5
    <3>2. w \in Seq(S) /\ v \in Seq(S)
      BY <2>4, <2>5
    <3>3. /\ w \o v \in Seq(S) /\ Len(w \o v) = Len(w) + Len(v)
          /\ \A j \in 1 .. Len(w) + Len(v) : (w \o v)[j] = IF j <= Len(w) THEN w[j] ELSE v[j - Len(w)]
      BY <3>2, ConcatProperties, Zenon
    <3>4. Len(w) = i
      BY <2>5
    <3> QED
      BY <2>1, <3>1, <3>3, <3>4, Zenon
  <2>7. ASSUME NEW j \in 1 .. n + 1
        PROVE  t[j] = IF j < i THEN s[j] ELSE IF j = i THEN x ELSE s[j - 1]
    <3>1. CASE j < i
      BY <1>1, <2>2, <2>5, <2>6, <3>1
    <3>2. CASE j = i
      BY <1>1, <2>2, <2>5, <2>6, <3>2
    <3>3. CASE j > i
      <4>1. j - i \in 1 .. n - i + 1 /\ i + (j - i) - 1 = j - 1
        BY <1>1, <2>2, <3>3
      <4>2. t[j] = v[j - i]
        BY <1>1, <2>2, <2>6, <3>3
      <4> QED
        BY <2>2, <2>4, <3>3, <4>1, <4>2
    <3> QED
      BY <1>1, <2>2, <3>1, <3>2, <3>3
  <2> QED
    BY <2>6, <2>7
<1>3. DOMAIN t = 1 .. n + 1
  BY <1>2
<1> HIDE DEF t, n
<1>4. \A j \in 1 .. n : s[j] # x
  BY <1>1 DEF ToSet
<1>5. IsInjective(t)
  <2> SUFFICES ASSUME NEW a \in 1 .. n + 1, NEW b \in 1 .. n + 1, t[a] = t[b] PROVE a = b
    BY <1>3 DEF IsInjective
  <2>1. \A a1, b1 \in 1 .. n : s[a1] = s[b1] => a1 = b1
    BY <1>1 DEF IsInjective
  <2> DEFINE From(j) == IF j < i THEN j ELSE j - 1
  <2>2. i \in Nat
    BY <1>1
  <2>3. \A j \in 1 .. n + 1 : j # i => From(j) \in 1 .. n /\ t[j] = s[From(j)]
    <3> SUFFICES ASSUME NEW j \in 1 .. n + 1, j # i PROVE From(j) \in 1 .. n /\ t[j] = s[From(j)]
      OBVIOUS
    <3>1. i \in 1 .. n + 1
      BY DEF n
    <3> QED
      BY <1>1, <1>2, <3>1
  <2>4. t[i] = x
    BY <1>1, <1>2 DEF n
  <2>5. CASE a = i
    BY <1>4, <2>3, <2>4, <2>5
  <2>6. CASE b = i
    BY <1>4, <2>3, <2>4, <2>6
  <2>7. CASE a # i /\ b # i
    <3>1. From(a) = From(b)
      BY <2>1, <2>3, <2>7, Zenon
    <3> QED
      BY <1>1, <2>2, <2>7, <3>1
  <2> QED
    BY <2>5, <2>6, <2>7
<1>6. \A j \in 1 .. n : \E l \in 1 .. n + 1 : t[l] = s[j]
  <2> SUFFICES ASSUME NEW j \in 1 .. n PROVE \E l \in 1 .. n + 1 : t[l] = s[j]
    OBVIOUS
  <2>1. CASE j < i
    BY <1>1, <1>2, <2>1
  <2>2. CASE ~(j < i)
    <3>1. j + 1 \in 1 .. n + 1 /\ t[j + 1] = s[j]
      BY <1>1, <1>2, <2>2
    <3> QED
      BY <3>1
  <2> QED
    BY <2>1, <2>2
<1>7. i \in 1 .. n + 1 /\ t[i] = x
  BY <1>1, <1>2 DEF n
<1>8. \A l \in 1 .. n + 1 : t[l] = x \/ \E j \in 1 .. n : t[l] = s[j]
  BY <1>1, <1>2, <1>7
<1>9. ToSet(t) = ToSet(s) \cup {x}
  <2>1. \A y : y \in ToSet(t) <=> \E l \in 1 .. n + 1 : t[l] = y
    BY <1>3 DEF ToSet
  <2>2. \A y : y \in ToSet(s) <=> \E j \in 1 .. n : s[j] = y
    BY <1>1 DEF ToSet
  <2> QED
    BY <1>6, <1>7, <1>8, <2>1, <2>2
<1> QED
  BY <1>2, <1>5, <1>9 DEF t

-----------------------------------------------------------------------------

\* What a handler in progress has read of the index, and still relies on: members to remove are
\* members of the traces it removes.
Evicting == {"owned", "evict"}
Progress(s) ==
  s = Idle \/ /\ s \in Task
              /\ s.pc \notin Evicting => s.read = 0 /\ s.owned = {}
              /\ s.pc = "owned" => s.read < Len(s.oldest)
              /\ \A m \in s.owned : m[1] \in ToSet(s.oldest)
TaskInv == TaskType /\ \A h \in Handler : Progress(task[h])

\* The keys of the index while clears are between their DELs: what a clear has yet to delete may be
\* left of a trace, what it has deleted may be missing of the traces written since its first DEL,
\* which are all there are, and before it deletes the keys it has deleted the markers.
Clears(key) == \E c \in Clearer : clear[c] = key
ClearInv ==
  /\ ~Clears("jobs") => Held \subseteq ToSet(traces)
  /\ ~Clears("keys") /\ ~Clears("meta") => meta \subseteq Held
  /\ ToSet(traces) \ torn \subseteq meta /\ ToSet(traces) \ torn \subseteq Held
  /\ InClear => ToSet(traces) \subseteq torn
  /\ Clears("keys") => \A m \in markers : m[1] \in torn
IndexOK == IndexType /\ ClearType /\ ClearInv /\ MarkersSearchable

\* The inductive invariant.
IInv == IndexType /\ ClearType /\ ClearInv /\ MarkersSearchable /\ RestType /\ TaskInv

LEMMA InvariantImplies == IInv => TypeOK /\ IndexAgrees /\ MarkersSearchable
<1>1. ClearInv => IndexAgrees
  BY DEF ClearInv, IndexAgrees, InClear, Clears
<1> QED
  BY <1>1 DEF IInv, TypeOK, TaskInv

LEMMA InvariantInit == Init => IInv
<1> SUFFICES ASSUME Init PROVE IInv
  OBVIOUS
<1>1. IndexType
  BY FS_EmptySet DEF Init, IndexType, IsInjective
<1>2. RestType
  BY FlowIndexAssumption DEF Init, RestType, FlowIndexAssumption
<1>3. TaskInv
  BY DEF Init, TaskInv, TaskType, Progress
<1>4. ClearType /\ ClearInv /\ MarkersSearchable
  BY DEF Init, ClearType, ClearInv, Clears, InClear, Held, MarkersSearchable, ToSet
<1> QED
  BY <1>1, <1>2, <1>3, <1>4 DEF IInv

\* A handler that is at a call is not idle.
LEMMA BusyHasTask ==
  ASSUME IInv, NEW h \in Handler, Busy(h)
  PROVE  /\ task[h] \in Task
         /\ task[h].pc \notin Evicting => task[h].read = 0 /\ task[h].owned = {}
         /\ task[h].pc = "owned" => task[h].read < Len(task[h].oldest)
         /\ \A m \in task[h].owned : m[1] \in ToSet(task[h].oldest)
  BY DEF IInv, TaskInv, Progress, Busy

LEMMA AtIsBusy ==
  ASSUME NEW h \in Handler, NEW pc, At(h, pc), pc # "idle"
  PROVE  Busy(h)
  BY DEF At, Busy, Idle

\* A step of one handler keeps the invariant of the others.
LEMMA OneTaskMoves ==
  ASSUME IInv, NEW h \in Handler, NEW s, Progress(s), task' = [task EXCEPT ![h] = s]
  PROVE  TaskInv'
<1>1. DOMAIN task = Handler
  BY DEF IInv, TaskInv, TaskType
<1>2. \A g \in Handler : task'[g] = IF g = h THEN s ELSE task[g]
  BY <1>1
<1>3. \A g \in Handler : Progress(task'[g])
  BY <1>2 DEF IInv, TaskInv
<1>4. s \in Task \cup {Idle}
  BY DEF Progress
<1>5. TaskType'
  BY <1>4 DEF IInv, TaskInv, TaskType
<1> QED
  BY <1>3, <1>5 DEF TaskInv

LEMMA TaskFields ==
  ASSUME NEW s \in Task
  PROVE  /\ \A x \in {"parent", "known", "count", "mark", "exists", "write", "card", "oldest",
                      "owned", "evict"} : [s EXCEPT !.pc = x] \in Task
         /\ \A x \in BOOLEAN : [s EXCEPT !.parent = x] \in Task
         /\ \A x \in SUBSET Key : [s EXCEPT !.known = x] \in Task
         /\ \A x \in Nat : [s EXCEPT !.all = x] \in Task
         /\ \A x \in BOOLEAN : [s EXCEPT !.truncated = x] \in Task
         /\ \A x \in Nat : [s EXCEPT !.excess = x] \in Task
         /\ \A x \in Seq(Trace) : [s EXCEPT !.oldest = x] \in Task
         /\ \A x \in Nat : [s EXCEPT !.read = x] \in Task
         /\ \A x \in SUBSET (Trace \X Key) : [s EXCEPT !.owned = x] \in Task
  BY DEF Task

-----------------------------------------------------------------------------

LEMMA FreshKeysType ==
  ASSUME NEW h \in Handler, task[h] \in Task
  PROVE  FreshMembers(h) \subseteq Trace \X Key /\ IsFiniteSet(FreshMembers(h))
<1> DEFINE s == task[h]
           news == Without(KeysOf[s.job], s.known)
<1>1. s.job \in Job
  BY DEF Task
<1>2. TraceOf[s.job] \in Trace /\ KeysOf[s.job] \in Seq(Key)
  BY <1>1, FlowIndexAssumption DEF FlowIndexAssumption
<1>3. news \in Seq(Key)
  BY <1>2, WithoutRemoves
<1>4. \A i \in DOMAIN news : news[i] \in Key
  BY <1>3
<1>5. FreshKeys(h) \subseteq Key
  BY <1>4 DEF FreshKeys
<1> DEFINE t == TraceAt(h)
           D == {n \in DOMAIN news : n <= KeysPerTrace - Cardinality(s.known)}
           f == [i \in D |-> <<t, news[i]>>]
<1>6. FreshMembers(h) = {<<t, news[i]>> : i \in D}
  BY DEF FreshMembers, FreshKeys
<1>7. IsFiniteSet(D)
  <2>1. DOMAIN news = 1 .. Len(news) /\ Len(news) \in Nat
    BY <1>3
  <2>2. D \in SUBSET (1 .. Len(news)) /\ IsFiniteSet(1 .. Len(news))
    BY <2>1, FS_Interval
  <2> HIDE DEF D, news
  <2> QED
    BY <2>2, FS_Subset
<1>8. IsFiniteSet(FreshMembers(h))
  <2> HIDE DEF D, news, t
  <2>1. f \in Surjection(D, FreshMembers(h))
    BY <1>6 DEF Surjection
  <2> QED
    BY <1>7, <2>1, FS_Surjection
<1>9. FreshMembers(h) \subseteq Trace \X Key
  BY <1>2, <1>5 DEF FreshMembers, TraceAt
<1> QED
  BY <1>8, <1>9

\* The MULTI of an indexing keeps the index consistent, whatever was read before it.
LEMMA IndexJobKeeps ==
  ASSUME IndexOK, UNCHANGED clear, NEW h \in Handler, task[h] \in Task,
         IndexJob(h)
  PROVE  IndexOK'
<1> DEFINE t == TraceAt(h)
<1>1. task[h].job \in Job /\ task[h].parent \in BOOLEAN
  BY DEF Task
<1>2. t \in Trace /\ TraceOf[EntryOf(h).job] = t /\ EntryOf(h) \in Entry
  BY <1>1, FlowIndexAssumption DEF FlowIndexAssumption, TraceAt, EntryOf, Entry
<1>3. traces' \in Seq(Trace) /\ IsInjective(traces') /\ ToSet(traces') = ToSet(traces) \cup {t}
  <2>1. CASE t \in ToSet(traces)
    BY <2>1 DEF IndexJob, IndexOK, IndexType
  <2>2. CASE t \notin ToSet(traces)
    <3>1. PICK i \in 1 .. Len(traces) + 1 : traces' = InsertAt(traces, i, t)
      BY <2>2 DEF IndexJob
    <3>2. traces \in Seq(Trace) /\ IsInjective(traces)
      BY DEF IndexOK, IndexType
    <3> HIDE DEF t
    <3> QED
      BY <1>2, <2>2, <3>1, <3>2, InsertAdds
  <2> QED
    BY <2>1, <2>2
<1>4. meta' = meta \cup {t}
  BY DEF IndexJob
<1>5. \/ marks' = marks \cup {t} /\ jobs' = jobs
      \/ marks' = marks /\ jobs' = jobs \cup {EntryOf(h)}
  BY DEF IndexJob
<1>6. /\ keys' = keys \cup FreshMembers(h) /\ markers' = markers \cup FreshMembers(h)
      /\ FreshMembers(h) \subseteq Trace \X Key /\ IsFiniteSet(FreshMembers(h))
  BY FreshKeysType DEF IndexJob
<1> HIDE DEF t
<1>7. IndexType'
  <2>1. IsFiniteSet(jobs') /\ IsFiniteSet(markers')
    BY <1>5, <1>6, FS_AddElement, FS_Union DEF IndexOK, IndexType
  <2>2. torn' \subseteq torn \cup {t}
    BY DEF IndexJob, t
  <2> QED
    BY <1>2, <1>3, <1>4, <1>5, <1>6, <2>1, <2>2 DEF IndexOK, IndexType
<1>8. Held' = Held \cup {t}
  BY <1>2, <1>5 DEF Held
<1>9. ClearType' /\ InClear' = InClear /\ \A k : Clears(k)' = Clears(k)
  BY DEF IndexOK, ClearType, InClear, Clears
<1>10. torn' = torn \cup (IF InClear THEN {t} ELSE {})
  BY DEF IndexJob, t
<1>11. \A m \in FreshMembers(h) : m[1] = t
  BY DEF FreshMembers, t
<1>12. InClear \/ \A k \in {"jobs", "keys", "meta"} : ~Clears(k)
  BY DEF InClear, Clears
<1>13. ClearInv'
  BY <1>3, <1>4, <1>6, <1>8, <1>9, <1>10, <1>11, <1>12 DEF IndexOK, ClearInv
<1>14. MarkersSearchable'
  BY <1>6, <1>10 DEF IndexOK, MarkersSearchable
<1> QED
  BY <1>7, <1>9, <1>13, <1>14 DEF IndexOK

\* So does the MULTI of an eviction, if it removes keys of the traces it evicts only.
LEMMA EvictTracesKeeps ==
  ASSUME IndexOK, UNCHANGED clear, NEW h \in Handler,
         \A m \in task[h].owned : m[1] \in ToSet(task[h].oldest),
         EvictTraces(h)
  PROVE  IndexOK'
<1> DEFINE gone == ToSet(task[h].oldest)
<1>1. traces' = Without(traces, gone)
  BY DEF EvictTraces
<1>2. traces' \in Seq(Trace) /\ IsInjective(traces') /\ ToSet(traces') = ToSet(traces) \ gone
  BY <1>1, WithoutRemoves DEF IndexOK, IndexType
<1>3. /\ meta' = meta \ gone /\ marks' = marks \ gone
      /\ jobs' = {e \in jobs : TraceOf[e.job] \notin gone}
      /\ markers' = {m \in markers : m[1] \notin gone}
      /\ keys' = keys \ task[h].owned
      /\ torn' = torn \ gone
  BY DEF EvictTraces, Owned
<1>4. \A m \in task[h].owned : m[1] \in gone
  OBVIOUS
<1> HIDE DEF gone
<1>5. IndexType'
  <2>1. jobs' \in SUBSET jobs /\ markers' \in SUBSET markers
    BY <1>3
  <2>2. IsFiniteSet(jobs') /\ IsFiniteSet(markers')
    BY <2>1, FS_Subset DEF IndexOK, IndexType
  <2> QED
    BY <1>2, <1>3, <2>2 DEF IndexOK, IndexType
<1>6. Held' = Held \ gone
  BY <1>3 DEF Held
<1>7. ClearType' /\ InClear' = InClear /\ \A k : Clears(k)' = Clears(k)
  BY DEF IndexOK, ClearType, InClear, Clears
<1>8. ClearInv'
  BY <1>2, <1>3, <1>6, <1>7 DEF IndexOK, ClearInv
<1>9. MarkersSearchable'
  BY <1>3, <1>4 DEF IndexOK, MarkersSearchable
<1> QED
  BY <1>5, <1>7, <1>8, <1>9 DEF IndexOK

-----------------------------------------------------------------------------

\* A step that leaves the index and the clears as they are.
LEMMA IndexRests ==
  ASSUME IndexOK, UNCHANGED <<index, clear>>
  PROVE  IndexOK'
  BY DEF IndexOK, index, IndexType, ClearType, ClearInv, Clears, InClear, Held, MarkersSearchable

\* The state a handler is in after reading something of the index: the index is as it was.
LEMMA ReadKeeps ==
  ASSUME IInv, NEW h \in Handler, NEW s, Progress(s), task' = [task EXCEPT ![h] = s],
         UNCHANGED <<index, clear>>, RestType'
  PROVE  IInv'
<1>1. TaskInv'
  BY OneTaskMoves
<1>2. IndexOK'
  BY IndexRests DEF IInv, IndexOK
<1> QED
  BY <1>1, <1>2 DEF IInv, IndexOK

\* Before an eviction a handler relies on nothing.
LEMMA MovesOn ==
  ASSUME NEW s \in Task, s.read = 0, s.owned = {},
         NEW pc \in {"parent", "known", "count", "mark", "exists", "write", "card", "oldest"}
  PROVE  Progress([s EXCEPT !.pc = pc])
<1> DEFINE u == [s EXCEPT !.pc = pc]
<1>1. u \in Task
  BY TaskFields
<1>2. u.pc = pc /\ u.owned = {} /\ u.read = 0
  BY DEF Task
<1> HIDE DEF u
<1>3. Progress(u)
  BY <1>1, <1>2 DEF Progress, Evicting
<1> QED
  BY <1>3 DEF u

LEMMA EventKeeps ==
  ASSUME IInv, NEW h \in Handler, NEW j \in Job, OnEvent(h, j)
  PROVE  IInv'
<1> DEFINE s == [pc |-> IF j \in Parented THEN "parent" ELSE "known", job |-> j, parent |-> FALSE,
                 known |-> {}, all |-> 0, truncated |-> FALSE, excess |-> 0, oldest |-> <<>>,
                 read |-> 0, owned |-> {}]
<1>1. s \in Task
  BY DEF Task
<1>2. s.pc \notin Evicting /\ s.owned = {} /\ s.read = 0
  BY DEF Evicting
<1>3. task' = [task EXCEPT ![h] = s] /\ UNCHANGED <<index, clear>>
  BY DEF OnEvent
<1>4. RestType'
  BY DEF OnEvent, IInv, RestType
<1> HIDE DEF s
<1>5. Progress(s)
  BY <1>1, <1>2 DEF Progress, Evicting
<1> QED
  BY <1>3, <1>4, <1>5, ReadKeeps

LEMMA RemoveParentKeeps ==
  ASSUME IInv, NEW j \in Job, RemoveParent(j)
  PROVE  IInv'
<1>1. UNCHANGED <<index, clear, task, events, faults, failed>>
  BY DEF RemoveParent
<1>2. orphaned' \subseteq Parented
  BY DEF RemoveParent, IInv, RestType
<1>3. IndexOK'
  BY <1>1, IndexRests DEF IInv, IndexOK
<1>4. TaskInv'
  BY <1>1 DEF IInv, TaskInv, TaskType
<1>5. RestType'
  BY <1>1, <1>2 DEF IInv, RestType
<1> QED
  BY <1>3, <1>4, <1>5 DEF IInv, IndexOK

\* The reads before the indexing.
LEMMA ReadsBeforeKeep ==
  ASSUME IInv, NEW h \in Handler,
         ResolveParent(h) \/ ReadKnown(h) \/ CountMembers(h) \/ ReadMark(h) \/ ReadMember(h)
  PROVE  IInv'
<1> DEFINE s == task[h]
<1>1. s \in Task /\ s.read = 0 /\ s.owned = {} /\ UNCHANGED <<index, clear>> /\ RestType'
  <2>1. Busy(h)
    BY AtIsBusy DEF ResolveParent, ReadKnown, CountMembers, ReadMark, ReadMember
  <2>2. UNCHANGED <<index, clear, orphaned, events, faults, failed>>
    BY DEF ResolveParent, ReadKnown, CountMembers, ReadMark, ReadMember
  <2>3. s.pc \notin Evicting
    BY DEF ResolveParent, ReadKnown, CountMembers, ReadMark, ReadMember, At, Evicting
  <2> QED
    BY <2>1, <2>2, <2>3, BusyHasTask DEF IInv, RestType
<1>2. CASE ResolveParent(h)
  <2> DEFINE p == s.job \notin orphaned
             u == [s EXCEPT !.parent = p]
             v == [u EXCEPT !.pc = "known"]
  <2>1. p \in BOOLEAN
    OBVIOUS
  <2> HIDE DEF p
  <2>2. u \in Task
    BY <1>1, <2>1, TaskFields
  <2>3. u.read = s.read /\ u.owned = s.owned
    BY <1>1 DEF Task
  <2>4. Progress(v)
    BY <1>1, <2>2, <2>3, MovesOn
  <2>5. v = [s EXCEPT !.pc = "known", !.parent = p]
    BY <1>1 DEF Task
  <2>6. task' = [task EXCEPT ![h] = v]
    BY <1>2, <2>5 DEF ResolveParent, p, IInv, TaskInv, TaskType
  <2> QED
    BY <1>1, <2>4, <2>6, ReadKeeps
<1>3. CASE ReadKnown(h)
  <2> DEFINE p == {m[2] : m \in MarkersOf(TraceAt(h))}
             u == [s EXCEPT !.known = p]
             v == [u EXCEPT !.pc = "count"]
  <2>1. p \in SUBSET Key
    BY DEF IInv, IndexType, MarkersOf
  <2> HIDE DEF p
  <2>2. u \in Task
    BY <1>1, <2>1, TaskFields
  <2>3. u.read = s.read /\ u.owned = s.owned
    BY <1>1 DEF Task
  <2>4. Progress(v)
    BY <1>1, <2>2, <2>3, MovesOn
  <2>5. v = [s EXCEPT !.pc = "count", !.known = p]
    BY <1>1 DEF Task
  <2>6. task' = [task EXCEPT ![h] = v]
    BY <1>3, <2>5 DEF ReadKnown, p, IInv, TaskInv, TaskType
  <2> QED
    BY <1>1, <2>4, <2>6, ReadKeeps
<1>4. CASE CountMembers(h)
  <2> DEFINE t == TraceAt(h)
             p == Cardinality(JobsOf(t)) + Cardinality(MarkersOf(t)) + Cardinality({t} \cap marks)
             u == [s EXCEPT !.all = p]
             v == [u EXCEPT !.pc = "mark"]
  <2>1. p \in Nat
    <3>1. IsFiniteSet(JobsOf(t)) /\ IsFiniteSet(MarkersOf(t))
      BY FS_Subset DEF IInv, IndexType, JobsOf, MarkersOf
    <3>2. IsFiniteSet({t} \cap marks)
      BY FS_Singleton, FS_Subset
    <3> QED
      BY <3>1, <3>2, FS_CardinalityType
  <2> HIDE DEF p
  <2>2. u \in Task
    BY <1>1, <2>1, TaskFields
  <2>3. u.read = s.read /\ u.owned = s.owned
    BY <1>1 DEF Task
  <2>4. Progress(v)
    BY <1>1, <2>2, <2>3, MovesOn
  <2>5. v = [s EXCEPT !.pc = "mark", !.all = p]
    BY <1>1 DEF Task
  <2>6. task' = [task EXCEPT ![h] = v]
    BY <1>4, <2>5 DEF CountMembers, p, IInv, TaskInv, TaskType
  <2> QED
    BY <1>1, <2>4, <2>6, ReadKeeps
<1>5. CASE ReadMark(h)
  <2>1. PICK pc \in {"exists", "write"} : task' = [task EXCEPT ![h].pc = pc]
    BY <1>5 DEF ReadMark, Goto
  <2>2. Progress([s EXCEPT !.pc = pc])
    BY <1>1, MovesOn
  <2>3. task' = [task EXCEPT ![h] = [s EXCEPT !.pc = pc]]
    BY <2>1 DEF IInv, TaskInv, TaskType
  <2> QED
    BY <1>1, <2>2, <2>3, ReadKeeps
<1>6. CASE ReadMember(h)
  <2> DEFINE p == EntryOf(h) \notin jobs
             u == [s EXCEPT !.truncated = p]
             v == [u EXCEPT !.pc = "write"]
  <2>1. p \in BOOLEAN
    OBVIOUS
  <2> HIDE DEF p
  <2>2. u \in Task
    BY <1>1, <2>1, TaskFields
  <2>3. u.read = s.read /\ u.owned = s.owned
    BY <1>1 DEF Task
  <2>4. Progress(v)
    BY <1>1, <2>2, <2>3, MovesOn
  <2>5. v = [s EXCEPT !.pc = "write", !.truncated = p]
    BY <1>1 DEF Task
  <2>6. task' = [task EXCEPT ![h] = v]
    BY <1>6, <2>5 DEF ReadMember, p, IInv, TaskInv, TaskType
  <2> QED
    BY <1>1, <2>4, <2>6, ReadKeeps
<1> QED
  BY <1>2, <1>3, <1>4, <1>5, <1>6

\* A handler that is done relies on nothing.
LEMMA DoneIsProgress ==
  ASSUME IInv, NEW h \in Handler, Done(h)
  PROVE  TaskInv'
<1>1. Progress(Idle)
  BY DEF Progress
<1> QED
  BY <1>1, OneTaskMoves DEF Done

\* What a handler has of its job when it starts to evict.
LEMMA WrittenIs ==
  ASSUME NEW s \in Task
  PROVE  /\ Written(s) \in Task /\ Written(s).pc = "card" /\ Written(s).known = {}
         /\ Written(s).read = s.read /\ Written(s).owned = s.owned
  BY DEF Written, Task

LEMMA IndexingKeeps ==
  ASSUME IInv, NEW h \in Handler, Write(h)
  PROVE  IInv'
<1>1. Busy(h)
  BY AtIsBusy DEF Write
<1>2. task[h] \in Task /\ task[h].read = 0 /\ task[h].owned = {}
  BY <1>1, BusyHasTask DEF Write, At, Evicting
<1>3. IndexOK'
  BY <1>2, IndexJobKeeps DEF IInv, IndexOK, Write
<1>4. TaskInv'
  <2>1. Progress(Written(task[h]))
    BY <1>2, WrittenIs DEF Progress, Evicting
  <2>2. task' = [task EXCEPT ![h] = Written(task[h])]
    BY DEF Write, IInv, TaskInv, TaskType
  <2> QED
    BY <2>1, <2>2, OneTaskMoves
<1>5. RestType'
  BY DEF IInv, RestType, Write
<1> QED
  BY <1>3, <1>4, <1>5 DEF IInv, IndexOK

\* The reads of an eviction.
LEMMA ReadCardKeeps ==
  ASSUME IInv, NEW h \in Handler, ReadCard(h)
  PROVE  IInv'
<1> DEFINE s == task[h]
           p == Excess
           u == [s EXCEPT !.excess = p]
           v == [u EXCEPT !.pc = "oldest"]
<1>1. s \in Task /\ s.read = 0 /\ s.owned = {} /\ UNCHANGED <<index, clear>> /\ RestType'
  <2>1. Busy(h) /\ s.pc \notin Evicting
    BY AtIsBusy DEF ReadCard, At, Evicting
  <2> QED
    BY <2>1, BusyHasTask DEF ReadCard, IInv, RestType
<1>2. CASE Done(h)
  BY <1>1, <1>2, ReadKeeps DEF Done, Progress
<1>3. CASE ~Done(h)
  <2>1. p \in Nat /\ task' = [task EXCEPT ![h] = [s EXCEPT !.pc = "oldest", !.excess = p]]
    <3>1. ~(Excess <= 0)
      BY <1>3 DEF ReadCard
    <3>2. Len(traces) \in Nat /\ RecentTraces \in Nat
      BY FlowIndexAssumption DEF IInv, IndexType, FlowIndexAssumption
    <3>3. p \in Nat
      BY <3>1, <3>2 DEF Excess
    <3> HIDE DEF s
    <3>4. task' = [task EXCEPT ![h] = [s EXCEPT !.pc = "oldest", !.excess = p]]
      BY <1>3, <3>1 DEF ReadCard, IInv, TaskInv, TaskType, s
    <3> QED
      BY <3>3, <3>4
  <2> HIDE DEF p
  <2>2. u \in Task
    BY <1>1, <2>1, TaskFields
  <2>3. u.read = s.read /\ u.owned = s.owned
    BY <1>1 DEF Task
  <2>4. Progress(v)
    BY <1>1, <2>2, <2>3, MovesOn
  <2>5. v = [s EXCEPT !.pc = "oldest", !.excess = p]
    BY <1>1 DEF Task
  <2> QED
    BY <1>1, <2>1, <2>4, <2>5, ReadKeeps
<1> QED
  BY <1>2, <1>3

LEMMA ReadOldestKeeps ==
  ASSUME IInv, NEW h \in Handler, ReadOldest(h)
  PROVE  IInv'
<1> DEFINE s == task[h]
           n == IF s.excess < Len(traces) THEN s.excess ELSE Len(traces)
           o == SubSeq(traces, 1, n)
           u == [s EXCEPT !.oldest = o]
           v == [u EXCEPT !.pc = "owned"]
<1>1. s \in Task /\ s.read = 0 /\ s.owned = {} /\ UNCHANGED <<index, clear>> /\ RestType'
  <2>1. Busy(h) /\ s.pc \notin Evicting
    BY AtIsBusy DEF ReadOldest, At, Evicting
  <2> QED
    BY <2>1, BusyHasTask DEF ReadOldest, IInv, RestType
<1>2. CASE Done(h)
  BY <1>1, <1>2, ReadKeeps DEF Done, Progress
<1>3. CASE ~Done(h)
  <2>1. task' = [task EXCEPT ![h] = [s EXCEPT !.pc = "owned", !.oldest = o]] /\ o # <<>>
    BY <1>3 DEF ReadOldest, IInv, TaskInv, TaskType
  <2>2. traces \in Seq(Trace) /\ Len(traces) \in Nat /\ s.excess \in Nat
    BY <1>1 DEF IInv, IndexType, Task
  <2>3. n \in 0 .. Len(traces)
    BY <2>2
  <2> HIDE DEF n
  <2>4. o \in Seq(Trace)
    BY <2>2, <2>3
  <2> HIDE DEF o
  <2>5. 0 < Len(o)
    BY <2>1, <2>4
  <2>6. u \in Task
    BY <1>1, <2>4, TaskFields
  <2>7. u.read = 0 /\ u.owned = {} /\ u.oldest = o
    BY <1>1 DEF Task
  <2>8. v \in Task
    BY <2>6, TaskFields
  <2>9. v.pc = "owned" /\ v.read = 0 /\ v.owned = {} /\ v.oldest = o
    BY <2>6, <2>7 DEF Task
  <2>10. v = [s EXCEPT !.pc = "owned", !.oldest = o]
    BY <1>1 DEF Task
  <2> HIDE DEF u, v
  <2>11. Progress(v)
    BY <2>5, <2>8, <2>9 DEF Progress, Evicting
  <2> QED
    BY <1>1, <2>1, <2>10, <2>11, ReadKeeps
<1> QED
  BY <1>2, <1>3

LEMMA ReadOwnedKeeps ==
  ASSUME IInv, NEW h \in Handler, ReadOwned(h)
  PROVE  IInv'
<1> DEFINE s == task[h]
           n == s.read + 1
           p == s.owned \cup MarkersOf(s.oldest[n])
           pc == IF n = Len(s.oldest) THEN "evict" ELSE s.pc
           u == [s EXCEPT !.owned = p]
           v == [u EXCEPT !.read = n]
           w == [v EXCEPT !.pc = pc]
<1>1. /\ s \in Task /\ s.pc = "owned" /\ s.read < Len(s.oldest)
      /\ (\A m \in s.owned : m[1] \in ToSet(s.oldest))
      /\ UNCHANGED <<index, clear>> /\ RestType'
  <2>1. Busy(h) /\ s.pc = "owned"
    BY AtIsBusy DEF ReadOwned, At
  <2> QED
    BY <2>1, BusyHasTask DEF ReadOwned, IInv, RestType
<1>2. s.read \in Nat /\ s.oldest \in Seq(Trace) /\ s.owned \in SUBSET (Trace \X Key)
  BY <1>1 DEF Task
<1>3. n \in Nat /\ n \in DOMAIN s.oldest /\ (n = Len(s.oldest) \/ n < Len(s.oldest))
  BY <1>1, <1>2
<1>4. \A m \in MarkersOf(s.oldest[n]) : m[1] = s.oldest[n]
  BY DEF MarkersOf
<1>5. p \in SUBSET (Trace \X Key) /\ \A m \in p : m[1] \in ToSet(s.oldest)
  BY <1>1, <1>2, <1>3, <1>4 DEF MarkersOf, IInv, IndexType, ToSet
<1>6. pc \in {"owned", "evict"} /\ (pc = "owned" => n < Len(s.oldest))
  BY <1>1, <1>3
<1>7. task' = [task EXCEPT ![h] = [s EXCEPT !.owned = p, !.read = n, !.pc = pc]]
  BY DEF ReadOwned, IInv, TaskInv, TaskType
<1> HIDE DEF p, pc, n
<1>8. u \in Task /\ v \in Task
  BY <1>1, <1>3, <1>5, TaskFields
<1>9. w \in Task
  BY <1>6, <1>8, TaskFields
<1>10. w = [s EXCEPT !.owned = p, !.read = n, !.pc = pc]
  BY <1>1 DEF Task
<1>11. w.pc = pc /\ w.read = n /\ w.owned = p /\ w.oldest = s.oldest
  BY <1>1 DEF Task
<1> HIDE DEF u, v, w
<1>12. Progress(w)
  BY <1>5, <1>6, <1>9, <1>11 DEF Progress, Evicting
<1> QED
  BY <1>1, <1>7, <1>10, <1>12, ReadKeeps

LEMMA EvictKeeps ==
  ASSUME IInv, NEW h \in Handler, Evict(h)
  PROVE  IInv'
<1>1. Busy(h)
  BY AtIsBusy DEF Evict
<1>2. IndexOK'
  BY <1>1, BusyHasTask, EvictTracesKeeps DEF IInv, IndexOK, Evict
<1>3. TaskInv'
  BY DoneIsProgress DEF Evict
<1>4. RestType'
  BY DEF IInv, RestType, Evict
<1> QED
  BY <1>2, <1>3, <1>4 DEF IInv, IndexOK

\* Whether or not the call that failed was executed, the index is consistent.
LEMMA FailureKeeps ==
  ASSUME IInv, NEW h \in Handler, CallFails(h)
  PROVE  IInv'
<1>1. /\ task[h] \in Task
      /\ \A m \in task[h].owned : m[1] \in ToSet(task[h].oldest)
  BY BusyHasTask DEF CallFails
<1>2. IndexOK'
  <2>1. CASE UNCHANGED index
    BY <2>1, IndexRests DEF IInv, IndexOK, CallFails
  <2>2. CASE IndexJob(h)
    BY <1>1, <2>2, IndexJobKeeps DEF IInv, IndexOK, CallFails
  <2>3. CASE EvictTraces(h)
    BY <1>1, <2>3, EvictTracesKeeps DEF IInv, IndexOK, CallFails
  <2> QED
    BY <2>1, <2>2, <2>3 DEF CallFails
<1>3. TaskInv'
  BY DoneIsProgress DEF CallFails
<1>4. RestType'
  BY DEF IInv, RestType, CallFails
<1> QED
  BY <1>2, <1>3, <1>4 DEF IInv, IndexOK

\* A clear moves on from one key to another.
LEMMA ClearMoves ==
  ASSUME ClearType, NEW c \in Clearer, NEW k \in {"idle", "jobs", "keys", "meta"},
         clear' = [clear EXCEPT ![c] = k]
  PROVE  /\ ClearType'
         /\ \A l : Clears(l) /\ clear[c] # l => Clears(l)'
         /\ \A l : Clears(l)' /\ k # l => Clears(l)
         /\ InClear' /\ clear[c] = "idle" => InClear \/ k # "idle"
         /\ InClear' /\ clear[c] # "idle" => InClear
         /\ clear'[c] = k
<1>1. \A d \in Clearer : clear'[d] = IF d = c THEN k ELSE clear[d]
  BY DEF ClearType
<1>2. ClearType'
  BY DEF ClearType
<1>3. ASSUME NEW l, Clears(l), clear[c] # l
      PROVE  Clears(l)'
  BY <1>1, <1>3 DEF Clears
<1>4. ASSUME NEW l, Clears(l)', k # l
      PROVE  Clears(l)
  BY <1>1, <1>4 DEF Clears
<1> QED
  BY <1>1, <1>2, <1>3, <1>4 DEF InClear

LEMMA ClearKeeps ==
  ASSUME IInv, NEW c \in Clearer, ClearTraces(c) \/ ClearJobs(c) \/ ClearKeys(c) \/ ClearMeta(c)
  PROVE  IInv'
<1>1. TaskInv' /\ RestType'
  <2>1. task' = task /\ UNCHANGED <<orphaned, events, failed>>
        /\ (faults' = faults \/ (faults > 0 /\ faults' = faults - 1))
    BY DEF ClearTraces, ClearJobs, ClearKeys, ClearMeta
  <2> QED
    BY <2>1 DEF IInv, TaskInv, TaskType, RestType
<1>2. PICK k \in {"idle", "jobs", "keys", "meta"} : clear' = [clear EXCEPT ![c] = k]
  BY DEF ClearTraces, ClearJobs, ClearKeys, ClearMeta
<1>3. /\ ClearType'
      /\ \A l : Clears(l) /\ clear[c] # l => Clears(l)'
      /\ InClear' /\ clear[c] # "idle" => InClear
  BY <1>2, ClearMoves DEF IInv
<1>4. clear[c] # "idle" => InClear
  BY DEF InClear
<1>5. IndexType /\ ClearInv /\ MarkersSearchable /\ clear \in [Clearer -> {"idle", "jobs", "keys", "meta"}]
  BY DEF IInv, ClearType
<1>6. CASE ClearTraces(c)
  <2>1. /\ traces' = <<>> /\ UNCHANGED <<meta, jobs, marks, markers, keys, torn>>
        /\ clear[c] = "idle" /\ clear' = [clear EXCEPT ![c] = "jobs"]
    BY <1>6 DEF ClearTraces
  <2>2. ToSet(traces') = {} /\ IsInjective(traces') /\ traces' \in Seq(Trace)
    BY <2>1 DEF ToSet, IsInjective
  <2>3. Clears("jobs")' /\ (Clears("keys")' => Clears("keys"))
    BY <2>1, <1>5, ClearMoves DEF ClearType, Clears
  <2>4. Held' = Held
    BY <2>1 DEF Held
  <2>5. IndexType' /\ MarkersSearchable'
    BY <1>5, <2>1, <2>2 DEF IndexType, MarkersSearchable
  <2>6. ClearInv'
    BY <1>3, <1>5, <2>1, <2>2, <2>3, <2>4 DEF ClearInv
  <2> QED
    BY <1>1, <1>3, <2>5, <2>6 DEF IInv
<1>7. CASE ClearJobs(c)
  <2>1. /\ jobs' = {} /\ marks' = {} /\ markers' = {} /\ torn' = torn \cap ToSet(traces)
        /\ UNCHANGED <<traces, meta, keys>>
        /\ clear[c] = "jobs" /\ clear' = [clear EXCEPT ![c] = "keys"]
    BY <1>7 DEF ClearJobs
  <2>2. IndexType' /\ MarkersSearchable'
    BY <1>5, <2>1, FS_EmptySet DEF IndexType, MarkersSearchable
  <2>3. Held' = {}
    BY <2>1 DEF Held
  <2>4. InClear /\ Clears("keys")'
    BY <1>4, <1>5, <2>1 DEF Clears
  <2>5. ToSet(traces)' \subseteq torn'
    BY <1>5, <2>1, <2>4 DEF ClearInv
  <2>6. ClearInv'
    BY <1>5, <2>1, <2>3, <2>4, <2>5 DEF ClearInv
  <2> QED
    BY <1>1, <1>3, <2>2, <2>6 DEF IInv
<1>8. CASE ClearKeys(c)
  <2>1. /\ keys' = {} /\ UNCHANGED <<traces, meta, jobs, marks, markers, torn>>
        /\ clear[c] = "keys" /\ clear' = [clear EXCEPT ![c] = "meta"]
    BY <1>8 DEF ClearKeys
  <2>2. Clears("keys") /\ Clears("meta")' /\ InClear
    BY <1>4, <1>5, <2>1 DEF Clears
  <2>3. IndexType' /\ MarkersSearchable'
    BY <1>5, <2>1, <2>2 DEF IndexType, ClearInv, MarkersSearchable
  <2>4. Held' = Held /\ (Clears("jobs") => Clears("jobs")')
    BY <1>3, <2>1 DEF Held
  <2>5. ClearInv'
    BY <1>5, <2>1, <2>2, <2>4 DEF ClearInv
  <2> QED
    BY <1>1, <1>3, <2>3, <2>5 DEF IInv
<1>9. CASE ClearMeta(c)
  <2>1. /\ meta' = {} /\ UNCHANGED <<traces, jobs, marks, markers, keys, torn>>
        /\ clear[c] = "meta" /\ clear' = [clear EXCEPT ![c] = "idle"]
    BY <1>9 DEF ClearMeta
  <2>2. InClear /\ (Clears("keys")' => Clears("keys"))
    BY <1>4, <1>5, <2>1, ClearMoves DEF ClearType
  <2>3. IndexType' /\ MarkersSearchable'
    BY <1>5, <2>1 DEF IndexType, MarkersSearchable
  <2>4. Held' = Held /\ (Clears("jobs") => Clears("jobs")')
    BY <1>3, <2>1 DEF Held
  <2>5. ToSet(traces)' \subseteq torn'
    BY <1>5, <2>1, <2>2 DEF ClearInv
  <2>6. ClearInv'
    BY <1>5, <2>1, <2>2, <2>4, <2>5 DEF ClearInv
  <2> QED
    BY <1>1, <1>3, <2>3, <2>6 DEF IInv
<1> QED
  BY <1>6, <1>7, <1>8, <1>9

LEMMA InvariantStep == IInv /\ [Next]_vars => IInv'
<1> SUFFICES ASSUME IInv, [Next]_vars PROVE IInv'
  OBVIOUS
<1>1. ASSUME NEW h \in Handler, NEW j \in Job, OnEvent(h, j)
      PROVE  IInv'
  BY <1>1, EventKeeps
<1>2. ASSUME NEW j \in Job, RemoveParent(j)
      PROVE  IInv'
  BY <1>2, RemoveParentKeeps
<1>3. ASSUME NEW h \in Handler,
             ResolveParent(h) \/ ReadKnown(h) \/ CountMembers(h) \/ ReadMark(h) \/ ReadMember(h)
      PROVE  IInv'
  BY <1>3, ReadsBeforeKeep
<1>4. ASSUME NEW h \in Handler, Write(h)
      PROVE  IInv'
  BY <1>4, IndexingKeeps
<1>5. ASSUME NEW h \in Handler, ReadCard(h) \/ ReadOldest(h) \/ ReadOwned(h) \/ Evict(h)
      PROVE  IInv'
  BY <1>5, ReadCardKeeps, ReadOldestKeeps, ReadOwnedKeeps, EvictKeeps
<1>6. ASSUME NEW h \in Handler, CallFails(h)
      PROVE  IInv'
  BY <1>6, FailureKeeps
<1>7. CASE UNCHANGED vars
  <2>1. UNCHANGED <<index, clear, task, orphaned, events, faults, failed>>
    BY <1>7 DEF vars, index
  <2>2. IndexOK'
    BY <2>1, IndexRests DEF IInv, IndexOK
  <2>3. TaskInv' /\ RestType'
    BY <2>1 DEF IInv, TaskInv, TaskType, RestType
  <2> QED
    BY <2>2, <2>3 DEF IInv, IndexOK
<1>8. ASSUME NEW c \in Clearer, ClearTraces(c) \/ ClearJobs(c) \/ ClearKeys(c) \/ ClearMeta(c)
      PROVE  IInv'
  BY <1>8, ClearKeeps
<1> QED
  BY <1>1, <1>2, <1>3, <1>4, <1>5, <1>6, <1>7, <1>8 DEF Next

LEMMA InvariantHolds == Spec => []IInv
  BY InvariantInit, InvariantStep, PTL DEF Spec

\* The index stays within its types, and the traces zset holds no trace twice, whatever place
\* the clocks of the replicas give a trace.
THEOREM TypeCorrect == Spec => []TypeOK
  BY InvariantHolds, InvariantImplies, PTL

\* Whatever handlers, replicas and clears do between each other's calls, failing ones included: when
\* no clear is in progress, nothing of meta and jobs is left of a trace that is not in the traces
\* zset, and what a trace in it may miss is only what it got while a clear was in progress.  Each
\* MULTI writes or removes all three, and a clear deletes them in an order in which what it leaves
\* behind is deleted by its next DELs.
THEOREM IndexAgreesHolds == Spec => []IndexAgrees
  BY InvariantHolds, InvariantImplies, PTL

\* No eviction takes the search entry of a key away from a trace that still owns the key: the
\* entries it removes were read under the traces it removes, and these go with all their keys.  Nor
\* does a clear, which deletes the mirrored keys first, unless the trace was written between its DELs.
THEOREM MarkersSearchableHolds == Spec => []MarkersSearchable
  BY InvariantHolds, InvariantImplies, PTL

-----------------------------------------------------------------------------

\* A sequence without repetitions is as long as the set of its elements.
LEMMA LengthIsCardinality ==
  ASSUME NEW S, NEW s \in Seq(S), IsInjective(s)
  PROVE  IsFiniteSet(ToSet(s)) /\ Cardinality(ToSet(s)) = Len(s)
<1> DEFINE n == Len(s)
<1>1. n \in Nat /\ DOMAIN s = 1 .. n
  OBVIOUS
<1>2. s \in [1 .. n -> ToSet(s)]
  BY DEF ToSet
<1>3. \A x \in ToSet(s) : \E i \in 1 .. n : s[i] = x
  BY <1>1 DEF ToSet
<1>4. s \in Surjection(1 .. n, ToSet(s)) /\ s \in Injection(1 .. n, ToSet(s))
  BY <1>2, <1>3 DEF Surjection, Injection
<1>5. IsFiniteSet(1 .. n) /\ Cardinality(1 .. n) = n
  <2> HIDE DEF n
  <2> QED
    BY <1>1, FS_Interval
<1> QED
  BY <1>4, <1>5, FS_Surjection

\* What a handler with task s, while the traces zset is q, has yet to do for the cap.
Trims(s, q) ==
  \/ s.pc = "card"
  \/ s.pc = "oldest" /\ Len(q) - s.excess <= RecentTraces
  \/ s.pc \in Evicting /\ Cardinality(ToSet(q) \ ToSet(s.oldest)) <= RecentTraces

\* While no call failed, some handler is about to bring the traces back to the cap.
TrimInv ==
  ~failed /\ Len(traces) > RecentTraces => \E h \in Handler : Trims(task[h], traces)

LEMMA TrimInit == Init => TrimInv
<1> SUFFICES ASSUME Init PROVE TrimInv
  OBVIOUS
<1>1. Len(traces) = 0
  BY DEF Init
<1> QED
  BY <1>1, FlowIndexAssumption DEF TrimInv, FlowIndexAssumption

LEMMA TrimImplies == TrimInv /\ TypeOK => TracesTrimmed
<1> SUFFICES ASSUME TrimInv, TypeOK, AtRest, ~failed
             PROVE  ~(Len(traces) > RecentTraces)
  <2>1. Len(traces) \in Nat \/ ~TypeOK
    BY DEF TypeOK, IndexType
  <2> QED
    BY <2>1, FlowIndexAssumption DEF TracesTrimmed, FlowIndexAssumption
<1> SUFFICES ASSUME Len(traces) > RecentTraces PROVE FALSE
  OBVIOUS
<1>1. PICK h \in Handler : Trims(task[h], traces)
  BY DEF TrimInv
<1>2. task[h] = Idle
  BY DEF AtRest, Busy
<1> QED
  BY <1>1, <1>2 DEF Trims, Idle, Evicting

\* The evictions of others leave less to do.
LEMMA TrimsLess ==
  ASSUME NEW s \in Task, NEW q \in Seq(Trace), NEW r \in Seq(Trace),
         IsInjective(q), IsInjective(r), ToSet(r) \subseteq ToSet(q)
  PROVE  Len(r) <= Len(q) /\ (Trims(s, q) => Trims(s, r))
<1>1. /\ IsFiniteSet(ToSet(q)) /\ Cardinality(ToSet(q)) = Len(q)
      /\ IsFiniteSet(ToSet(r)) /\ Cardinality(ToSet(r)) = Len(r)
  BY LengthIsCardinality
<1>2. Len(q) \in Nat /\ Len(r) \in Nat /\ s.excess \in Nat /\ RecentTraces \in Nat
  BY FlowIndexAssumption DEF Task, FlowIndexAssumption
<1>3. Len(r) <= Len(q)
  BY <1>1, FS_Subset
<1> DEFINE gone == ToSet(s.oldest)
           a == ToSet(q) \ gone
           b == ToSet(r) \ gone
<1>4. IsFiniteSet(a) /\ b \in SUBSET a
  BY <1>1, FS_Difference
<1> HIDE DEF a, b
<1>5. Cardinality(b) <= Cardinality(a) /\ Cardinality(b) \in Nat /\ Cardinality(a) \in Nat
  BY <1>4, FS_Subset, FS_CardinalityType
<1>6. Cardinality(a) <= RecentTraces => Cardinality(b) <= RecentTraces
  BY <1>2, <1>5
<1>7. Len(q) - s.excess <= RecentTraces => Len(r) - s.excess <= RecentTraces
  BY <1>2, <1>3
<1> QED
  BY <1>3, <1>6, <1>7, Zenon DEF Trims, a, b, gone

\* A step of one handler, or of none, that adds no trace.
LEMMA OneTrimMoves ==
  ASSUME IInv, IInv', TrimInv, failed' = failed, ToSet(traces') \subseteq ToSet(traces),
         NEW h \in Handler, \A g \in Handler \ {h} : task'[g] = task[g],
         Trims(task[h], traces) /\ Len(traces') > RecentTraces => Trims(task'[h], traces')
  PROVE  TrimInv'
<1>1. /\ traces \in Seq(Trace) /\ IsInjective(traces)
      /\ traces' \in Seq(Trace) /\ IsInjective(traces')
  BY DEF IInv, IndexType
<1> SUFFICES ASSUME ~failed', Len(traces') > RecentTraces
             PROVE  \E g \in Handler : Trims(task'[g], traces')
  BY DEF TrimInv
<1>2. Len(traces) \in Nat /\ Len(traces') \in Nat /\ RecentTraces \in Nat
  BY <1>1, FlowIndexAssumption DEF FlowIndexAssumption
<1>3. \A s \in Task : Len(traces') <= Len(traces) /\ (Trims(s, traces) => Trims(s, traces'))
  BY <1>1, TrimsLess
<1>4. Len(traces') <= Len(traces)
  BY <1>1, FS_Subset, LengthIsCardinality
<1>5. PICK g \in Handler : Trims(task[g], traces)
  BY <1>2, <1>4 DEF TrimInv
<1>6. task[g] \in Task
  <2>1. task[g] # Idle
    BY <1>5 DEF Trims, Idle, Evicting
  <2> QED
    BY <2>1 DEF IInv, TaskInv, TaskType
<1>7. CASE g = h
  BY <1>5, <1>7
<1>8. CASE g # h
  BY <1>3, <1>5, <1>6, <1>8
<1> QED
  BY <1>7, <1>8

LEMMA TrimEvent ==
  ASSUME IInv, IInv', TrimInv, NEW h \in Handler, NEW j \in Job, OnEvent(h, j)
  PROVE  TrimInv'
<1>1. traces' = traces /\ failed' = failed /\ \A g \in Handler \ {h} : task'[g] = task[g]
  BY DEF OnEvent, index, IInv, TaskInv, TaskType
<1>2. ~Trims(task[h], traces)
  BY DEF OnEvent, Busy, Idle, Trims, Evicting
<1> QED
  BY <1>1, <1>2, OneTrimMoves

\* Steps that leave the traces and the handlers as they are.
LEMMA TrimRest ==
  ASSUME TrimInv, UNCHANGED <<traces, task, failed>>
  PROVE  TrimInv'
  BY DEF TrimInv

LEMMA TrimReadsBefore ==
  ASSUME IInv, IInv', TrimInv, NEW h \in Handler,
         ResolveParent(h) \/ ReadKnown(h) \/ CountMembers(h) \/ ReadMark(h) \/ ReadMember(h)
  PROVE  TrimInv'
<1>1. traces' = traces /\ failed' = failed
  BY DEF ResolveParent, ReadKnown, CountMembers, ReadMark, ReadMember, index
<1>2. \A g \in Handler \ {h} : task'[g] = task[g]
  BY DEF ResolveParent, ReadKnown, CountMembers, ReadMark, ReadMember, Goto, IInv, TaskInv, TaskType
<1>3. ~Trims(task[h], traces)
  BY DEF ResolveParent, ReadKnown, CountMembers, ReadMark, ReadMember, At, Trims, Evicting
<1> QED
  BY <1>1, <1>2, <1>3, OneTrimMoves

\* The handler that wrote counts the traces next.
LEMMA TrimWrite ==
  ASSUME IInv, TrimInv, NEW h \in Handler, Write(h)
  PROVE  TrimInv'
<1>1. task[h] \in Task
  BY AtIsBusy, BusyHasTask DEF Write
<1>2. task'[h].pc = "card"
  BY <1>1, WrittenIs DEF Write, IInv, TaskInv, TaskType
<1>3. Trims(task'[h], traces')
  BY <1>2 DEF Trims
<1>4. failed' = failed
  BY DEF Write
<1> QED
  BY <1>3, <1>4 DEF TrimInv

LEMMA TrimReadCard ==
  ASSUME IInv, IInv', TrimInv, NEW h \in Handler, ReadCard(h)
  PROVE  TrimInv'
<1>1. traces' = traces /\ failed' = failed
  BY DEF ReadCard, index
<1>2. \A g \in Handler \ {h} : task'[g] = task[g]
  BY DEF ReadCard, Done, IInv, TaskInv, TaskType
<1>3. task[h] \in Task
  BY AtIsBusy, BusyHasTask DEF ReadCard
<1>4. Len(traces) \in Nat /\ RecentTraces \in Nat
  BY FlowIndexAssumption DEF IInv, IndexType, FlowIndexAssumption
<1>5. ASSUME Len(traces') > RecentTraces
      PROVE  Trims(task'[h], traces')
  <2>1. ~(Excess <= 0)
    BY <1>1, <1>4, <1>5 DEF Excess
  <2>2. task'[h] = [task[h] EXCEPT !.pc = "oldest", !.excess = Excess]
    BY <2>1 DEF ReadCard, IInv, TaskInv, TaskType
  <2>3. task'[h].pc = "oldest" /\ task'[h].excess = Excess
    BY <1>3, <2>2 DEF Task
  <2>4. Len(traces) - Excess <= RecentTraces
    BY <1>4 DEF Excess
  <2> QED
    BY <1>1, <2>3, <2>4 DEF Trims
<1> QED
  BY <1>1, <1>2, <1>5, OneTrimMoves

\* What is left without the first n elements of a sequence.
LEMMA WithoutFirst ==
  ASSUME NEW S, NEW s \in Seq(S), IsInjective(s), NEW n \in 0 .. Len(s)
  PROVE  Cardinality(ToSet(s) \ ToSet(SubSeq(s, 1, n))) = Len(s) - n
<1> DEFINE o == SubSeq(s, 1, n)
<1>1. o \in Seq(S) /\ Len(o) = n /\ DOMAIN o = 1 .. n /\ \A i \in 1 .. n : o[i] = s[i]
  OBVIOUS
<1>2. Len(s) \in Nat /\ DOMAIN s = 1 .. Len(s)
  OBVIOUS
<1> HIDE DEF o
<1>3. IsInjective(o) /\ ToSet(o) \subseteq ToSet(s)
  BY <1>1, <1>2 DEF IsInjective, ToSet
<1>4. /\ IsFiniteSet(ToSet(s)) /\ Cardinality(ToSet(s)) = Len(s)
      /\ Cardinality(ToSet(o)) = n
  BY <1>1, <1>3, LengthIsCardinality
<1>5. ToSet(s) \cap ToSet(o) = ToSet(o)
  BY <1>3
<1>6. Cardinality(ToSet(s) \ ToSet(o)) = Cardinality(ToSet(s)) - Cardinality(ToSet(s) \cap ToSet(o))
  BY <1>4, FS_Difference
<1> QED
  BY <1>4, <1>5, <1>6 DEF o

LEMMA TrimReadOldest ==
  ASSUME IInv, IInv', TrimInv, NEW h \in Handler, ReadOldest(h)
  PROVE  TrimInv'
<1> DEFINE s == task[h]
           n == IF s.excess < Len(traces) THEN s.excess ELSE Len(traces)
           o == SubSeq(traces, 1, n)
<1>1. traces' = traces /\ failed' = failed
  BY DEF ReadOldest, index
<1>2. \A g \in Handler \ {h} : task'[g] = task[g]
  BY DEF ReadOldest, Done, IInv, TaskInv, TaskType
<1>3. s \in Task /\ s.pc = "oldest"
  BY AtIsBusy, BusyHasTask DEF ReadOldest, At
<1>4. /\ traces \in Seq(Trace) /\ IsInjective(traces)
      /\ Len(traces) \in Nat /\ RecentTraces \in Nat /\ s.excess \in Nat
  BY <1>3, FlowIndexAssumption DEF IInv, IndexType, FlowIndexAssumption, Task
<1>5. ASSUME Trims(s, traces), Len(traces') > RecentTraces
      PROVE  Trims(task'[h], traces')
  <2>1. Len(traces) - s.excess <= RecentTraces
    BY <1>3, <1>5 DEF Trims, Evicting
  <2>2. n \in 0 .. Len(traces) /\ n > 0 /\ Len(traces) - n <= RecentTraces
    BY <1>1, <1>4, <1>5, <2>1
  <2>3. Cardinality(ToSet(traces) \ ToSet(o)) = Len(traces) - n
    <3> HIDE DEF n
    <3> QED
      BY <1>4, <2>2, WithoutFirst
  <2>4. o # <<>>
    <3> HIDE DEF n
    <3>1. Len(o) = n
      BY <1>4, <2>2
    <3> QED
      BY <2>2, <3>1
  <2>5. task'[h] = [s EXCEPT !.pc = "owned", !.oldest = o]
    BY <2>4 DEF ReadOldest, IInv, TaskInv, TaskType
  <2> HIDE DEF n, o
  <2>6. task'[h].pc = "owned" /\ task'[h].oldest = o
    BY <1>3, <2>5 DEF Task
  <2>7. Cardinality(ToSet(traces) \ ToSet(o)) <= RecentTraces
    BY <2>2, <2>3
  <2> QED
    BY <1>1, <2>6, <2>7 DEF Trims, Evicting
<1> QED
  BY <1>1, <1>2, <1>5, OneTrimMoves

LEMMA TrimReadOwned ==
  ASSUME IInv, IInv', TrimInv, NEW h \in Handler, ReadOwned(h)
  PROVE  TrimInv'
<1>1. traces' = traces /\ failed' = failed
  BY DEF ReadOwned, index
<1>2. \A g \in Handler \ {h} : task'[g] = task[g]
  BY DEF ReadOwned, IInv, TaskInv, TaskType
<1>3. task[h] \in Task /\ task[h].pc = "owned"
  BY AtIsBusy, BusyHasTask DEF ReadOwned, At
<1>4. task'[h].pc \in Evicting /\ task'[h].oldest = task[h].oldest
  BY <1>3 DEF ReadOwned, IInv, TaskInv, TaskType, Task, Evicting
<1>5. Trims(task[h], traces) => Trims(task'[h], traces')
  BY <1>1, <1>3, <1>4 DEF Trims, Evicting
<1> QED
  BY <1>1, <1>2, <1>5, OneTrimMoves

\* What is left of the traces after an eviction.
LEMMA LeftByEviction ==
  ASSUME IInv, NEW h \in Handler, EvictTraces(h)
  PROVE  ToSet(traces') = ToSet(traces) \ ToSet(task[h].oldest)
<1>1. traces \in Seq(Trace) /\ traces' = Without(traces, ToSet(task[h].oldest))
  BY DEF IInv, IndexType, EvictTraces
<1> QED
  BY <1>1, WithoutRemoves

\* The handler that evicts brings the traces to the cap, or others have it still to do.
LEMMA TrimEvict ==
  ASSUME IInv, IInv', TrimInv, NEW h \in Handler, Evict(h)
  PROVE  TrimInv'
<1>1. failed' = failed /\ \A g \in Handler \ {h} : task'[g] = task[g]
  BY DEF Evict, Done, IInv, TaskInv, TaskType
<1>2. ToSet(traces') = ToSet(traces) \ ToSet(task[h].oldest)
  BY LeftByEviction DEF Evict
<1>3. ASSUME Trims(task[h], traces), Len(traces') > RecentTraces
      PROVE  FALSE
  <2>1. Cardinality(ToSet(traces')) <= RecentTraces
    BY <1>2, <1>3 DEF Evict, At, Trims, Evicting
  <2>2. traces' \in Seq(Trace) /\ IsInjective(traces')
    BY DEF IInv, IndexType
  <2>3. Cardinality(ToSet(traces')) = Len(traces') /\ Len(traces') \in Nat
    BY <2>2, LengthIsCardinality
  <2> QED
    BY <1>3, <2>1, <2>3, FlowIndexAssumption DEF FlowIndexAssumption
<1> QED
  BY <1>1, <1>2, <1>3, OneTrimMoves

LEMMA TrimFailure ==
  ASSUME IInv, TrimInv, NEW h \in Handler, CallFails(h)
  PROVE  TrimInv'
<1>1. failed'
  BY DEF CallFails
<1> QED
  BY <1>1 DEF TrimInv

\* A clear leaves no traces, or leaves them.
LEMMA TrimClear ==
  ASSUME TrimInv, NEW c \in Clearer, ClearTraces(c) \/ ClearJobs(c) \/ ClearKeys(c) \/ ClearMeta(c)
  PROVE  TrimInv'
<1>1. CASE ClearTraces(c)
  <2>1. Len(traces') = 0
    BY <1>1 DEF ClearTraces
  <2> QED
    BY <2>1, FlowIndexAssumption DEF TrimInv, FlowIndexAssumption
<1>2. CASE ClearJobs(c) \/ ClearKeys(c) \/ ClearMeta(c)
  BY <1>2, TrimRest DEF ClearJobs, ClearKeys, ClearMeta
<1> QED
  BY <1>1, <1>2

LEMMA TrimStep == IInv /\ IInv' /\ TrimInv /\ [Next]_vars => TrimInv'
<1> SUFFICES ASSUME IInv, IInv', TrimInv, [Next]_vars PROVE TrimInv'
  OBVIOUS
<1>1. ASSUME NEW h \in Handler, NEW j \in Job, OnEvent(h, j)
      PROVE  TrimInv'
  BY <1>1, TrimEvent
<1>2. ASSUME NEW j \in Job, RemoveParent(j)
      PROVE  TrimInv'
  BY <1>2, TrimRest DEF RemoveParent, index
<1>3. ASSUME NEW h \in Handler,
             ResolveParent(h) \/ ReadKnown(h) \/ CountMembers(h) \/ ReadMark(h) \/ ReadMember(h)
      PROVE  TrimInv'
  BY <1>3, TrimReadsBefore
<1>4. ASSUME NEW h \in Handler, Write(h)
      PROVE  TrimInv'
  BY <1>4, TrimWrite
<1>5. ASSUME NEW h \in Handler, ReadCard(h) \/ ReadOldest(h) \/ ReadOwned(h) \/ Evict(h)
      PROVE  TrimInv'
  BY <1>5, TrimReadCard, TrimReadOldest, TrimReadOwned, TrimEvict
<1>6. ASSUME NEW h \in Handler, CallFails(h)
      PROVE  TrimInv'
  BY <1>6, TrimFailure
<1>7. CASE UNCHANGED vars
  BY <1>7, TrimRest DEF vars
<1>8. ASSUME NEW c \in Clearer, ClearTraces(c) \/ ClearJobs(c) \/ ClearKeys(c) \/ ClearMeta(c)
      PROVE  TrimInv'
  BY <1>8, TrimClear
<1> QED
  BY <1>1, <1>2, <1>3, <1>4, <1>5, <1>6, <1>7, <1>8 DEF Next

\* When the handlers are done and no call failed, the traces are within the cap: of the handlers
\* that add a trace at the same time, one at least counts the traces after the last was added,
\* and what others evict in between only leaves less to evict.
THEOREM TracesTrimmedHolds == Spec => []TracesTrimmed
<1>1. IInv /\ TrimInv => TracesTrimmed
  BY InvariantImplies, TrimImplies
<1> QED
  BY <1>1, InvariantHolds, TrimInit, TrimStep, PTL DEF Spec

-----------------------------------------------------------------------------
(* The limits of a trace *)

\* The keys a handler with task s may still write under trace t.
Reading == {"count", "mark", "exists", "write"}
Allowance(s, t) ==
  IF s.pc \in Reading /\ TraceOf[s.job] = t /\ Cardinality(s.known) < KeysPerTrace
  THEN KeysPerTrace - Cardinality(s.known) ELSE 0

KnownFinite(s) == s = Idle \/ IsFiniteSet(s.known)

\* The keys of a trace and those in flight are within the budgets of the handlers.
KeysOk(keyed, gains) == keyed + SumOver(Handler, gains) <= KeysPerTrace * Cardinality(Handler)
Gains(t) == [h \in Handler |-> Allowance(task[h], t)]

\* A trace with more jobs is full for every handler that counts from now on: a handler alone has
\* seen the truncation marker if there is one, others may have missed it.
Alone == Cardinality(Handler) = 1
Full == IF Alone THEN JobsPerTrace - 1 ELSE JobsPerTrace

\* A handler with task s may add a job to trace t, which is full and has these entries, so many
\* keys and the marker or not (1 or 0).
Adds(s, t, entries, keyed, marked) ==
  /\ s # Idle /\ TraceOf[s.job] = t
  /\ \/ s.pc = "count" /\ Cardinality(s.known) > keyed
     \/ s.pc = "mark" /\ s.all - Cardinality(s.known) - (IF Alone THEN marked ELSE 0) <= Full
     \/ s.pc = "write" /\ ~s.truncated /\ [job |-> s.job, parent |-> s.parent] \notin entries

Keyed(t) == Cardinality(MarkersOf(t))
Marked(t) == Cardinality({t} \cap marks)
Adding(t) == {h \in Handler : Adds(task[h], t, JobsOf(t), Keyed(t), Marked(t))}

\* Past the limit the jobs of a trace and those in flight do not add up to more.
JobsOk(entries, adding) == entries > Full => entries + adding <= Full + Cardinality(Handler)

LimitInv ==
  /\ \A h \in Handler : KnownFinite(task[h])
  /\ \A t \in Trace : KeysOk(Keyed(t), Gains(t)) /\ JobsOk(Cardinality(JobsOf(t)), Cardinality(Adding(t)))

LEMMA LimitTypes ==
  /\ IsFiniteSet(Handler) /\ Cardinality(Handler) \in Nat
  /\ JobsPerTrace \in Nat \ {0} /\ KeysPerTrace \in Nat /\ Full \in Nat
  /\ \A x \in Handler, y \in Handler : Alone => x = y
<1>1. IsFiniteSet(Handler) /\ JobsPerTrace \in Nat \ {0} /\ KeysPerTrace \in Nat
  BY FlowIndexAssumption DEF FlowIndexAssumption
<1>2. Cardinality(Handler) \in Nat
  BY <1>1, FS_CardinalityType
<1>3. Alone => \E x : Handler = {x}
  BY <1>1, FS_Singleton DEF Alone
<1>4. \A x \in Handler, y \in Handler : Alone => x = y
  BY <1>3
<1> QED
  BY <1>1, <1>2, <1>4 DEF Full

\* What there is of a trace is finite.
LEMMA ViewTypes ==
  ASSUME IndexType, NEW t \in Trace
  PROVE  /\ IsFiniteSet(JobsOf(t)) /\ Cardinality(JobsOf(t)) \in Nat
         /\ IsFiniteSet(MarkersOf(t)) /\ Keyed(t) \in Nat /\ Marked(t) \in 0 .. 1
<1>1. IsFiniteSet(JobsOf(t)) /\ IsFiniteSet(MarkersOf(t))
  BY FS_Subset DEF IndexType, JobsOf, MarkersOf
<1>2. {t} \cap marks = {} \/ {t} \cap marks = {t}
  OBVIOUS
<1>3. Marked(t) \in 0 .. 1
  BY <1>2, FS_EmptySet, FS_Singleton DEF Marked
<1> QED
  BY <1>1, <1>3, FS_CardinalityType DEF Keyed

LEMMA ViewTypesNext ==
  ASSUME IndexType', NEW t \in Trace
  PROVE  /\ IsFiniteSet(JobsOf(t)') /\ Cardinality(JobsOf(t))' \in Nat
         /\ IsFiniteSet(MarkersOf(t)') /\ Keyed(t)' \in Nat
<1>1. IsFiniteSet(jobs') /\ IsFiniteSet(markers')
  BY DEF IndexType
<1>2. IsFiniteSet(JobsOf(t)') /\ IsFiniteSet(MarkersOf(t)')
  BY <1>1, FS_Subset DEF JobsOf, MarkersOf
<1>3. Cardinality(JobsOf(t)') \in Nat /\ Cardinality(MarkersOf(t)') \in Nat
  BY <1>2, FS_CardinalityType
<1> QED
  BY <1>2, <1>3 DEF Keyed

LEMMA AllowanceType ==
  ASSUME NEW s \in Task \cup {Idle}, KnownFinite(s), NEW t \in Trace
  PROVE  Allowance(s, t) \in 0 .. KeysPerTrace
<1>1. KeysPerTrace \in Nat
  BY LimitTypes
<1>2. CASE s.pc \in Reading
  <2>1. Cardinality(s.known) \in Nat
    BY <1>2, FS_CardinalityType DEF KnownFinite, Idle, Reading
  <2> QED
    BY <1>1, <2>1 DEF Allowance
<1>3. CASE s.pc \notin Reading
  BY <1>1, <1>3 DEF Allowance
<1> QED
  BY <1>2, <1>3

LEMMA GainsType ==
  ASSUME IInv, LimitInv, NEW t \in Trace
  PROVE  Gains(t) \in [Handler -> 0 .. KeysPerTrace]
<1>1. \A h \in Handler : task[h] \in Task \cup {Idle} /\ KnownFinite(task[h])
  BY DEF IInv, TaskInv, TaskType, LimitInv
<1>2. \A h \in Handler : Allowance(task[h], t) \in 0 .. KeysPerTrace
  BY <1>1, AllowanceType
<1> QED
  BY <1>2 DEF Gains

\* A handler that reads the keys anew may write up to its budget with them; one that writes
\* writes at most what it had in flight.
LEMMA KeysMove ==
  ASSUME NEW m \in Nat, NEW n \in Nat, NEW h \in Handler,
         NEW f \in [Handler -> 0 .. KeysPerTrace], NEW g \in [Handler -> 0 .. KeysPerTrace],
         \A x \in Handler : x # h => g[x] = f[x],
         n + g[h] <= m + f[h] \/ n + g[h] <= KeysPerTrace,
         KeysOk(m, f)
  PROVE  KeysOk(n, g)
<1> DEFINE K == KeysPerTrace
           top == [g EXCEPT ![h] = K]
           b == K * Cardinality(Handler)
<1>1. K \in Nat /\ IsFiniteSet(Handler) /\ Cardinality(Handler) \in Nat
  BY LimitTypes
<1>2. f \in [Handler -> Int] /\ g \in [Handler -> Int] /\ top \in [Handler -> Int]
  BY <1>1
<1>3. SumOver(Handler, g) = SumOver(Handler, f) + g[h] - f[h]
  BY <1>1, <1>2, SumOverChange
<1>4. (\A x \in Handler : x # h => g[x] = top[x]) /\ top[h] = K
  OBVIOUS
<1>5. \A x \in Handler : top[x] <= K
  BY <1>1
<1> HIDE DEF top, K
<1>6. SumOver(Handler, g) = SumOver(Handler, top) + g[h] - K
  BY <1>1, <1>2, <1>4, SumOverChange
<1>7. SumOver(Handler, top) <= b
  BY <1>1, <1>2, <1>5, SumOverBound
<1>8. b \in Nat
  <2>1. \A x, y \in Nat : x * y \in Nat
    OBVIOUS
  <2> QED
    BY <1>1, <2>1
<1>9. SumOver(Handler, f) \in Int /\ SumOver(Handler, g) \in Int /\ SumOver(Handler, top) \in Int
  BY <1>1, <1>2, SumOverType
<1>10. g[h] \in Nat /\ f[h] \in Nat
  BY <1>1
<1>11. m + SumOver(Handler, f) <= b
  BY DEF KeysOk, K
<1>12. n + g[h] <= m + f[h] \/ n + g[h] <= K
  BY DEF K
<1> HIDE DEF b
<1> DEFINE sf == SumOver(Handler, f)
           sg == SumOver(Handler, g)
           st == SumOver(Handler, top)
           y == g[h]
           x == f[h]
<1>13. /\ sf \in Int /\ sg \in Int /\ st \in Int /\ x \in Nat /\ y \in Nat /\ K \in Nat /\ b \in Nat
       /\ sg = sf + y - x /\ sg = st + y - K /\ st <= b /\ m + sf <= b
       /\ n + y <= m + x \/ n + y <= K
  BY <1>1, <1>3, <1>6, <1>7, <1>8, <1>9, <1>10, <1>11, <1>12
<1> HIDE DEF sf, sg, st, x, y
<1>14. n + sg <= b
  BY <1>13
<1> QED
  BY <1>14 DEF sg, b, K, KeysOk

\* A job is added to a full trace by a handler that had it in flight; the job that fills the trace
\* leaves at most the others in flight.
LEMMA JobsMove ==
  ASSUME NEW n \in Nat, NEW m \in Nat, NEW P \in SUBSET Handler, NEW Q \in SUBSET Handler,
         JobsOk(n, Cardinality(P)),
         \/ m <= Full
         \/ m = n /\ Q \subseteq P
         \/ m = n + 1 /\ \E h \in Handler : h \notin Q /\ (n > Full => h \in P /\ Q \subseteq P)
  PROVE  JobsOk(m, Cardinality(Q))
<1>1. /\ IsFiniteSet(Handler) /\ Cardinality(Handler) \in Nat /\ Full \in Nat
  BY LimitTypes
<1>2. /\ IsFiniteSet(P) /\ Cardinality(P) \in Nat
      /\ IsFiniteSet(Q) /\ Cardinality(Q) \in Nat
  BY <1>1, FS_Subset, FS_CardinalityType
<1>3. Q \subseteq P => Cardinality(Q) <= Cardinality(P)
  BY <1>2, FS_Subset
<1>4. ASSUME NEW h \in Handler, NEW R, IsFiniteSet(R), h \in R, Q \subseteq R \ {h}
      PROVE  Cardinality(Q) <= Cardinality(R) - 1
  <2>1. IsFiniteSet(R \ {h}) /\ Cardinality(R \ {h}) = Cardinality(R) - 1
    BY <1>4, FS_RemoveElement
  <2>2. Q \in SUBSET (R \ {h})
    BY <1>4
  <2> QED
    BY <2>1, <2>2, FS_Subset
<1>5. CASE m <= Full
  BY <1>1, <1>5 DEF JobsOk
<1>6. CASE m = n /\ Q \subseteq P
  BY <1>1, <1>2, <1>3, <1>6 DEF JobsOk
<1>7. ASSUME m = n + 1, NEW h \in Handler, h \notin Q, n > Full => h \in P /\ Q \subseteq P
      PROVE  JobsOk(m, Cardinality(Q))
  <2>1. CASE n > Full
    <3>1. Cardinality(Q) <= Cardinality(P) - 1
      BY <1>2, <1>4, <1>7, <2>1
    <3> QED
      BY <1>1, <1>2, <1>7, <2>1, <3>1 DEF JobsOk
  <2>2. CASE ~(n > Full)
    <3>1. Q \subseteq Handler \ {h}
      BY <1>7
    <3>2. Cardinality(Q) <= Cardinality(Handler) - 1
      BY <1>1, <1>4, <3>1
    <3> QED
      BY <1>1, <1>2, <1>7, <2>2, <3>2 DEF JobsOk
  <2> QED
    BY <2>1, <2>2
<1> QED
  BY <1>5, <1>6, <1>7

LEMMA LimitInit == Init => LimitInv
<1> SUFFICES ASSUME Init PROVE LimitInv
  OBVIOUS
<1>1. \A h \in Handler : task[h] = Idle
  BY DEF Init
<1>2. \A h \in Handler : KnownFinite(task[h])
  BY <1>1 DEF KnownFinite
<1>3. ASSUME NEW t \in Trace
      PROVE  KeysOk(Keyed(t), Gains(t)) /\ JobsOk(Cardinality(JobsOf(t)), Cardinality(Adding(t)))
  <2>1. Keyed(t) = 0 /\ Cardinality(JobsOf(t)) = 0
    <3>1. JobsOf(t) = {} /\ MarkersOf(t) = {}
      BY DEF Init, JobsOf, MarkersOf
    <3> QED
      BY <3>1, FS_EmptySet DEF Keyed
  <2>2. \A h \in Handler : Gains(t)[h] = 0
    BY <1>1 DEF Gains, Allowance, Idle, Reading
  <2>3. Gains(t) \in [Handler -> Int]
    <3> HIDE DEF Gains
    <3>1. DOMAIN Gains(t) = Handler /\ Gains(t) = [h \in Handler |-> Gains(t)[h]]
      BY DEF Gains
    <3> QED
      BY <2>2, <3>1
  <2>4. SumOver(Handler, Gains(t)) = 0
    BY <2>2, <2>3, LimitTypes, SumOverZero
  <2>5. 0 <= KeysPerTrace * Cardinality(Handler)
    <3>1. \A x, y \in Nat : 0 <= x * y
      OBVIOUS
    <3> QED
      BY <3>1, LimitTypes
  <2> QED
    BY <2>1, <2>4, <2>5, LimitTypes DEF KeysOk, JobsOk
<1> QED
  BY <1>2, <1>3 DEF LimitInv

\* What a step of handler h may do to the limits of a trace.
KeysMoves(h, t) ==
  LET n == Keyed(t)' + Allowance(task'[h], t)
  IN  n <= Keyed(t) + Allowance(task[h], t) \/ n <= KeysPerTrace
JobsMoves(h, t) ==
  \/ Cardinality(JobsOf(t))' <= Full
  \/ Cardinality(JobsOf(t))' = Cardinality(JobsOf(t)) /\ Adding(t)' \subseteq Adding(t)
  \/ /\ Cardinality(JobsOf(t))' = Cardinality(JobsOf(t)) + 1 /\ h \notin Adding(t)'
     /\ Cardinality(JobsOf(t)) > Full => h \in Adding(t) /\ Adding(t)' \subseteq Adding(t)

LEMMA LimitMoves ==
  ASSUME IInv, IInv', LimitInv, NEW h \in Handler, \A g \in Handler \ {h} : task'[g] = task[g],
         KnownFinite(task'[h]), \A t \in Trace : KeysMoves(h, t) /\ JobsMoves(h, t)
  PROVE  LimitInv'
<1>1. \A g \in Handler : KnownFinite(task'[g])
  BY DEF LimitInv
<1>2. ASSUME NEW t \in Trace
      PROVE  KeysOk(Keyed(t), Gains(t))'
  <2>1. Keyed(t) \in Nat /\ Keyed(t)' \in Nat
    BY ViewTypes, ViewTypesNext DEF IInv
  <2>2. Gains(t) \in [Handler -> 0 .. KeysPerTrace]
    BY GainsType
  <2>3. \A g \in Handler : Allowance(task'[g], t) \in 0 .. KeysPerTrace
    <3>1. \A g \in Handler : task'[g] \in Task \cup {Idle}
      BY DEF IInv, TaskInv, TaskType
    <3> QED
      BY <1>1, <3>1, AllowanceType
  <2>4. Gains(t)' = [g \in Handler |-> Allowance(task'[g], t)]
    BY DEF Gains
  <2>5. Gains(t)' \in [Handler -> 0 .. KeysPerTrace]
    BY <2>3, <2>4
  <2>6. /\ \A g \in Handler : g # h => Gains(t)'[g] = Gains(t)[g]
        /\ Gains(t)'[h] = Allowance(task'[h], t) /\ Gains(t)[h] = Allowance(task[h], t)
    BY <2>4 DEF Gains
  <2>7. KeysOk(Keyed(t), Gains(t)) /\ KeysMoves(h, t)
    BY DEF LimitInv
  <2>8. \/ Keyed(t)' + Gains(t)'[h] <= Keyed(t) + Gains(t)[h]
        \/ Keyed(t)' + Gains(t)'[h] <= KeysPerTrace
    BY <2>6, <2>7 DEF KeysMoves
  <2>9. \A m \in Nat, n \in Nat :
          \A f \in [Handler -> 0 .. KeysPerTrace], g \in [Handler -> 0 .. KeysPerTrace] :
            /\ \A x \in Handler : x # h => g[x] = f[x]
            /\ n + g[h] <= m + f[h] \/ n + g[h] <= KeysPerTrace
            /\ KeysOk(m, f)
            => KeysOk(n, g)
    BY KeysMove
  <2>10. KeysOk(Keyed(t)', Gains(t)')
    <3> HIDE DEF Keyed, Gains, KeysOk
    <3> QED
      BY <2>1, <2>2, <2>5, <2>6, <2>7, <2>8, <2>9
  <2> QED
    BY <2>10 DEF KeysOk
<1>3. ASSUME NEW t \in Trace
      PROVE  JobsOk(Cardinality(JobsOf(t)), Cardinality(Adding(t)))'
  <2>1. Cardinality(JobsOf(t)) \in Nat /\ Cardinality(JobsOf(t))' \in Nat
    BY ViewTypes, ViewTypesNext DEF IInv
  <2>2. Adding(t) \in SUBSET Handler /\ Adding(t)' \in SUBSET Handler
    BY DEF Adding
  <2>3. JobsOk(Cardinality(JobsOf(t)), Cardinality(Adding(t))) /\ JobsMoves(h, t)
    BY DEF LimitInv
  <2> DEFINE n == Cardinality(JobsOf(t))
             m == Cardinality(JobsOf(t))'
             P == Adding(t)
             Q == Adding(t)'
  <2>4. \/ m <= Full
        \/ m = n /\ Q \subseteq P
        \/ m = n + 1 /\ \E x \in Handler : x \notin Q /\ (n > Full => x \in P /\ Q \subseteq P)
    BY <2>3 DEF JobsMoves
  <2>5. n \in Nat /\ m \in Nat /\ P \in SUBSET Handler /\ Q \in SUBSET Handler
        /\ JobsOk(n, Cardinality(P))
    BY <2>1, <2>2, <2>3
  <2> HIDE DEF n, m, P, Q
  <2>6. JobsOk(m, Cardinality(Q))
    BY <2>4, <2>5, JobsMove
  <2> QED
    BY <2>6 DEF m, Q, JobsOk
<1> QED
  BY <1>1, <1>2, <1>3 DEF LimitInv

\* What a step leaves of trace t.
ViewKept(t) == JobsOf(t)' = JobsOf(t) /\ MarkersOf(t)' = MarkersOf(t) /\ Marked(t)' = Marked(t)

LEMMA IndexKept == index' = index => \A t \in Trace : ViewKept(t)
  BY DEF index, ViewKept, JobsOf, MarkersOf, Marked

\* A step that leaves the trace, of a handler that has no more in flight than before.
LEMMA KeptMoves ==
  ASSUME IInv, IInv', LimitInv, NEW h \in Handler, \A g \in Handler \ {h} : task'[g] = task[g],
         KnownFinite(task'[h]),
         NEW t \in Trace, ViewKept(t),
         \/ Cardinality(JobsOf(t)) <= Full
         \/ ~Adds(task'[h], t, JobsOf(t), Keyed(t), Marked(t))
         \/ Adds(task[h], t, JobsOf(t), Keyed(t), Marked(t)),
         \/ Allowance(task'[h], t) <= Allowance(task[h], t)
         \/ Keyed(t) + Allowance(task'[h], t) <= KeysPerTrace
  PROVE  KeysMoves(h, t) /\ JobsMoves(h, t)
<1>1. /\ JobsOf(t)' = JobsOf(t) /\ Keyed(t)' = Keyed(t) /\ Marked(t)' = Marked(t)
      /\ Cardinality(JobsOf(t))' = Cardinality(JobsOf(t))
  BY DEF ViewKept, Keyed
<1>2. KeysMoves(h, t)
  <2>1. Allowance(task'[h], t) <= Allowance(task[h], t)
          => Keyed(t) + Allowance(task'[h], t) <= Keyed(t) + Allowance(task[h], t)
    <3>1. Keyed(t) \in Nat /\ Allowance(task[h], t) \in Int
      <4>1. task[h] \in Task \cup {Idle} /\ KnownFinite(task[h])
        BY DEF IInv, TaskInv, TaskType, LimitInv
      <4> QED
        BY <4>1, AllowanceType, ViewTypes DEF IInv
    <3>2. Allowance(task'[h], t) \in Int
      <4>1. task'[h] \in Task \cup {Idle}
        BY DEF IInv, TaskInv, TaskType
      <4> QED
        BY <4>1, AllowanceType
    <3> QED
      BY <3>1, <3>2
  <2> QED
    BY <1>1, <2>1 DEF KeysMoves
<1>3. ASSUME ~(Cardinality(JobsOf(t)) <= Full)
      PROVE  Adding(t)' \subseteq Adding(t)
  <2>1. Adding(t)' = {g \in Handler : Adds(task'[g], t, JobsOf(t), Keyed(t), Marked(t))}
    BY <1>1 DEF Adding
  <2>2. \A g \in Handler : Adds(task'[g], t, JobsOf(t), Keyed(t), Marked(t))
                             => Adds(task[g], t, JobsOf(t), Keyed(t), Marked(t))
    <3> HIDE DEF Adds
    <3> QED
      BY <1>3
  <2> QED
    BY <2>1, <2>2 DEF Adding
<1> QED
  BY <1>1, <1>2, <1>3 DEF JobsMoves

-----------------------------------------------------------------------------

\* A handler between the reads and the write of an event has nothing in flight.
LEMMA RestingTask ==
  ASSUME NEW s, s.pc \notin Reading
  PROVE  /\ \A t : Allowance(s, t) = 0
         /\ \A t, entries, keyed, marked : ~Adds(s, t, entries, keyed, marked)
  BY DEF Allowance, Adds, Reading

LEMMA RestingMoves ==
  ASSUME IInv, IInv', LimitInv, NEW h \in Handler, \A g \in Handler \ {h} : task'[g] = task[g],
         KnownFinite(task'[h]), task'[h].pc \notin Reading, NEW t \in Trace, ViewKept(t)
  PROVE  KeysMoves(h, t) /\ JobsMoves(h, t)
<1>1. Allowance(task'[h], t) = 0 /\ ~Adds(task'[h], t, JobsOf(t), Keyed(t), Marked(t))
  BY RestingTask
<1>2. task[h] \in Task \cup {Idle} /\ KnownFinite(task[h])
  BY DEF IInv, TaskInv, TaskType, LimitInv
<1>3. Allowance(task[h], t) \in 0 .. KeysPerTrace /\ KeysPerTrace \in Nat
  BY <1>2, AllowanceType, LimitTypes
<1>4. Allowance(task'[h], t) <= Allowance(task[h], t)
  <2> HIDE DEF Allowance
  <2> QED
    BY <1>1, <1>3
<1> HIDE DEF Allowance, Adds
<1> QED
  BY <1>1, <1>4, KeptMoves

\* The keys written are as many as the handler had in flight.
LEMMA FreshBounded ==
  ASSUME NEW h \in Handler, task[h] \in Task, At(h, "write"), IsFiniteSet(task[h].known)
  PROVE  /\ IsFiniteSet(FreshMembers(h)) /\ Cardinality(FreshMembers(h)) \in Nat
         /\ Cardinality(FreshMembers(h)) <= Allowance(task[h], TraceAt(h))
<1> DEFINE s == task[h]
           news == Without(KeysOf[s.job], s.known)
           t == TraceAt(h)
           room == KeysPerTrace - Cardinality(s.known)
           D == {n \in DOMAIN news : n <= room}
           f == [i \in D |-> <<t, news[i]>>]
<1>1. news \in Seq(Key)
  <2>1. s.job \in Job
    BY DEF Task
  <2>2. KeysOf[s.job] \in Seq(Key)
    BY <2>1, FlowIndexAssumption DEF FlowIndexAssumption
  <2> QED
    BY <2>2, WithoutRemoves
<1>2. FreshMembers(h) = {<<t, news[i]>> : i \in D}
  BY DEF FreshMembers, FreshKeys
<1>3. room \in Int /\ Cardinality(s.known) \in Nat /\ KeysPerTrace \in Nat
  BY FS_CardinalityType, LimitTypes
<1>4. Allowance(s, t) = IF room > 0 THEN room ELSE 0
  BY <1>3 DEF Allowance, At, Reading, TraceAt
<1>5. D \subseteq 1 .. room
  <2>1. DOMAIN news \subseteq Nat \ {0}
    BY <1>1
  <2> HIDE DEF news, room
  <2> QED
    BY <1>3, <2>1
<1> HIDE DEF room, news, t, D, s
<1>6. IsFiniteSet(1 .. room) /\ Cardinality(1 .. room) = IF room > 0 THEN room ELSE 0
  BY <1>3, FS_Interval
<1>7. IsFiniteSet(D) /\ Cardinality(D) <= Cardinality(1 .. room) /\ Cardinality(D) \in Nat
  <2>1. D \in SUBSET (1 .. room)
    BY <1>5
  <2> QED
    BY <1>6, <2>1, FS_Subset, FS_CardinalityType
<1>8. f \in Surjection(D, FreshMembers(h))
  BY <1>2 DEF Surjection
<1>9. IsFiniteSet(FreshMembers(h)) /\ Cardinality(FreshMembers(h)) <= Cardinality(D)
  BY <1>7, <1>8, FS_Surjection
<1>10. Cardinality(FreshMembers(h)) \in Nat
  BY <1>9, FS_CardinalityType
<1>11. Cardinality(FreshMembers(h)) <= Allowance(s, t)
  BY <1>3, <1>4, <1>6, <1>7, <1>9, <1>10
<1> QED
  BY <1>9, <1>10, <1>11 DEF s, t

\* What the write of a job changes of its trace, and of others.
LEMMA IndexJobView ==
  ASSUME IInv, NEW h \in Handler, task[h] \in Task, IndexJob(h), NEW t \in Trace
  PROVE  /\ t # TraceAt(h) => ViewKept(t)
         /\ t = TraceAt(h) => /\ MarkersOf(t)' = MarkersOf(t) \cup FreshMembers(h)
                              /\ \/ JobsOf(t)' = JobsOf(t)
                                 \/ ~task[h].truncated /\ JobsOf(t)' = JobsOf(t) \cup {EntryOf(h)}
<1>1. TraceOf[EntryOf(h).job] = TraceAt(h)
  BY DEF EntryOf, TraceAt
<1>2. \A m \in FreshMembers(h) : m[1] = TraceAt(h)
  BY DEF FreshMembers
<1>3. markers' = markers \cup FreshMembers(h)
  BY DEF IndexJob
<1>4. \/ jobs' = jobs /\ marks' = marks \cup {TraceAt(h)}
      \/ ~task[h].truncated /\ jobs' = jobs \cup {EntryOf(h)} /\ marks' = marks
  BY DEF IndexJob
<1>5. MarkersOf(t)' = IF t = TraceAt(h) THEN MarkersOf(t) \cup FreshMembers(h) ELSE MarkersOf(t)
  <2>1. MarkersOf(t)' = {m \in markers' : m[1] = t}
    BY DEF MarkersOf
  <2> HIDE DEF FreshMembers, TraceAt
  <2> QED
    BY <1>2, <1>3, <2>1 DEF MarkersOf
<1>6. JobsOf(t)' = {e \in jobs' : TraceOf[e.job] = t}
  BY DEF JobsOf
<1>7. {t} \cap marks' = {t} \cap marks \/ t = TraceAt(h)
  <2> HIDE DEF TraceAt
  <2> QED
    BY <1>4
<1> DEFINE e == EntryOf(h)
           u == TraceAt(h)
<1> HIDE DEF e, u
<1>8. JobsOf(t)' = JobsOf(t) \/ (t = u /\ ~task[h].truncated /\ JobsOf(t)' = JobsOf(t) \cup {e})
  <2>1. TraceOf[e.job] = u
    BY <1>1 DEF e, u
  <2>2. jobs' = jobs \/ (~task[h].truncated /\ jobs' = jobs \cup {e})
    BY <1>4 DEF e
  <2> QED
    BY <1>6, <2>1, <2>2 DEF JobsOf
<1> QED
  BY <1>5, <1>7, <1>8 DEF ViewKept, Marked, e, u

\* What is in flight for others does not grow when a trace has more jobs and keys.
LEMMA AddsLess ==
  ASSUME NEW s, NEW t, NEW a, NEW b, a \subseteq b, NEW m \in Nat, NEW n \in Nat, m <= n,
         NEW x, NEW y, ~Alone, s = Idle \/ (s \in Task /\ Cardinality(s.known) \in Nat),
         Adds(s, t, b, n, y)
  PROVE  Adds(s, t, a, m, x)
  BY DEF Adds

LEMMA IndexJobMoves ==
  ASSUME IInv, IInv', LimitInv, NEW h \in Handler, \A g \in Handler \ {h} : task'[g] = task[g],
         KnownFinite(task'[h]), task'[h].pc \notin Reading, At(h, "write"), IndexJob(h),
         NEW t \in Trace
  PROVE  KeysMoves(h, t) /\ JobsMoves(h, t)
<1>1. task[h] \in Task /\ IsFiniteSet(task[h].known)
  <2>1. task[h] # Idle
    BY DEF At, Idle
  <2> QED
    BY <2>1 DEF IInv, TaskInv, TaskType, LimitInv, KnownFinite
<1>2. CASE t # TraceAt(h)
  <2>1. ViewKept(t)
    BY <1>1, <1>2, IndexJobView
  <2> QED
    BY <2>1, RestingMoves
<1>3. CASE t = TraceAt(h)
  <2>1. /\ MarkersOf(t)' = MarkersOf(t) \cup FreshMembers(h)
        /\ \/ JobsOf(t)' = JobsOf(t)
           \/ ~task[h].truncated /\ JobsOf(t)' = JobsOf(t) \cup {EntryOf(h)}
    BY <1>1, <1>3, IndexJobView
  <2>2. /\ IsFiniteSet(FreshMembers(h)) /\ Cardinality(FreshMembers(h)) \in Nat
        /\ Cardinality(FreshMembers(h)) <= Allowance(task[h], t)
    BY <1>1, <1>3, FreshBounded
  <2>3. /\ IsFiniteSet(JobsOf(t)) /\ Cardinality(JobsOf(t)) \in Nat
        /\ IsFiniteSet(MarkersOf(t)) /\ Keyed(t) \in Nat
        /\ IsFiniteSet(MarkersOf(t)') /\ Keyed(t)' \in Nat
    BY ViewTypes, ViewTypesNext DEF IInv
  <2>4. Keyed(t) <= Keyed(t)' /\ Keyed(t)' <= Keyed(t) + Cardinality(FreshMembers(h))
    <3> DEFINE a == MarkersOf(t)
               b == FreshMembers(h)
               c == MarkersOf(t)'
    <3>1. IsFiniteSet(a) /\ IsFiniteSet(b) /\ IsFiniteSet(c) /\ c = a \cup b
      BY <2>1, <2>2, <2>3
    <3> HIDE DEF a, b, c
    <3>2. a \in SUBSET c /\ a \cap b \in SUBSET a
      BY <3>1
    <3>3. IsFiniteSet(a \cap b)
      BY <3>1, <3>2, FS_Subset
    <3>4. /\ Cardinality(a) \in Nat /\ Cardinality(b) \in Nat /\ Cardinality(c) \in Nat
          /\ Cardinality(a \cap b) \in Nat
      BY <3>1, <3>3, FS_CardinalityType
    <3>5. Cardinality(c) = Cardinality(a) + Cardinality(b) - Cardinality(a \cap b)
      BY <3>1, FS_Union
    <3>6. Cardinality(a) <= Cardinality(c)
      BY <3>1, <3>2, FS_Subset
    <3>7. Cardinality(c) <= Cardinality(a) + Cardinality(b)
      BY <3>4, <3>5
    <3> QED
      BY <3>6, <3>7 DEF Keyed, a, b, c
  <2>5. Allowance(task'[h], t) = 0
    BY RestingTask
  <2>6. KeysMoves(h, t)
    <3>1. Allowance(task[h], t) \in Nat
      <4>1. Allowance(task[h], t) \in 0 .. KeysPerTrace
        BY <1>1, AllowanceType DEF KnownFinite
      <4> QED
        BY <4>1, LimitTypes
    <3> DEFINE x == Allowance(task[h], t)
               k == Keyed(t)
               l == Keyed(t)'
               c == Cardinality(FreshMembers(h))
               z == Allowance(task'[h], t)
    <3>2. x \in Nat /\ k \in Nat /\ l \in Nat /\ c \in Nat /\ z = 0 /\ c <= x /\ l <= k + c
      BY <2>2, <2>3, <2>4, <2>5, <3>1
    <3> HIDE DEF x, k, l, c, z
    <3>3. l + z <= k + x
      BY <3>2
    <3> QED
      BY <3>3 DEF x, k, l, z, KeysMoves
  <2>7. h \notin Adding(t)'
    BY RestingTask DEF Adding
  <2>8. JobsOf(t) \subseteq JobsOf(t)'
    BY <2>1
  <2>9. Adding(t)' \subseteq Adding(t)
    <3> SUFFICES ASSUME NEW g \in Adding(t)' PROVE g \in Adding(t)
      OBVIOUS
    <3>1. g \in Handler /\ g # h
      BY <2>7 DEF Adding
    <3>2. ~Alone /\ task'[g] = task[g]
      BY <3>1, LimitTypes
    <3>3. Adds(task[g], t, JobsOf(t)', Keyed(t)', Marked(t)')
      BY <3>2 DEF Adding
    <3>4. task[g] = Idle \/ (task[g] \in Task /\ Cardinality(task[g].known) \in Nat)
      <4>1. task[g] \in Task \cup {Idle} /\ KnownFinite(task[g])
        BY <3>1 DEF IInv, TaskInv, TaskType, LimitInv
      <4> QED
        BY <4>1, FS_CardinalityType DEF KnownFinite
    <3>5. Adds(task[g], t, JobsOf(t), Keyed(t), Marked(t))
      <4> DEFINE s == task[g]
                 a == JobsOf(t)
                 b == JobsOf(t)'
                 m == Keyed(t)
                 n == Keyed(t)'
                 y == Marked(t)'
      <4>1. /\ a \subseteq b /\ m \in Nat /\ n \in Nat /\ m <= n
            /\ Adds(s, t, b, n, y)
            /\ s = Idle \/ (s \in Task /\ Cardinality(s.known) \in Nat)
        BY <2>3, <2>4, <2>8, <3>3, <3>4
      <4> HIDE DEF s, a, b, m, n, y
      <4>2. Adds(s, t, a, m, Marked(t))
        BY <3>2, <4>1, AddsLess
      <4> QED
        BY <4>2 DEF s, a, m
    <3> QED
      BY <3>1, <3>5 DEF Adding
  <2>10. JobsMoves(h, t)
    <3>1. CASE JobsOf(t)' = JobsOf(t)
      BY <2>9, <3>1 DEF JobsMoves
    <3>2. CASE EntryOf(h) \in JobsOf(t)
      <4>1. JobsOf(t)' = JobsOf(t)
        BY <2>1, <3>2
      <4> QED
        BY <2>9, <4>1 DEF JobsMoves
    <3>3. CASE EntryOf(h) \notin JobsOf(t) /\ JobsOf(t)' # JobsOf(t)
      <4>1. ~task[h].truncated /\ JobsOf(t)' = JobsOf(t) \cup {EntryOf(h)}
        BY <2>1, <3>3
      <4>2. Cardinality(JobsOf(t) \cup {EntryOf(h)}) = Cardinality(JobsOf(t)) + 1
        BY <2>3, <3>3, FS_AddElement
      <4>3. Cardinality(JobsOf(t))' = Cardinality(JobsOf(t)) + 1
        BY <4>1, <4>2
      <4>4. h \in Adding(t)
        BY <1>3, <3>3, <4>1 DEF Adding, Adds, At, Idle, EntryOf, TraceAt
      <4> QED
        BY <2>7, <2>9, <4>3, <4>4 DEF JobsMoves
    <3> QED
      BY <3>1, <3>2, <3>3
  <2> QED
    BY <2>6, <2>10
<1> QED
  BY <1>2, <1>3

LEMMA EvictMoves ==
  ASSUME IInv, IInv', LimitInv, NEW h \in Handler, \A g \in Handler \ {h} : task'[g] = task[g],
         KnownFinite(task'[h]), task'[h].pc \notin Reading, EvictTraces(h), NEW t \in Trace
  PROVE  KeysMoves(h, t) /\ JobsMoves(h, t)
<1> DEFINE gone == ToSet(task[h].oldest)
<1>1. /\ jobs' = {e \in jobs : TraceOf[e.job] \notin gone}
      /\ marks' = marks \ gone
      /\ markers' = {m \in markers : m[1] \notin gone}
  BY DEF EvictTraces
<1> HIDE DEF gone
<1>2. CASE t \notin gone
  <2>1. ViewKept(t)
    BY <1>1, <1>2 DEF ViewKept, JobsOf, MarkersOf, Marked
  <2> QED
    BY <2>1, RestingMoves
<1>3. CASE t \in gone
  <2>1. JobsOf(t)' = {} /\ MarkersOf(t)' = {}
    BY <1>1, <1>3 DEF JobsOf, MarkersOf
  <2>2. Cardinality(JobsOf(t))' = 0 /\ Keyed(t)' = 0
    BY <2>1, FS_EmptySet DEF Keyed
  <2>3. Allowance(task'[h], t) = 0
    BY RestingTask
  <2> QED
    BY <2>2, <2>3, LimitTypes DEF KeysMoves, JobsMoves
<1> QED
  BY <1>2, <1>3

-----------------------------------------------------------------------------

\* The steps around the reads and the write: whatever they change of the index, the handler has
\* nothing in flight after them.
LEMMA LimitRests ==
  ASSUME IInv, IInv', LimitInv, NEW h \in Handler, \A g \in Handler \ {h} : task'[g] = task[g],
         KnownFinite(task'[h]), task'[h].pc \notin Reading,
         index' = index \/ (At(h, "write") /\ IndexJob(h)) \/ EvictTraces(h)
  PROVE  LimitInv'
<1>1. ASSUME index' = index
      PROVE  \A t \in Trace : KeysMoves(h, t) /\ JobsMoves(h, t)
  BY <1>1, IndexKept, RestingMoves
<1>2. ASSUME At(h, "write"), IndexJob(h)
      PROVE  \A t \in Trace : KeysMoves(h, t) /\ JobsMoves(h, t)
  BY <1>2, IndexJobMoves
<1>3. ASSUME EvictTraces(h)
      PROVE  \A t \in Trace : KeysMoves(h, t) /\ JobsMoves(h, t)
  BY <1>3, EvictMoves
<1>4. \A t \in Trace : KeysMoves(h, t) /\ JobsMoves(h, t)
  BY <1>1, <1>2, <1>3
<1> QED
  BY <1>4, LimitMoves

\* A handler that is not idle has a task, and read a finite set of keys.
LEMMA BusyTask ==
  ASSUME IInv, LimitInv, NEW h \in Handler, task[h].pc # "idle"
  PROVE  /\ task[h] \in Task /\ IsFiniteSet(task[h].known) /\ Cardinality(task[h].known) \in Nat
         /\ task[h] # Idle
<1>1. task[h] # Idle
  BY DEF Idle
<1>2. task[h] \in Task /\ IsFiniteSet(task[h].known)
  BY <1>1 DEF IInv, TaskInv, TaskType, LimitInv, KnownFinite
<1> QED
  BY <1>1, <1>2, FS_CardinalityType

LEMMA LimitEvent ==
  ASSUME IInv, IInv', LimitInv, NEW h \in Handler, NEW j \in Job, OnEvent(h, j)
  PROVE  LimitInv'
<1> DEFINE s == [pc |-> IF j \in Parented THEN "parent" ELSE "known", job |-> j, parent |-> FALSE,
                 known |-> {}, all |-> 0, truncated |-> FALSE, excess |-> 0, oldest |-> <<>>,
                 read |-> 0, owned |-> {}]
<1>1. s.known = {} /\ s.pc \notin Reading
  BY DEF Reading
<1>2. task' = [task EXCEPT ![h] = s] /\ index' = index
  BY DEF OnEvent
<1> HIDE DEF s
<1>3. task'[h] = s /\ \A g \in Handler \ {h} : task'[g] = task[g]
  BY <1>2 DEF IInv, TaskInv, TaskType
<1>4. KnownFinite(s)
  BY <1>1, FS_EmptySet DEF KnownFinite
<1> QED
  BY <1>1, <1>2, <1>3, <1>4, LimitRests

\* The call that resolves the parent, the write, and the steps of the eviction.
LEMMA LimitOthers ==
  ASSUME IInv, IInv', LimitInv, NEW h \in Handler,
         \/ ResolveParent(h) \/ Write(h) \/ ReadCard(h) \/ ReadOldest(h) \/ ReadOwned(h)
         \/ Evict(h) \/ CallFails(h)
  PROVE  LimitInv'
<1>1. task[h].pc # "idle"
  <2>1. CASE CallFails(h)
    BY <2>1 DEF CallFails, Busy, IInv, TaskInv, TaskType, Task
  <2> QED
    BY <2>1 DEF ResolveParent, Write, ReadCard, ReadOldest, ReadOwned, Evict, At
<1>2. task[h] \in Task /\ IsFiniteSet(task[h].known)
  BY <1>1, BusyTask
<1>3. \A g \in Handler \ {h} : task'[g] = task[g]
  BY DEF ResolveParent, Write, ReadCard, ReadOldest, ReadOwned, Evict, CallFails, Done, Goto,
         IInv, TaskInv, TaskType
<1>4. index' = index \/ (At(h, "write") /\ IndexJob(h)) \/ EvictTraces(h)
  BY DEF ResolveParent, Write, ReadCard, ReadOldest, ReadOwned, Evict, CallFails
<1>5. CASE task'[h] = Idle
  <2>1. task'[h].pc \notin Reading
    BY <1>5 DEF Idle, Reading
  <2> QED
    BY <1>3, <1>4, <1>5, <2>1, LimitRests DEF KnownFinite
<1>6. CASE task'[h] # Idle
  <2>0. DOMAIN task = Handler
    BY DEF IInv, TaskInv, TaskType
  <2>1. task'[h].known \in {task[h].known, {}} /\ task'[h].pc \notin Reading
    <3>1. CASE ResolveParent(h)
      BY <1>2, <2>0, <3>1 DEF ResolveParent, Task, Reading
    <3>2. CASE Write(h)
      BY <1>2, <2>0, <3>2, WrittenIs DEF Write, Reading
    <3>3. CASE ReadCard(h)
      BY <1>2, <1>6, <2>0, <3>3 DEF ReadCard, Done, Task, Reading
    <3>4. CASE ReadOldest(h)
      BY <1>2, <1>6, <2>0, <3>4 DEF ReadOldest, Done, Task, Reading
    <3>5. CASE ReadOwned(h)
      BY <1>2, <2>0, <3>5 DEF ReadOwned, At, Task, Reading
    <3>6. CASE Evict(h) \/ CallFails(h)
      BY <1>6, <2>0, <3>6 DEF Evict, CallFails, Done
    <3> QED
      BY <3>1, <3>2, <3>3, <3>4, <3>5, <3>6
  <2>2. KnownFinite(task'[h])
    BY <1>2, <2>1, FS_EmptySet DEF KnownFinite
  <2> QED
    BY <1>3, <1>4, <2>1, <2>2, LimitRests
<1> QED
  BY <1>5, <1>6

\* The keys read are those the trace has.
LEMMA LimitReadKnown ==
  ASSUME IInv, IInv', LimitInv, NEW h \in Handler, ReadKnown(h)
  PROVE  LimitInv'
<1> DEFINE s == task[h]
           u == TraceAt(h)
           known == {m[2] : m \in MarkersOf(u)}
<1>1. s \in Task /\ s.pc = "known" /\ u \in Trace
  <2>1. s.pc = "known"
    BY DEF ReadKnown, At
  <2>2. s \in Task
    BY <2>1, BusyTask
  <2>3. s.job \in Job
    BY <2>2 DEF Task
  <2> QED
    BY <2>1, <2>2, <2>3, FlowIndexAssumption DEF FlowIndexAssumption, TraceAt
<1>2. /\ task'[h] = [s EXCEPT !.pc = "count", !.known = known]
      /\ \A g \in Handler \ {h} : task'[g] = task[g]
      /\ index' = index
  BY DEF ReadKnown, IInv, TaskInv, TaskType
<1>3. IsFiniteSet(known) /\ Cardinality(known) = Keyed(u)
  <2> DEFINE M == MarkersOf(u)
             f == [m \in M |-> m[2]]
  <2>1. M \subseteq {u} \X Key /\ IsFiniteSet(M)
    BY <1>1, ViewTypes DEF IInv, IndexType, MarkersOf
  <2> HIDE DEF M, u
  <2>2. f \in Surjection(M, known)
    BY DEF Surjection, M
  <2>3. f \in Injection(M, known)
    <3>1. f \in [M -> known]
      BY DEF M
    <3>2. \A m, n \in M : m[2] = n[2] => m = n
      BY <2>1
    <3>3. \A m, n \in M : f[m] = f[n] => m = n
      BY <3>2
    <3> HIDE DEF f
    <3> QED
      BY <3>1, <3>3 DEF Injection, IsInjective
  <2>4. IsFiniteSet(known) /\ (Cardinality(known) = Cardinality(M) <=> f \in Injection(M, known))
    BY <2>1, <2>2, FS_Surjection
  <2> QED
    BY <2>3, <2>4 DEF Keyed, M
<1> HIDE DEF known, u
<1>4. /\ task'[h].pc = "count" /\ task'[h].known = known /\ task'[h].job = s.job
  BY <1>1, <1>2 DEF Task
<1>5. KnownFinite(task'[h])
  BY <1>3, <1>4 DEF KnownFinite
<1>6. ASSUME NEW t \in Trace
      PROVE  KeysMoves(h, t) /\ JobsMoves(h, t)
  <2>1. ViewKept(t)
    BY <1>2, IndexKept
  <2>2. Keyed(u) \in Nat /\ KeysPerTrace \in Nat
    BY <1>1, ViewTypes, LimitTypes DEF IInv
  <2>3. TraceOf[s.job] = u
    BY DEF u, TraceAt
  <2>4. ~Adds(task'[h], t, JobsOf(t), Keyed(t), Marked(t))
    BY <1>3, <1>4, <2>2, <2>3 DEF Adds
  <2>5. Allowance(task'[h], t) <= Allowance(task[h], t)
        \/ Keyed(t) + Allowance(task'[h], t) <= KeysPerTrace
    <3>1. CASE t = u /\ Keyed(u) < KeysPerTrace
      <4>1. Allowance(task'[h], t) = KeysPerTrace - Keyed(u)
        BY <1>3, <1>4, <2>3, <3>1 DEF Allowance, Reading
      <4> QED
        BY <2>2, <3>1, <4>1
    <3>2. CASE ~(t = u /\ Keyed(u) < KeysPerTrace)
      <4>1. Allowance(task'[h], t) = 0
        BY <1>3, <1>4, <2>3, <3>2 DEF Allowance
      <4>2. Allowance(task[h], t) = 0
        BY <1>1 DEF Allowance, Reading
      <4> QED
        BY <4>1, <4>2
    <3> QED
      BY <3>1, <3>2
  <2> HIDE DEF Adds, Allowance
  <2> QED
    BY <1>2, <1>5, <2>1, <2>4, <2>5, KeptMoves
<1> QED
  BY <1>2, <1>5, <1>6, LimitMoves

\* The reads that follow leave the keys a handler may write, and put no job in flight under a
\* trace that is full.
LEMMA LimitReads ==
  ASSUME IInv, IInv', LimitInv, NEW h \in Handler,
         CountMembers(h) \/ ReadMark(h) \/ ReadMember(h)
  PROVE  LimitInv'
<1> DEFINE s == task[h]
           u == TraceAt(h)
<1>1. s \in Task /\ IsFiniteSet(s.known) /\ Cardinality(s.known) \in Nat /\ s # Idle /\ s.pc \in Reading
  <2>1. s.pc \in {"count", "mark", "exists"}
    BY DEF CountMembers, ReadMark, ReadMember, At
  <2> QED
    BY <2>1, BusyTask DEF Reading
<1>2. /\ \A g \in Handler \ {h} : task'[g] = task[g]
      /\ index' = index
  BY DEF CountMembers, ReadMark, ReadMember, Goto, IInv, TaskInv, TaskType
<1>3. task'[h].known = s.known /\ task'[h].job = s.job /\ task'[h].parent = s.parent
      /\ task'[h].pc \in Reading
  <2>0. DOMAIN task = Handler
    BY DEF IInv, TaskInv, TaskType
  <2>1. CASE CountMembers(h)
    BY <1>1, <2>0, <2>1 DEF CountMembers, Task, Reading
  <2>2. CASE ReadMark(h)
    BY <1>1, <2>0, <2>2 DEF ReadMark, Goto, Task, Reading
  <2>3. CASE ReadMember(h)
    BY <1>1, <2>0, <2>3 DEF ReadMember, Task, Reading
  <2> QED
    BY <2>1, <2>2, <2>3
<1>4. KnownFinite(task'[h])
  BY <1>1, <1>3 DEF KnownFinite
<1>5. TraceOf[s.job] = u
  BY DEF TraceAt
<1>6. ASSUME NEW t \in Trace, ~(Cardinality(JobsOf(t)) <= Full),
             Adds(task'[h], t, JobsOf(t), Keyed(t), Marked(t))
      PROVE  Adds(task[h], t, JobsOf(t), Keyed(t), Marked(t))
  <2>0. t = u
    BY <1>3, <1>5, <1>6 DEF Adds
  <2>1. /\ Cardinality(JobsOf(t)) \in Nat /\ Keyed(t) \in Nat /\ Marked(t) \in 0 .. 1
        /\ Full \in Nat
    BY ViewTypes, LimitTypes DEF IInv
  <2>2. CASE CountMembers(h)
    <3> DEFINE p == Cardinality(JobsOf(t)) + Keyed(t) + Marked(t)
    <3>1. s.pc = "count" /\ task'[h].pc = "mark" /\ task'[h].all = p
      BY <1>1, <2>0, <2>2 DEF CountMembers, At, IInv, TaskInv, TaskType, Task, Keyed, Marked
    <3>2. p - Cardinality(s.known) - (IF Alone THEN Marked(t) ELSE 0) <= Full
      BY <1>3, <1>6, <3>1 DEF Adds
    <3>3. Cardinality(s.known) > Keyed(t)
      <4> DEFINE k == Cardinality(s.known)
                 n == Cardinality(JobsOf(t))
                 l == Keyed(t)
                 m == Marked(t)
      <4>1. /\ k \in Nat /\ n \in Nat /\ l \in Nat /\ m \in 0 .. 1 /\ Full \in Nat
            /\ n + l + m - k - (IF Alone THEN m ELSE 0) <= Full /\ ~(n <= Full)
        BY <1>1, <1>6, <2>1, <3>2
      <4> HIDE DEF k, n, l, m
      <4>2. k > l
        BY <4>1
      <4> QED
        BY <4>2 DEF k, l
    <3> QED
      BY <1>1, <1>5, <2>0, <3>1, <3>3 DEF Adds
  <2>3. CASE ReadMark(h)
    <3>1. s.pc = "mark" /\ task'[h].pc = "write" /\ AtLimit(s.all - Cardinality(s.known) - Marked(t)) = FALSE
      <4>1. s.pc = "mark" /\ task' = [task EXCEPT ![h].pc =
               IF AtLimit(s.all - Cardinality(s.known) - Marked(t)) THEN "exists" ELSE "write"]
        BY <2>0, <2>3 DEF ReadMark, Goto, At, Marked
      <4>2. task'[h].pc = IF AtLimit(s.all - Cardinality(s.known) - Marked(t)) THEN "exists"
                          ELSE "write"
        BY <1>1, <4>1 DEF IInv, TaskInv, TaskType, Task
      <4>3. task'[h].pc \notin {"count", "mark", "exists"}
        BY <1>6, <4>2 DEF Adds
      <4> QED
        BY <4>1, <4>2, <4>3
    <3>2. s.all - Cardinality(s.known) - (IF Alone THEN Marked(t) ELSE 0) <= Full
      <4> DEFINE k == Cardinality(s.known)
                 a == s.all
                 m == Marked(t)
      <4>1. k \in Nat /\ a \in Nat /\ m \in 0 .. 1 /\ ~(a - k - m >= JobsPerTrace)
            /\ JobsPerTrace \in Nat
        BY <1>1, <2>1, <3>1, LimitTypes DEF AtLimit, Task
      <4> HIDE DEF k, a, m
      <4>2. a - k - (IF Alone THEN m ELSE 0) <= Full
        BY <4>1 DEF Full
      <4> QED
        BY <4>2 DEF k, a, m
    <3> QED
      BY <1>1, <1>5, <2>0, <3>1, <3>2 DEF Adds
  <2>4. CASE ReadMember(h)
    <3>1. task'[h].pc = "write" /\ task'[h].truncated = (EntryOf(h) \notin jobs)
      BY <1>1, <2>4 DEF ReadMember, IInv, TaskInv, TaskType, Task
    <3>2. EntryOf(h) \in jobs /\ EntryOf(h) \notin JobsOf(t)
      BY <1>3, <1>6, <3>1 DEF Adds, EntryOf
    <3> QED
      BY <1>5, <2>0, <3>2 DEF JobsOf, EntryOf
  <2> QED
    BY <2>2, <2>3, <2>4
<1>7. ASSUME NEW t \in Trace
      PROVE  KeysMoves(h, t) /\ JobsMoves(h, t)
  <2>1. ViewKept(t)
    BY <1>2, IndexKept
  <2>2. Allowance(task'[h], t) = Allowance(task[h], t)
    BY <1>1, <1>3 DEF Allowance
  <2>3. Allowance(task[h], t) \in 0 .. KeysPerTrace
    BY <1>1, AllowanceType DEF KnownFinite
  <2>4. Allowance(task'[h], t) <= Allowance(task[h], t)
    <3> HIDE DEF Allowance
    <3> QED
      BY <2>2, <2>3, LimitTypes
  <2> HIDE DEF Allowance, Adds
  <2> QED
    BY <1>2, <1>4, <1>6, <2>1, <2>4, KeptMoves
<1> QED
  BY <1>2, <1>4, <1>7, LimitMoves

LEMMA LimitSame ==
  ASSUME LimitInv, UNCHANGED <<jobs, marks, markers, task>>
  PROVE  LimitInv'
<1>1. \A t \in Trace : /\ JobsOf(t)' = JobsOf(t) /\ Keyed(t)' = Keyed(t)
                       /\ Gains(t)' = Gains(t) /\ Adding(t)' = Adding(t)
  BY DEF JobsOf, Keyed, MarkersOf, Gains, Adding, Marked
<1>2. \A t \in Trace : KeysOk(Keyed(t)', Gains(t)')
                       /\ JobsOk(Cardinality(JobsOf(t)'), Cardinality(Adding(t)'))
  BY <1>1 DEF LimitInv
<1> QED
  BY <1>2 DEF LimitInv, KeysOk, JobsOk

\* A clear leaves no entries and no keys, or leaves them.
LEMMA LimitClear ==
  ASSUME IInv, LimitInv, NEW c \in Clearer,
         ClearTraces(c) \/ ClearJobs(c) \/ ClearKeys(c) \/ ClearMeta(c)
  PROVE  LimitInv'
<1>1. CASE ClearTraces(c) \/ ClearKeys(c) \/ ClearMeta(c)
  BY <1>1, LimitSame DEF ClearTraces, ClearKeys, ClearMeta
<1>2. CASE ClearJobs(c)
  <2>1. jobs' = {} /\ markers' = {} /\ task' = task
    BY <1>2 DEF ClearJobs
  <2>2. ASSUME NEW t \in Trace
        PROVE  KeysOk(Keyed(t)', Gains(t)') /\ JobsOk(Cardinality(JobsOf(t)'), Cardinality(Adding(t)'))
    <3>1. JobsOf(t)' = {} /\ MarkersOf(t)' = {}
      BY <2>1 DEF JobsOf, MarkersOf
    <3>2. Cardinality(JobsOf(t)') = 0 /\ Keyed(t)' = 0 /\ Gains(t)' = Gains(t)
      BY <2>1, <3>1, FS_EmptySet DEF Keyed, Gains
    <3>3. KeysOk(Keyed(t), Gains(t)) /\ Keyed(t) \in Nat
      BY ViewTypes DEF LimitInv, IInv
    <3>4. SumOver(Handler, Gains(t)) \in Nat
      <4>1. Gains(t) \in [Handler -> Nat]
        <5>1. Gains(t) \in [Handler -> 0 .. KeysPerTrace]
          BY GainsType
        <5> QED
          BY <5>1, LimitTypes
      <4> QED
        BY <4>1, SumOverNat, LimitTypes
    <3>5. KeysPerTrace * Cardinality(Handler) \in Nat
      <4>1. \A x, y \in Nat : x * y \in Nat
        OBVIOUS
      <4> QED
        BY <4>1, LimitTypes
    <3>6. KeysOk(0, Gains(t))
      <4> DEFINE b == KeysPerTrace * Cardinality(Handler)
                 g == SumOver(Handler, Gains(t))
                 k == Keyed(t)
      <4>1. b \in Nat /\ g \in Nat /\ k \in Nat /\ k + g <= b
        BY <3>3, <3>4, <3>5 DEF KeysOk
      <4> HIDE DEF b, g, k
      <4>2. 0 + g <= b
        BY <4>1
      <4> QED
        BY <4>2 DEF KeysOk, b, g
    <3>7. JobsOk(0, Cardinality(Adding(t)'))
      BY LimitTypes DEF JobsOk
    <3> QED
      BY <3>2, <3>6, <3>7
  <2> QED
    BY <2>1, <2>2 DEF LimitInv, KeysOk, JobsOk
<1> QED
  BY <1>1, <1>2

LEMMA LimitStep == IInv /\ IInv' /\ LimitInv /\ [Next]_vars => LimitInv'
<1> SUFFICES ASSUME IInv, IInv', LimitInv, [Next]_vars PROVE LimitInv'
  OBVIOUS
<1>1. ASSUME NEW h \in Handler, NEW j \in Job, OnEvent(h, j)
      PROVE  LimitInv'
  BY <1>1, LimitEvent
<1>2. ASSUME NEW j \in Job, RemoveParent(j)
      PROVE  LimitInv'
  BY <1>2, LimitSame DEF RemoveParent, index
<1>3. ASSUME NEW h \in Handler, ReadKnown(h)
      PROVE  LimitInv'
  BY <1>3, LimitReadKnown
<1>4. ASSUME NEW h \in Handler, CountMembers(h) \/ ReadMark(h) \/ ReadMember(h)
      PROVE  LimitInv'
  BY <1>4, LimitReads
<1>5. ASSUME NEW h \in Handler,
             \/ ResolveParent(h) \/ Write(h) \/ ReadCard(h) \/ ReadOldest(h) \/ ReadOwned(h)
             \/ Evict(h) \/ CallFails(h)
      PROVE  LimitInv'
  BY <1>5, LimitOthers
<1>6. CASE UNCHANGED vars
  BY <1>6, LimitSame DEF vars
<1>7. ASSUME NEW c \in Clearer, ClearTraces(c) \/ ClearJobs(c) \/ ClearKeys(c) \/ ClearMeta(c)
      PROVE  LimitInv'
  BY <1>7, LimitClear
<1> QED
  BY <1>1, <1>2, <1>3, <1>4, <1>5, <1>6, <1>7 DEF Next

\* Past its limit a trace has at most one job more for each handler, none for a handler alone, and
\* the keys of a trace are within the budgets of the handlers together: what is in flight when a
\* trace fills up is added, and nothing counted after that, however many events arrive, unless the
\* trace was evicted or cleared in between.
THEOREM OverrunBoundedHolds == Spec => []OverrunBounded
<1>1. IInv /\ LimitInv => OverrunBounded
  <2> SUFFICES ASSUME IInv, LimitInv, NEW t \in Trace
               PROVE  /\ Cardinality(JobsOf(t)) <= JobsPerTrace + (IF Cardinality(Handler) = 1 THEN 0
                                                                   ELSE Cardinality(Handler))
                      /\ Cardinality(MarkersOf(t)) <= KeysPerTrace * Cardinality(Handler)
    BY DEF OverrunBounded
  <2>1. /\ Cardinality(JobsOf(t)) \in Nat /\ Keyed(t) \in Nat
        /\ Cardinality(Handler) \in Nat /\ JobsPerTrace \in Nat \ {0} /\ KeysPerTrace \in Nat
        /\ IsFiniteSet(Handler)
    BY ViewTypes, LimitTypes DEF IInv
  <2>2. KeysOk(Keyed(t), Gains(t)) /\ JobsOk(Cardinality(JobsOf(t)), Cardinality(Adding(t)))
    BY DEF LimitInv
  <2>3. Cardinality(Adding(t)) \in Nat
    <3>1. Adding(t) \in SUBSET Handler
      BY DEF Adding
    <3> QED
      BY <2>1, <3>1, FS_Subset, FS_CardinalityType
  <2>4. Cardinality(JobsOf(t)) <= JobsPerTrace + (IF Cardinality(Handler) = 1 THEN 0
                                                  ELSE Cardinality(Handler))
    BY <2>1, <2>2, <2>3 DEF JobsOk, Full, Alone
  <2>5. Gains(t) \in [Handler -> Nat]
    <3>1. Gains(t) \in [Handler -> 0 .. KeysPerTrace]
      BY GainsType
    <3> QED
      BY <2>1, <3>1
  <2>6. SumOver(Handler, Gains(t)) \in Nat
    BY <2>1, <2>5, SumOverNat
  <2>7. KeysPerTrace * Cardinality(Handler) \in Nat
    <3>1. \A x, y \in Nat : x * y \in Nat
      OBVIOUS
    <3> QED
      BY <2>1, <3>1
  <2>8. Keyed(t) <= KeysPerTrace * Cardinality(Handler)
    <3> DEFINE b == KeysPerTrace * Cardinality(Handler)
               g == SumOver(Handler, Gains(t))
               k == Keyed(t)
    <3>1. b \in Nat /\ g \in Nat /\ k \in Nat /\ k + g <= b
      BY <2>1, <2>2, <2>6, <2>7 DEF KeysOk
    <3> HIDE DEF b, g, k
    <3>2. k <= b
      BY <3>1
    <3> QED
      BY <3>2 DEF k, b
  <2> QED
    BY <2>4, <2>8 DEF Keyed
<1> QED
  BY <1>1, InvariantHolds, LimitInit, LimitStep, PTL DEF Spec
=============================================================================
