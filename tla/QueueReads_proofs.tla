--------------------------- MODULE QueueReads_proofs ---------------------------
(* Theorems about the readers of queues, for any queues, statuses, pages and limits. *)
EXTENDS QueueReads, Sums_proofs

ScanRecord == [pc : {"idle", "reads", "done"}, status : Nat, start : Nat, size : Nat,
               read : Nat, found : SUBSET Job, partial : BOOLEAN]

ListsType ==
  /\ lists \in [ToSet(Queue) -> [ToSet(Status) -> Seq(Job)]] /\ gone \subseteq Job /\ moves \in Nat

LEMMA LimitsType ==
  Page \in Nat \ {0} /\ Limit \in Nat \ {0} /\ Total \in Nat \ {0}
  BY PendingScanAssumption DEF PendingScanAssumption

LEMMA ListsOfQueue ==
  ASSUME ListsType, NEW q \in ToSet(Queue), NEW s \in ToSet(Status)
  PROVE  lists[q][s] \in Seq(Job)
  BY DEF ListsType

-----------------------------------------------------------------------------
(* Pages *)

\* A slice is no longer than what was asked for.
LEMMA SliceType ==
  ASSUME NEW s \in Seq(Job), NEW after \in Nat, NEW n \in Nat
  PROVE  Slice(s, after, n) \in Seq(Job) /\ Len(Slice(s, after, n)) \in 0 .. n
<1> DEFINE hi == IF after + n <= Len(s) THEN after + n ELSE Len(s)
           m == after + 1
<1>1. Len(s) \in Nat
  OBVIOUS
<1>2. hi \in Int /\ m \in Int /\ hi <= Len(s) /\ hi <= after + n /\ m >= 1
  BY <1>1
<1>3. \A i \in m .. hi : s[i] \in Job
  BY <1>1, <1>2
<1> HIDE DEF hi, m
<1>4. /\ SubSeq(s, m, hi) \in Seq(Job)
      /\ Len(SubSeq(s, m, hi)) = IF m <= hi THEN hi - m + 1 ELSE 0
  <2>1. m \in Int /\ hi \in Int
    BY <1>2
  <2> QED
    BY <2>1, <1>3, SubSeqProperties
<1>5. Len(SubSeq(s, m, hi)) \in 0 .. n
  BY <1>2, <1>4 DEF m
<1>6. Slice(s, after, n) = SubSeq(s, m, hi)
  BY DEF Slice, m, hi
<1> QED
  BY <1>4, <1>5, <1>6

LEMMA ReservedType ==
  ASSUME NEW s \in ScanRecord
  PROVE  Reserved(s) \in Nat
  BY DEF Reserved, ScanRecord

\* A page asked for is within what is left for all, and within the limit of its queue.
LEMMA AskedWithin ==
  ASSUME NEW s \in ScanRecord, NEW budget \in Nat, s.read <= Limit
  PROVE  LET n == Asked(s, budget)
         IN  /\ n \in ScanRecord /\ n.read = s.read /\ n.status = s.status
             /\ Reserved(n) <= budget /\ n.read + Reserved(n) <= Limit
<1> DEFINE size == PageSize(s, budget)
           t1 == [s EXCEPT !.pc = "reads"]
           t == [t1 EXCEPT !.size = size]
           u == [s EXCEPT !.pc = "done", !.partial = TRUE]
<1>1. size \in Int /\ size <= budget /\ size <= Limit - s.read
  BY LimitsType DEF PageSize, Least, ScanRecord
<1>2. CASE size <= 0
  <2>1. Asked(s, budget) = u
    BY <1>2 DEF Asked, Stopped
  <2>2. u \in ScanRecord /\ u.read = s.read /\ u.status = s.status /\ u.pc = "done"
    BY DEF ScanRecord
  <2>3. Reserved(u) = 0
    BY <2>2 DEF Reserved
  <2> HIDE DEF u
  <2>4. u.read + Reserved(u) <= Limit
    BY <2>2, <2>3, LimitsType DEF ScanRecord
  <2> QED
    BY <2>1, <2>2, <2>3, <2>4
<1>3. CASE size > 0
  <2> HIDE DEF size
  <2>1. Asked(s, budget) = t
    BY <1>1, <1>3 DEF Asked, ScanRecord, size
  <2>0. /\ t1 \in ScanRecord /\ t1.read = s.read /\ t1.status = s.status
        /\ t1.pc = "reads" /\ size \in Nat
    BY <1>1, <1>3 DEF ScanRecord
  <2> HIDE DEF t1
  <2>2. /\ t \in ScanRecord /\ t.read = s.read /\ t.status = s.status
        /\ t.pc = "reads" /\ t.size = size
    BY <2>0 DEF ScanRecord
  <2>3. Reserved(t) = size
    BY <2>2 DEF Reserved
  <2> HIDE DEF t
  <2>4. t.read + Reserved(t) <= Limit
    BY <1>1, <2>2, <2>3, LimitsType DEF ScanRecord
  <2> QED
    BY <1>1, <2>1, <2>2, <2>3, <2>4
<1> HIDE DEF size, t1, t, u
<1> QED
  BY <1>1, <1>2, <1>3

LEMMA AfterReads ==
  ASSUME NEW s \in ScanRecord, NEW page \in Seq(Job)
  PROVE  /\ After(s, page) \in ScanRecord /\ After(s, page).read = s.read + Len(page)
         /\ After(s, page).status >= s.status
<1> DEFINE read == s.read + Len(page)
           found == s.found \cup (ToSet(page) \cap OfTrace)
           s1 == [s EXCEPT !.read = read, !.found = found, !.size = 0]
           s11 == [s1 EXCEPT !.status = s1.status + 1]
           s2 == [s11 EXCEPT !.start = 0]
           start == s1.start + Page
           s3 == [s1 EXCEPT !.start = start]
<1>1. read \in Nat
  BY DEF ScanRecord
<1>2. found \subseteq Job
  BY PendingScanAssumption DEF PendingScanAssumption, ScanRecord
<1>3. After(s, page) = IF Exhausted(s, page) THEN s2 ELSE s3
  BY DEF After, ScanRecord
<1> HIDE DEF read, found
<1>4. s1 \in ScanRecord /\ s1.read = read /\ s1.status = s.status
  BY <1>1, <1>2 DEF ScanRecord
<1> HIDE DEF s1
<1>5. s.status \in Nat
  BY DEF ScanRecord
<1>6. s11 \in ScanRecord /\ s11.read = read /\ s11.status = s.status + 1
  BY <1>4 DEF ScanRecord
<1> HIDE DEF s11
<1>7. s2 \in ScanRecord /\ s2.read = read /\ s2.status >= s.status
  BY <1>5, <1>6 DEF ScanRecord
<1>8. s3 \in ScanRecord /\ s3.read = read /\ s3.status >= s.status
  <2>1. start \in Nat
    BY <1>4, LimitsType DEF ScanRecord
  <2> HIDE DEF start
  <2>2. s3 \in ScanRecord /\ s3.read = read /\ s3.status = s1.status
    BY <1>4, <2>1 DEF ScanRecord
  <2> QED
    BY <1>4, <1>5, <2>2
<1> HIDE DEF s2, s3
<1> QED
  BY <1>3, <1>7, <1>8 DEF read

-----------------------------------------------------------------------------
(* The budget *)

LEMMA QueueType ==
  /\ Len(Queue) \in Nat
  /\ \A i \in 1 .. Len(Queue) : Queue[i] \in ToSet(Queue)
  /\ \A q \in ToSet(Queue) : \E i \in 1 .. Len(Queue) : Queue[i] = q
  /\ \A i, k \in 1 .. Len(Queue) : Queue[i] = Queue[k] => i = k
<1>1. Queue \in Seq(Range(Queue)) /\ IsInjective(Queue)
  BY JobListsAssumption DEF JobListsAssumption
<1>2. Len(Queue) \in Nat /\ DOMAIN Queue = 1 .. Len(Queue)
  BY <1>1
<1> QED
  BY <1>1, <1>2 DEF ToSet, IsInjective

LEMMA TakenType ==
  ASSUME ScanTypeOK
  PROVE  /\ Taken \in [1 .. Len(Queue) -> Nat] /\ Taken \in [1 .. Len(Queue) -> Int]
         /\ SumTo(Len(Queue), Taken) \in Nat
<1>1. ASSUME NEW n \in 1 .. Len(Queue)
      PROVE  scan[Queue[n]].read + Reserved(scan[Queue[n]]) \in Nat
  <2>1. scan[Queue[n]] \in ScanRecord
    BY QueueType DEF ScanTypeOK, ScanRecord
  <2> QED
    BY <2>1, ReservedType DEF ScanRecord
<1>2. Taken \in [1 .. Len(Queue) -> Nat]
  BY <1>1 DEF Taken
<1>3. Taken \in [1 .. Len(Queue) -> Int]
  BY <1>2
<1> QED
  BY <1>2, <1>3, QueueType, SumToNat

\* A queue that goes from s to n, with as much of the budget as it takes from what is left.
LEMMA BudgetMoves ==
  ASSUME ScanTypeOK, BudgetKept, NEW q \in ToSet(Queue), NEW n \in ScanRecord,
         scan' = [scan EXCEPT ![q] = n], left' \in Nat,
         left' + n.read + Reserved(n) = left + scan[q].read + Reserved(scan[q]),
         n.read + Reserved(n) <= Limit, asked' \in 0 .. Len(Queue),
         faults' \in Nat, cut' \in BOOLEAN
  PROVE  ScanTypeOK' /\ BudgetKept'
<1> DEFINE N == Len(Queue)
           f == Taken
           g == [i \in 1 .. N |-> scan'[Queue[i]].read + Reserved(scan'[Queue[i]])]
           a == scan[q].read + Reserved(scan[q])
           b == n.read + Reserved(n)
<1>0. scan \in [ToSet(Queue) -> ScanRecord] /\ left \in Nat /\ asked \in 0 .. Len(Queue)
  BY DEF ScanTypeOK, ScanRecord
<1>1. scan' \in [ToSet(Queue) -> ScanRecord] /\ scan'[q] = n
      /\ \A p \in ToSet(Queue) : p # q => scan'[p] = scan[p]
  BY <1>0
<1>2. ScanTypeOK'
  BY <1>0, <1>1 DEF ScanTypeOK, ScanRecord
<1>3. Taken' = g
  BY DEF Taken
<1>4. f \in [1 .. N -> Nat] /\ f \in [1 .. N -> Int] /\ SumTo(N, f) \in Nat /\ N \in Nat
  BY TakenType, QueueType
<1>5. g \in [1 .. N -> Int]
  <2>1. \A i \in 1 .. N : scan'[Queue[i]] \in ScanRecord
    BY <1>1, QueueType
  <2>2. ASSUME NEW i \in 1 .. N
        PROVE  scan'[Queue[i]].read + Reserved(scan'[Queue[i]]) \in Int
    <3> DEFINE r == scan'[Queue[i]]
    <3>1. r \in ScanRecord
      BY <2>1
    <3> HIDE DEF r
    <3>2. r.read \in Nat /\ Reserved(r) \in Nat
      BY <3>1, ReservedType DEF ScanRecord
    <3> QED
      BY <3>2 DEF r
  <2> QED
    BY <2>2
<1>6. PICK k \in 1 .. N : Queue[k] = q
  BY QueueType
<1>7. \A i \in 1 .. N : i # k => g[i] = f[i]
  BY <1>1, <1>6, QueueType DEF Taken
<1>8. g[k] = b /\ f[k] = a
  BY <1>1, <1>6 DEF Taken
<1>9. a \in Nat /\ b \in Nat /\ left' + b = left + a
  <2>1. scan[q] \in ScanRecord
    BY <1>0
  <2>2. scan[q].read \in Nat /\ n.read \in Nat
    BY <2>1 DEF ScanRecord
  <2>3. Reserved(scan[q]) \in Nat /\ Reserved(n) \in Nat
    BY <2>1, ReservedType
  <2> DEFINE r == scan[q].read
             t == Reserved(scan[q])
             u == n.read
             v == Reserved(n)
             l == left'
  <2>4. r \in Nat /\ t \in Nat /\ u \in Nat /\ v \in Nat /\ l \in Nat /\ l + u + v = left + r + t
    BY <2>2, <2>3
  <2> HIDE DEF r, t, u, v, l
  <2>5. r + t \in Nat /\ u + v \in Nat /\ l + (u + v) = left + (r + t)
    BY <1>0, <2>4
  <2> QED
    BY <2>5 DEF r, t, u, v, l
<1>11. left + SumTo(N, f) = Total
  BY DEF BudgetKept
<1> HIDE DEF N, f, g, a, b
<1>12. SumTo(N, g) = SumTo(N, f) + g[k] - f[k]
  BY <1>4, <1>5, <1>7, SumToChange
<1>13. left' + SumTo(N, g) = Total
  <2> DEFINE x == SumTo(N, f)
             y == SumTo(N, g)
             l == left'
  <2>1. x \in Nat /\ l \in Nat /\ y = x + b - a /\ left + x = Total
    BY <1>4, <1>8, <1>11, <1>12
  <2> HIDE DEF x, y, l
  <2>2. l + b = left + a
    BY <1>9 DEF l
  <2>3. l + y = Total
    BY <1>0, <1>9, <2>1, <2>2
  <2> QED
    BY <2>3 DEF y, l
<1>14. ASSUME NEW p \in ToSet(Queue)
       PROVE  scan'[p].read + Reserved(scan'[p]) <= Limit
  BY <1>1 DEF BudgetKept
<1> QED
  BY <1>2, <1>3, <1>13, <1>14 DEF BudgetKept, N

-----------------------------------------------------------------------------
(* The invariant and the steps *)

\* The queues that have not asked yet hold nothing of the budget.
NotBegun == \A i \in 1 .. Len(Queue) : i > asked => scan[Queue[i]] = Fresh

\* A queue that reads is at one of the statuses.
AtStatus ==
  \A q \in ToSet(Queue) :
    scan[q].status >= 1 /\ (scan[q].pc = "reads" => scan[q].status <= Len(Status))

ScanInv == ListsType /\ ScanTypeOK /\ NotBegun /\ AtStatus /\ BudgetKept

LEMMA StatusType ==
  /\ Len(Status) \in Nat /\ Len(Status) >= 1
  /\ \A i \in 1 .. Len(Status) : Status[i] \in ToSet(Status)
<1>1. Status \in Seq(Range(Status)) /\ Status # <<>>
  BY JobListsAssumption DEF JobListsAssumption
<1>2. Len(Status) \in Nat /\ Len(Status) # 0 /\ DOMAIN Status = 1 .. Len(Status)
  BY <1>1, EmptySeq
<1> QED
  BY <1>2 DEF ToSet

LEMMA FreshType ==
  /\ Fresh \in ScanRecord /\ Fresh.read = 0 /\ Fresh.status = 1 /\ Fresh.pc = "idle"
  /\ Reserved(Fresh) = 0
  BY DEF Fresh, ScanRecord, Reserved

LEMMA InitInv == Init => ScanInv
<1> SUFFICES ASSUME Init PROVE ScanInv
  OBVIOUS
<1>1. ListsType
  <2>1. Arrangements \subseteq [ToSet(Queue) -> [ToSet(Status) -> Seq(Job)]] /\ MaxMoves \in Nat
    BY JobListsAssumption DEF JobListsAssumption
  <2> QED
    BY <2>1 DEF Init, ListsInit, ListsType
<1>2. /\ asked = 0 /\ left = Total /\ cut = FALSE /\ faults = MaxFaults
      /\ scan = [q \in ToSet(Queue) |-> Fresh]
  BY DEF Init, ScanInit
<1>3. scan \in [ToSet(Queue) -> ScanRecord] /\ \A q \in ToSet(Queue) : scan[q] = Fresh
  BY <1>2, FreshType
<1>4. ScanTypeOK
  <2>1. MaxFaults \in Nat /\ 0 \in 0 .. Len(Queue)
    BY PendingScanAssumption, QueueType DEF PendingScanAssumption
  <2> QED
    BY <1>2, <1>3, <2>1, LimitsType DEF ScanTypeOK, ScanRecord
<1>5. NotBegun
  BY <1>3, QueueType DEF NotBegun
<1>6. SumTo(Len(Queue), Taken) = 0
  <2>1. \A i \in 1 .. Len(Queue) : Taken[i] = 0
    BY <1>3, QueueType, FreshType DEF Taken
  <2> QED
    BY <1>4, <2>1, TakenType, QueueType, SumToZero
<1>7. BudgetKept
  BY <1>2, <1>3, <1>6, FreshType, LimitsType DEF BudgetKept
<1>8. AtStatus
  BY <1>3, FreshType DEF AtStatus
<1> QED
  BY <1>1, <1>4, <1>5, <1>7, <1>8 DEF ScanInv

LEMMA ScanOf ==
  ASSUME ScanInv, NEW q \in ToSet(Queue)
  PROVE  /\ scan[q] \in ScanRecord /\ scan[q].read + Reserved(scan[q]) <= Limit
         /\ left \in Nat /\ asked \in 0 .. Len(Queue) /\ faults \in Nat /\ cut \in BOOLEAN
  BY DEF ScanInv, ScanTypeOK, ScanRecord, BudgetKept

LEMMA BeginKeeps ==
  ASSUME ScanInv, Begin, UNCHANGED listVars
  PROVE  ScanInv'
<1> DEFINE q == Queue[asked + 1]
           n == Asked(Fresh, left)
<1>1. asked + 1 \in 1 .. Len(Queue) /\ left \in Nat /\ asked \in Nat
  BY QueueType DEF ScanInv, ScanTypeOK, Begin, AllAsked
<1>2. q \in ToSet(Queue) /\ scan[q] = Fresh
  BY <1>1, QueueType DEF ScanInv, NotBegun
<1>3. /\ n \in ScanRecord /\ n.read = 0 /\ n.status = 1
      /\ Reserved(n) <= left /\ n.read + Reserved(n) <= Limit
  BY <1>1, FreshType, AskedWithin, LimitsType
<1>4. Reserved(n) \in Nat
  BY <1>3, ReservedType
<1>5. /\ asked' = asked + 1 /\ scan' = [scan EXCEPT ![q] = n] /\ left' = left - Reserved(n)
      /\ cut' \in BOOLEAN /\ faults' = faults
  BY DEF Begin
<1> HIDE DEF n
<1>6. left' \in Nat /\ left' + n.read + Reserved(n) = left + scan[q].read + Reserved(scan[q])
  BY <1>1, <1>2, <1>3, <1>4, <1>5, FreshType
<1>7. asked' \in 0 .. Len(Queue) /\ faults' \in Nat
  BY <1>1, <1>2, <1>5, ScanOf, QueueType
<1> HIDE DEF q
<1>8. ScanTypeOK' /\ BudgetKept'
  BY <1>2, <1>3, <1>5, <1>6, <1>7, BudgetMoves DEF ScanInv
<1>9. NotBegun'
  <2> SUFFICES ASSUME NEW i \in 1 .. Len(Queue), i > asked + 1 PROVE scan'[Queue[i]] = Fresh
    BY <1>5 DEF NotBegun
  <2>1. Queue[i] # q /\ Queue[i] \in ToSet(Queue)
    BY <1>1, QueueType DEF q
  <2>2. scan[Queue[i]] = Fresh
    BY <1>1 DEF ScanInv, NotBegun
  <2> QED
    BY <1>5, <2>1, <2>2 DEF ScanInv, ScanTypeOK
<1>10. ListsType'
  BY DEF ScanInv, ListsType, listVars
<1>11. AtStatus'
  BY <1>2, <1>3, <1>5, StatusType DEF ScanInv, ScanTypeOK, AtStatus
<1> QED
  BY <1>8, <1>9, <1>10, <1>11 DEF ScanInv

LEMMA AnswerKeeps ==
  ASSUME ScanInv, NEW q \in ToSet(Queue), AllAsked, scan[q].pc = "reads",
         NEW page \in Seq(Job), Len(page) <= scan[q].size, Answer(q, page),
         UNCHANGED listVars, UNCHANGED asked, faults' \in Nat
  PROVE  ScanInv'
<1> DEFINE s == scan[q]
           a == After(s, page)
           len == Len(page)
           budget == left + GivenBack(s, page)
           n == IF a.status > Len(Status) THEN [a EXCEPT !.pc = "done"] ELSE Asked(a, budget)
<1>1. /\ s \in ScanRecord /\ s.read + Reserved(s) <= Limit /\ left \in Nat
      /\ asked \in 0 .. Len(Queue)
  BY ScanOf
<1>2. Reserved(s) = s.size /\ s.size \in Nat /\ s.read \in Nat /\ len \in Nat /\ len <= s.size
  BY <1>1 DEF Reserved, ScanRecord
<1>3. a \in ScanRecord /\ a.read = s.read + len /\ a.status >= 1
  <2>1. a \in ScanRecord /\ a.read = s.read + len /\ a.status >= s.status
    BY <1>1, AfterReads
  <2>2. s.status >= 1 /\ s.status \in Nat /\ a.status \in Nat
    BY <1>1, <2>1 DEF ScanInv, AtStatus, ScanRecord
  <2> QED
    BY <2>1, <2>2
<1>4. budget = left + s.size - len /\ budget \in Nat
  BY <1>1, <1>2 DEF GivenBack
<1>5. a.read <= Limit
  BY <1>1, <1>2, <1>3, LimitsType
<1>6. /\ scan' = [scan EXCEPT ![q] = n] /\ left' = budget - Reserved(n) /\ cut' \in BOOLEAN
  <2>1. cut \in BOOLEAN
    BY ScanOf
  <2> QED
    BY <2>1 DEF Answer
<1> HIDE DEF s, a, len, budget
<1>7. /\ n \in ScanRecord /\ n.read = a.read /\ n.status = a.status
      /\ n.pc = "reads" => n.status <= Len(Status)
      /\ Reserved(n) <= budget /\ n.read + Reserved(n) <= Limit
  <2>1. CASE a.status > Len(Status)
    <3> DEFINE d == [a EXCEPT !.pc = "done"]
    <3>1. d \in ScanRecord /\ d.read = a.read /\ d.status = a.status /\ d.pc = "done"
      BY <1>3 DEF ScanRecord
    <3> HIDE DEF d
    <3>2. Reserved(d) = 0 /\ d.read \in Nat
      BY <3>1 DEF Reserved, ScanRecord
    <3>3. d.read + Reserved(d) <= Limit
      BY <1>5, <3>1, <3>2
    <3>4. n = d
      BY <2>1 DEF d
    <3> QED
      BY <1>4, <3>1, <3>2, <3>3, <3>4
  <2>2. CASE ~(a.status > Len(Status))
    <3> DEFINE d == Asked(a, budget)
    <3>1. /\ d \in ScanRecord /\ d.read = a.read /\ d.status = a.status
          /\ Reserved(d) <= budget /\ d.read + Reserved(d) <= Limit
      BY <1>3, <1>4, <1>5, AskedWithin
    <3>2. n = d
      BY <2>2
    <3>3. a.status <= Len(Status)
      BY <1>3, <2>2, StatusType DEF ScanRecord
    <3> HIDE DEF d
    <3> QED
      BY <3>1, <3>2, <3>3
  <2> QED
    BY <2>1, <2>2
<1>8. Reserved(n) \in Nat
  BY <1>7, ReservedType
<1> HIDE DEF n
<1>9. left' \in Nat /\ left' + n.read + Reserved(n) = left + s.read + Reserved(s)
  <2> DEFINE r == Reserved(n)
             l == left'
  <2>1. r \in Nat /\ r <= budget /\ l = budget - r /\ n.read = s.read + len
    BY <1>3, <1>6, <1>7, <1>8
  <2> HIDE DEF r, l
  <2> DEFINE x == s.read
             y == s.size
  <2>2. x \in Nat /\ y \in Nat /\ budget = left + y - len /\ n.read = x + len /\ Reserved(s) = y
    BY <1>2, <1>4, <2>1
  <2> HIDE DEF x, y
  <2>3. l \in Nat /\ l + (x + len) + r = left + x + y
    BY <1>1, <1>2, <1>4, <2>1, <2>2
  <2> QED
    BY <2>2, <2>3 DEF r, l, x
<1>10. ScanTypeOK' /\ BudgetKept'
  BY <1>1, <1>6, <1>7, <1>9, BudgetMoves DEF ScanInv, s
<1>11. NotBegun'
  BY <1>1, QueueType DEF NotBegun, AllAsked
<1>12. ListsType'
  BY DEF ScanInv, ListsType, listVars
<1>13. AtStatus'
  BY <1>3, <1>6, <1>7 DEF ScanInv, ScanTypeOK, AtStatus
<1> QED
  BY <1>10, <1>11, <1>12, <1>13 DEF ScanInv

LEMMA ScanningKeeps ==
  ASSUME ScanInv, Scanning
  PROVE  ScanInv'
<1>1. CASE Begin
  BY <1>1, BeginKeeps DEF Scanning
<1>2. ASSUME NEW q \in ToSet(Queue), ReadPage(q)
      PROVE  ScanInv'
  <2> DEFINE page == Slice(lists[q][Status[scan[q].status]], scan[q].start, scan[q].size)
  <2>1. AllAsked /\ scan[q].pc = "reads" /\ Answer(q, page) /\ UNCHANGED <<asked, faults>>
    BY <1>2 DEF ReadPage
  <2>2. lists[q][Status[scan[q].status]] \in Seq(Job)
    <3>1. scan[q].status \in 1 .. Len(Status)
      BY <2>1, ScanOf, StatusType DEF ScanInv, AtStatus, ScanRecord
    <3>2. Status[scan[q].status] \in ToSet(Status)
      BY <3>1, StatusType
    <3> QED
      BY <3>2, ListsOfQueue DEF ScanInv
  <2>3. scan[q].start \in Nat /\ scan[q].size \in Nat /\ faults \in Nat
    BY ScanOf DEF ScanRecord
  <2>4. page \in Seq(Job) /\ Len(page) <= scan[q].size
    BY <2>2, <2>3, SliceType
  <2> HIDE DEF page
  <2> QED
    BY <2>1, <2>3, <2>4, AnswerKeeps DEF Scanning
<1>3. ASSUME NEW q \in ToSet(Queue), ReadFails(q)
      PROVE  ScanInv'
  <2> DEFINE page == <<>>
  <2>1. /\ AllAsked /\ scan[q].pc = "reads" /\ Answer(q, page) /\ UNCHANGED asked
        /\ faults' = faults - 1 /\ faults > 0
    BY <1>3 DEF ReadFails
  <2>2. scan[q].size \in Nat /\ faults \in Nat
    BY ScanOf DEF ScanRecord
  <2>3. page \in Seq(Job) /\ Len(page) <= scan[q].size
    BY <2>2
  <2>4. faults' \in Nat
    BY <2>1, <2>2
  <2> HIDE DEF page
  <2> QED
    BY <2>1, <2>3, <2>4, AnswerKeeps DEF Scanning
<1> QED
  BY <1>1, <1>2, <1>3 DEF Scanning, ScanNext

-----------------------------------------------------------------------------
(* The lists *)

\* A list without one of its jobs.
LEMMA Removed ==
  ASSUME NEW s \in Seq(Job), NEW i \in DOMAIN s
  PROVE  LET r == RemoveAt(s, i)
         IN  /\ r \in Seq(Job) /\ Len(r) = Len(s) - 1
             /\ \A k \in 1 .. Len(r) : r[k] = IF k < i THEN s[k] ELSE s[k + 1]
<1> DEFINE n == Len(s)
           x == SubSeq(s, 1, i - 1)
           y == SubSeq(s, i + 1, n)
           r == x \o y
<1>1. n \in Nat /\ i \in 1 .. n /\ \A k \in 1 .. n : s[k] \in Job
  OBVIOUS
<1>2. x \in Seq(Job) /\ Len(x) = i - 1 /\ \A k \in 1 .. i - 1 : x[k] = s[k]
  <2>1. 1 \in Int /\ i - 1 \in Int /\ \A k \in 1 .. i - 1 : s[k] \in Job
    BY <1>1
  <2>2. /\ x \in Seq(Job) /\ Len(x) = IF 1 <= i - 1 THEN (i - 1) - 1 + 1 ELSE 0
        /\ \A k \in 1 .. ((i - 1) - 1 + 1) : x[k] = s[1 + k - 1]
    BY <2>1, SubSeqProperties
  <2>3. ASSUME NEW k \in 1 .. i - 1 PROVE x[k] = s[k]
    <3>1. k \in 1 .. ((i - 1) - 1 + 1) /\ 1 + k - 1 = k
      BY <1>1
    <3> QED
      BY <2>2, <3>1
  <2>4. Len(x) = i - 1
    BY <1>1, <2>2
  <2> QED
    BY <2>2, <2>3, <2>4
<1>3. y \in Seq(Job) /\ Len(y) = n - i /\ \A k \in 1 .. n - i : y[k] = s[k + i]
  <2>1. i + 1 \in Int /\ n \in Int /\ \A k \in i + 1 .. n : s[k] \in Job
    BY <1>1
  <2>2. /\ y \in Seq(Job) /\ Len(y) = IF i + 1 <= n THEN n - (i + 1) + 1 ELSE 0
        /\ \A k \in 1 .. (n - (i + 1) + 1) : y[k] = s[(i + 1) + k - 1]
    BY <2>1, SubSeqProperties
  <2>3. ASSUME NEW k \in 1 .. n - i PROVE y[k] = s[k + i]
    <3>1. k \in 1 .. (n - (i + 1) + 1) /\ (i + 1) + k - 1 = k + i
      BY <1>1
    <3> QED
      BY <2>2, <3>1
  <2>4. Len(y) = n - i
    BY <1>1, <2>2
  <2> QED
    BY <2>2, <2>3, <2>4
<1>4. RemoveAt(s, i) = r
  BY DEF RemoveAt
<1> HIDE DEF x, y
<1>5. r \in Seq(Job) /\ Len(r) = (i - 1) + (n - i)
      /\ \A k \in 1 .. (i - 1) + (n - i) : r[k] = IF k <= i - 1 THEN x[k] ELSE y[k - (i - 1)]
  <2>1. x \in Seq(Job) /\ y \in Seq(Job)
    BY <1>2, <1>3
  <2>2. r \in Seq(Job) /\ Len(r) = Len(x) + Len(y)
        /\ \A k \in 1 .. Len(x) + Len(y) : r[k] = IF k <= Len(x) THEN x[k] ELSE y[k - Len(x)]
    BY <2>1, ConcatProperties
  <2> HIDE DEF r
  <2>3. Len(x) = i - 1 /\ Len(y) = n - i
    BY <1>2, <1>3
  <2> QED
    BY <2>2, <2>3
<1> HIDE DEF r, n
<1>6. Len(r) = n - 1
  BY <1>1, <1>5
<1>7. ASSUME NEW k \in 1 .. n - 1
      PROVE  r[k] = IF k < i THEN s[k] ELSE s[k + 1]
  <2>1. k \in 1 .. (i - 1) + (n - i)
    BY <1>1
  <2>2. CASE k < i
    <3>1. k <= i - 1 /\ k \in 1 .. i - 1
      BY <1>1, <2>2
    <3> QED
      BY <1>2, <1>5, <2>1, <2>2, <3>1
  <2>3. CASE ~(k < i)
    <3>1. ~(k <= i - 1) /\ k - (i - 1) \in 1 .. n - i /\ (k - (i - 1)) + i = k + 1
      BY <1>1, <2>3
    <3>2. y[k - (i - 1)] = s[k + 1]
      BY <1>3, <3>1
    <3> QED
      BY <1>5, <2>1, <2>3, <3>1, <3>2
  <2> QED
    BY <2>2, <2>3
<1> QED
  BY <1>4, <1>5, <1>6, <1>7 DEF n

\* A list with a job before the others.
LEMMA Prepended ==
  ASSUME NEW s \in Seq(Job), NEW job \in Job
  PROVE  LET r == <<job>> \o s
         IN  /\ r \in Seq(Job) /\ Len(r) = Len(s) + 1 /\ r[1] = job
             /\ \A k \in 2 .. Len(s) + 1 : r[k] = s[k - 1]
<1> DEFINE one == <<job>>
           r == one \o s
<1>1. one \in Seq(Job) /\ Len(one) = 1 /\ one[1] = job /\ Len(s) \in Nat
  OBVIOUS
<1> HIDE DEF one
<1>2. r \in Seq(Job) /\ Len(r) = 1 + Len(s)
      /\ \A k \in 1 .. 1 + Len(s) : r[k] = IF k <= 1 THEN one[k] ELSE s[k - 1]
  <2>1. r \in Seq(Job) /\ Len(r) = Len(one) + Len(s)
        /\ \A k \in 1 .. Len(one) + Len(s) :
             r[k] = IF k <= Len(one) THEN one[k] ELSE s[k - Len(one)]
    BY <1>1, ConcatProperties
  <2> HIDE DEF r
  <2> QED
    BY <1>1, <2>1
<1> HIDE DEF r
<1>3. Len(r) = Len(s) + 1 /\ r[1] = job
  BY <1>1, <1>2
<1>4. ASSUME NEW k \in 2 .. Len(s) + 1 PROVE r[k] = s[k - 1]
  BY <1>1, <1>2
<1> QED
  BY <1>2, <1>3, <1>4 DEF r, one

ByStatus == [ToSet(Status) -> Seq(Job)]

\* The jobs of a queue stay in one place each when one is taken out, which is in none then;
LEMMA RemovedOnce ==
  ASSUME NEW b \in ByStatus, Once(b), NEW s \in ToSet(Status), NEW i \in DOMAIN b[s]
  PROVE  LET rest == [b EXCEPT ![s] = RemoveAt(b[s], i)]
         IN  /\ rest \in ByStatus /\ Once(rest)
             /\ \A t \in ToSet(Status) : \A k \in DOMAIN rest[t] : rest[t][k] # b[s][i]
<1> DEFINE list == b[s]
           less == RemoveAt(list, i)
           rest == [b EXCEPT ![s] = less]
           At(t, k) == IF t = s /\ k >= i THEN k + 1 ELSE k
<1>1. list \in Seq(Job) /\ Len(list) \in Nat /\ i \in 1 .. Len(list)
  BY DEF ByStatus
<1>2. /\ less \in Seq(Job) /\ Len(less) = Len(list) - 1
      /\ \A k \in 1 .. Len(less) : less[k] = IF k < i THEN list[k] ELSE list[k + 1]
  BY <1>1, Removed
<1> HIDE DEF less
<1>3. rest \in ByStatus /\ rest[s] = less /\ \A t \in ToSet(Status) : t # s => rest[t] = b[t]
  BY <1>2 DEF ByStatus
<1> HIDE DEF rest
<1>4. ASSUME NEW t \in ToSet(Status), NEW k \in DOMAIN rest[t]
      PROVE  /\ k \in Nat /\ At(t, k) \in DOMAIN b[t] /\ rest[t][k] = b[t][At(t, k)]
             /\ t = s => At(t, k) # i
  <2>1. CASE t = s
    <3>1. k \in 1 .. Len(less) /\ k \in Nat
      BY <1>2, <1>3, <1>4, <2>1
    <3>2. At(t, k) = IF k < i THEN k ELSE k + 1
      BY <1>1, <2>1, <3>1
    <3>3. At(t, k) \in 1 .. Len(list) /\ At(t, k) # i
      BY <1>1, <1>2, <3>1, <3>2
    <3>4. rest[t][k] = b[t][At(t, k)]
      BY <1>2, <1>3, <2>1, <3>1, <3>2
    <3>5. DOMAIN b[t] = 1 .. Len(list)
      BY <1>1, <2>1
    <3> HIDE DEF At, list
    <3> QED
      BY <3>1, <3>3, <3>4, <3>5
  <2>2. CASE t # s
    <3>1. b[t] \in Seq(Job)
      BY DEF ByStatus
    <3>2. At(t, k) = k /\ rest[t] = b[t] /\ k \in Nat
      BY <1>3, <2>2, <3>1
    <3> QED
      BY <2>2, <3>2
  <2> QED
    BY <2>1, <2>2
<1>5. Once(rest)
  <2> SUFFICES ASSUME NEW t \in ToSet(Status), NEW u \in ToSet(Status),
                      NEW k \in DOMAIN rest[t], NEW m \in DOMAIN rest[u], rest[t][k] = rest[u][m]
               PROVE  t = u /\ k = m
    BY DEF Once
  <2>1. b[t][At(t, k)] = b[u][At(u, m)]
    BY <1>4
  <2>2. t = u /\ At(t, k) = At(u, m)
    <3>1. At(t, k) \in DOMAIN b[t] /\ At(u, m) \in DOMAIN b[u]
      BY <1>4
    <3> HIDE DEF At
    <3> QED
      BY <2>1, <3>1 DEF Once
  <2>3. k \in Nat /\ m \in Nat
    BY <1>4
  <2> QED
    BY <1>1, <2>2, <2>3
<1>6. ASSUME NEW t \in ToSet(Status), NEW k \in DOMAIN rest[t], rest[t][k] = list[i]
      PROVE  FALSE
  <2>1. /\ At(t, k) \in DOMAIN b[t] /\ rest[t][k] = b[t][At(t, k)]
        /\ t = s => At(t, k) # i
    BY <1>4
  <2> HIDE DEF At
  <2>2. t = s /\ At(t, k) = i
    <3>1. b[t][At(t, k)] = b[s][i]
      BY <1>6, <2>1
    <3>2. \A n \in DOMAIN b[t], m \in DOMAIN b[s] : b[t][n] = b[s][m] => t = s /\ n = m
      BY DEF Once
    <3> HIDE DEF list
    <3> QED
      BY <2>1, <3>1, <3>2
  <2> QED
    BY <2>1, <2>2
<1> QED
  BY <1>3, <1>5, <1>6 DEF rest, less

\* and when one that is in none is put before the others of a status.
LEMMA PrependedOnce ==
  ASSUME NEW b \in ByStatus, Once(b), NEW to \in ToSet(Status), NEW job \in Job,
         \A t \in ToSet(Status) : \A k \in DOMAIN b[t] : b[t][k] # job
  PROVE  LET full == [b EXCEPT ![to] = <<job>> \o b[to]]
         IN  full \in ByStatus /\ Once(full)
<1> DEFINE list == b[to]
           more == <<job>> \o list
           full == [b EXCEPT ![to] = more]
<1>1. list \in Seq(Job) /\ Len(list) \in Nat /\ DOMAIN list = 1 .. Len(list)
  BY DEF ByStatus
<1>2. /\ more \in Seq(Job) /\ Len(more) = Len(list) + 1 /\ more[1] = job
      /\ \A k \in 2 .. Len(list) + 1 : more[k] = list[k - 1]
  BY <1>1, Prepended
<1> HIDE DEF more
<1>3. full \in ByStatus /\ full[to] = more /\ \A t \in ToSet(Status) : t # to => full[t] = b[t]
  BY <1>2 DEF ByStatus
<1> HIDE DEF full
<1>4. ASSUME NEW t \in ToSet(Status), NEW k \in DOMAIN full[t]
      PROVE  /\ k \in Nat
             /\ \/ t = to /\ k = 1 /\ full[t][k] = job
                \/ t = to /\ k # 1 /\ k - 1 \in DOMAIN b[t] /\ full[t][k] = b[t][k - 1]
                \/ t # to /\ k \in DOMAIN b[t] /\ full[t][k] = b[t][k]
  <2>1. CASE t = to
    <3>1. k \in 1 .. Len(list) + 1
      BY <1>2, <1>3, <1>4, <2>1
    <3>2. CASE k = 1
      BY <1>2, <1>3, <2>1, <3>2
    <3>3. CASE k # 1
      <4>1. k \in 2 .. Len(list) + 1 /\ k - 1 \in 1 .. Len(list) /\ k \in Nat
        BY <1>1, <3>1, <3>3
      <4>2. k - 1 \in DOMAIN b[t]
        BY <1>1, <2>1, <4>1
      <4>3. full[t][k] = b[t][k - 1]
        BY <1>2, <1>3, <2>1, <4>1
      <4> QED
        BY <2>1, <3>3, <4>1, <4>2, <4>3
    <3> QED
      BY <3>2, <3>3
  <2>2. CASE t # to
    <3>1. b[t] \in Seq(Job)
      BY DEF ByStatus
    <3>2. full[t] = b[t] /\ k \in Nat
      BY <1>3, <2>2, <3>1
    <3> QED
      BY <2>2, <3>2
  <2> QED
    BY <2>1, <2>2
<1>5. Once(full)
  <2> SUFFICES ASSUME NEW t \in ToSet(Status), NEW u \in ToSet(Status),
                      NEW k \in DOMAIN full[t], NEW m \in DOMAIN full[u], full[t][k] = full[u][m]
               PROVE  t = u /\ k = m
    BY DEF Once
  <2> DEFINE first(v, j) == v = to /\ j = 1
             at(v, j) == IF v = to THEN j - 1 ELSE j
  <2>1. ASSUME NEW v \in ToSet(Status), NEW j \in DOMAIN full[v]
        PROVE  /\ j \in Nat
               /\ IF first(v, j) THEN full[v][j] = job
                  ELSE at(v, j) \in DOMAIN b[v] /\ full[v][j] = b[v][at(v, j)]
    <3>1. CASE v = to
      BY <1>4, <2>1, <3>1
    <3>2. CASE v # to
      BY <1>4, <2>1, <3>2
    <3> QED
      BY <3>1, <3>2
  <2> HIDE DEF first, at
  <2>2. first(t, k) <=> first(u, m)
    <3>1. ASSUME first(t, k), ~first(u, m) PROVE FALSE
      BY <2>1, <3>1
    <3>2. ASSUME first(u, m), ~first(t, k) PROVE FALSE
      BY <2>1, <3>2
    <3> QED
      BY <3>1, <3>2
  <2>3. CASE first(t, k)
    BY <2>2, <2>3 DEF first
  <2>4. CASE ~first(t, k)
    <3>1. /\ at(t, k) \in DOMAIN b[t] /\ at(u, m) \in DOMAIN b[u]
          /\ b[t][at(t, k)] = b[u][at(u, m)] /\ k \in Nat /\ m \in Nat
      BY <2>1, <2>2, <2>4
    <3>2. t = u /\ at(t, k) = at(u, m)
      BY <3>1 DEF Once
    <3> QED
      BY <3>1, <3>2 DEF at
  <2> QED
    BY <2>3, <2>4
<1> QED
  BY <1>3, <1>5 DEF full, more

\* A queue has a job in one place at most.
ListsOnce == \A q \in ToSet(Queue) : Once(lists[q])

LEMMA Moved ==
  ASSUME ListsType, ListsOnce, NEW q \in ToSet(Queue), NEW s \in ToSet(Status),
         NEW i \in DOMAIN lists[q][s], NEW to, Move(q, s, i, to)
  PROVE  /\ ListsType' /\ ListsOnce' /\ gone \subseteq gone'
         /\ moves' = moves - 1 /\ moves > 0
<1> DEFINE list == lists[q][s]
           job == list[i]
           less == RemoveAt(list, i)
           rest == [lists[q] EXCEPT ![s] = less]
           more == <<job>> \o rest[to]
           full == [rest EXCEPT ![to] = more]
<1>0. lists \in [ToSet(Queue) -> ByStatus] /\ gone \subseteq Job /\ moves \in Nat
  BY DEF ListsType, ByStatus
<1>1. list \in Seq(Job) /\ lists[q] \in ByStatus /\ Once(lists[q])
  BY <1>0, ListsOfQueue DEF ListsOnce
<1>2. job \in Job
  BY <1>1
<1>3. /\ rest \in ByStatus /\ Once(rest)
      /\ \A t \in ToSet(Status) : \A k \in DOMAIN rest[t] : rest[t][k] # job
  BY <1>1, RemovedOnce
<1>4. rest = [lists[q] EXCEPT ![s] = RemoveAt(@, i)]
  BY <1>1 DEF ByStatus
<1>5. \/ to \in ToSet(Status) /\ lists' = [lists EXCEPT ![q] = full] /\ gone' = gone
      \/ lists' = [lists EXCEPT ![q] = rest] /\ gone' = gone \cup {job}
  BY <1>4 DEF Move
<1>6. moves' = moves - 1 /\ moves > 0
  BY DEF Move
<1> HIDE DEF list, job, rest
<1>7. ASSUME to \in ToSet(Status)
      PROVE  full \in ByStatus /\ Once(full)
  BY <1>2, <1>3, <1>7, PrependedOnce
<1> HIDE DEF full
<1>8. \E b \in ByStatus : Once(b) /\ lists' = [lists EXCEPT ![q] = b]
  BY <1>3, <1>5, <1>7
<1>9. PICK b \in ByStatus : Once(b) /\ lists' = [lists EXCEPT ![q] = b]
  BY <1>8
<1>10. /\ lists' \in [ToSet(Queue) -> ByStatus] /\ lists'[q] = b
       /\ \A p \in ToSet(Queue) : p # q => lists'[p] = lists[p]
  BY <1>0, <1>9
<1>11. ListsOnce'
  <2>1. ASSUME NEW p \in ToSet(Queue) PROVE Once(lists'[p])
    BY <1>9, <1>10 DEF ListsOnce
  <2> QED
    BY <2>1 DEF ListsOnce
<1>12. gone' \subseteq Job /\ gone \subseteq gone'
  BY <1>0, <1>2, <1>5
<1>13. ListsType'
  BY <1>0, <1>6, <1>10, <1>12 DEF ListsType, ByStatus
<1> QED
  BY <1>6, <1>11, <1>12, <1>13

LEMMA ScanUnchanged ==
  ASSUME ScanInv, UNCHANGED scanVars, ListsType'
  PROVE  ScanInv'
<1>1. Taken' = Taken
  BY DEF Taken, scanVars
<1> QED
  BY <1>1 DEF ScanInv, ScanTypeOK, NotBegun, AtStatus, BudgetKept, scanVars

LEMMA NextInv == ScanInv /\ ListsOnce /\ [Next]_vars => ScanInv'
<1> SUFFICES ASSUME ScanInv, ListsOnce, [Next]_vars PROVE ScanInv'
  OBVIOUS
<1>1. CASE Scanning
  BY <1>1, ScanningKeeps
<1>2. CASE Searching
  <2>1. ListsType' /\ UNCHANGED scanVars
    BY <1>2 DEF Searching, ScanInv, ListsType, listVars
  <2> QED
    BY <2>1, ScanUnchanged
<1>3. CASE Changing
  <2>1. PICK q \in ToSet(Queue), s \in ToSet(Status), to \in ToSet(Status) \cup {"removed"} :
          \E i \in DOMAIN lists[q][s] : Move(q, s, i, to)
    BY <1>3 DEF Changing
  <2>2. PICK i \in DOMAIN lists[q][s] : Move(q, s, i, to)
    BY <2>1
  <2>3. ListsType'
    BY <2>2, Moved DEF ScanInv
  <2> QED
    BY <1>3, <2>3, ScanUnchanged DEF Changing
<1>4. CASE UNCHANGED vars
  <2>1. ListsType' /\ UNCHANGED scanVars
    BY <1>4 DEF vars, ScanInv, ListsType, listVars
  <2> QED
    BY <2>1, ScanUnchanged
<1> QED
  BY <1>1, <1>2, <1>3, <1>4 DEF Next

-----------------------------------------------------------------------------
(* What a slice holds *)

LEMMA ToSetIsRange == \A s : ToSet(s) = Range(s)
  BY DEF ToSet, Range

\* A slice goes on where the first ones end, and is empty at the end only.
LEMMA SliceGoesOn ==
  ASSUME NEW s \in Seq(Job), NEW after \in 0 .. Len(s), NEW n \in Nat
  PROVE  LET c == Slice(s, after, n)
         IN  /\ c \in Seq(Job) /\ Len(c) = IF after + n <= Len(s) THEN n ELSE Len(s) - after
             /\ after + Len(c) \in 0 .. Len(s)
             /\ SubSeq(s, 1, after) \o c = SubSeq(s, 1, after + Len(c))
<1> DEFINE hi == IF after + n <= Len(s) THEN after + n ELSE Len(s)
           m == after + 1
           c == SubSeq(s, m, hi)
<1>1. Len(s) \in Nat /\ after \in Nat /\ after <= Len(s)
  OBVIOUS
<1>2. hi \in after .. Len(s) /\ m \in Int /\ hi \in Int
  BY <1>1
<1>3. \A i \in m .. hi : s[i] \in Job
  BY <1>1, <1>2
<1> HIDE DEF hi
<1>4. c \in Seq(Job) /\ Len(c) = IF m <= hi THEN hi - m + 1 ELSE 0
  BY <1>2, <1>3, SubSeqProperties
<1>5. SubSeq(s, 1, after) \o c = SubSeq(s, 1, hi)
  <2>1. 1 \in 1 .. Len(s) + 1 /\ after \in (1 - 1) .. Len(s)
    BY <1>1
  <2> QED
    BY <1>2, <2>1, ConcatAdjacentSubSeq
<1> HIDE DEF c
<1>6. after + Len(c) = hi
  BY <1>1, <1>2, <1>4
<1>7. Len(c) = IF after + n <= Len(s) THEN n ELSE Len(s) - after
  BY <1>1, <1>6 DEF hi
<1>8. Slice(s, after, n) = c
  BY DEF Slice, c, hi
<1> QED
  BY <1>2, <1>4, <1>5, <1>6, <1>7, <1>8

\* The first n of a sequence.
LEMMA FirstOnes ==
  ASSUME NEW s \in Seq(Job), NEW n \in Nat
  PROVE  LET c == Slice(s, 0, n)
         IN  /\ c \in Seq(Job) /\ Len(c) = IF n <= Len(s) THEN n ELSE Len(s)
             /\ \E rest \in Seq(Job) : s = c \o rest
             /\ Len(s) <= n => c = s
<1> DEFINE c == Slice(s, 0, n)
<1>1. Len(s) \in Nat /\ 0 \in 0 .. Len(s)
  OBVIOUS
<1>2. /\ c \in Seq(Job) /\ Len(c) = IF 0 + n <= Len(s) THEN n ELSE Len(s) - 0
      /\ 0 + Len(c) \in 0 .. Len(s) /\ SubSeq(s, 1, 0) \o c = SubSeq(s, 1, 0 + Len(c))
  BY <1>1, SliceGoesOn
<1>3. SubSeq(s, 1, 0) = <<>>
  BY SubSeqEmpty
<1> HIDE DEF c
<1>4. Len(c) = (IF n <= Len(s) THEN n ELSE Len(s)) /\ Len(c) \in 0 .. Len(s) /\ 0 + Len(c) = Len(c)
  BY <1>1, <1>2
<1>5. c = SubSeq(s, 1, Len(c))
  <2>1. <<>> \o c = c
    BY <1>2, ConcatEmptySeq
  <2> QED
    BY <1>2, <1>3, <1>4, <2>1
<1>6. \E rest \in Seq(Job) : s = c \o rest
  <2> DEFINE l == Len(c)
             rest == SubSeq(s, l + 1, Len(s))
  <2>1. l \in 0 .. Len(s) /\ l + 1 \in Int /\ \A i \in l + 1 .. Len(s) : s[i] \in Job
    BY <1>1, <1>4
  <2> HIDE DEF l
  <2>2. rest \in Seq(Job)
    BY <1>1, <2>1, SubSeqProperties
  <2>3. SubSeq(s, 1, l) \o rest = SubSeq(s, 1, Len(s))
    <3>1. 1 \in 1 .. Len(s) + 1 /\ l \in (1 - 1) .. Len(s) /\ Len(s) \in l .. Len(s)
      BY <1>1, <2>1
    <3> QED
      BY <3>1, ConcatAdjacentSubSeq
  <2>4. SubSeq(s, 1, Len(s)) = s
    BY SubSeqFull
  <2> HIDE DEF rest
  <2>5. s = c \o rest
    BY <1>5, <2>3, <2>4 DEF l
  <2> QED
    BY <2>2, <2>5
<1>7. ASSUME Len(s) <= n PROVE c = s
  <2>1. Len(c) = Len(s)
    BY <1>1, <1>4, <1>7
  <2> QED
    BY <1>5, <2>1, SubSeqFull
<1> QED
  BY <1>2, <1>4, <1>6, <1>7 DEF c

\* The first n are those of a beginning that is as long.
LEMMA FirstOfConcat ==
  ASSUME NEW s \in Seq(Job), NEW t \in Seq(Job), NEW n \in Nat \ {0}, n <= Len(s)
  PROVE  Slice(s \o t, 0, n) = Slice(s, 0, n)
<1>1. /\ s \o t \in Seq(Job) /\ Len(s \o t) = Len(s) + Len(t) /\ Len(s) \in Nat /\ Len(t) \in Nat
  BY ConcatProperties
<1>2. n <= Len(s \o t) /\ n \in 1 .. Len(s) /\ 1 \in 1 .. Len(s) /\ 0 + n = n /\ 0 + 1 = 1
  BY <1>1
<1>3. Slice(s \o t, 0, n) = SubSeq(s \o t, 1, n) /\ Slice(s, 0, n) = SubSeq(s, 1, n)
  BY <1>1, <1>2 DEF Slice
<1> QED
  BY <1>2, <1>3, SubSeqOfConcat1

-----------------------------------------------------------------------------
(* The search *)

SearchRecord == [pc : {"idle", "reads", "done"}, ids : Seq(Job), cursor : Nat, acc : Seq(Job)]

\* The ids that were looked at.
Known(s) == SubSeq(s.ids, 1, s.cursor)

\* What holds of a search whatever fails.
Plain(s) ==
  /\ s \in SearchRecord /\ s.cursor <= Len(s.ids) /\ IsInjective(s.ids)
  /\ s.pc = "idle" => s = NoSearch
  /\ s.pc = "reads" => Len(s.acc) < Enough

\* What the search found, when nothing failed and the jobs of r were removed meanwhile.
Covers(s, ids, r) == Len(s.acc) < Enough => (Range(ids) \cap Matching) \ r \subseteq Range(s.acc)

Faultless(s, r) ==
  /\ IsInjective(s.acc) /\ Range(s.acc) \subseteq Range(Known(s)) \cap (Matching \cup r)
  /\ Covers(s, IF s.pc = "done" THEN s.ids ELSE Known(s), r)
  /\ r = {} => s.acc = IF s.pc = "done" THEN Slice(Exact(s.ids), 0, Enough)
                       ELSE Among(Known(s), Matching)

SearchInv ==
  /\ Plain(search) /\ errors \in 0 .. MaxErrors
  /\ errors = MaxErrors => Faultless(search, gone)

LEMMA SearchLimits ==
  Enough \in Nat \ {0} /\ ScanCount \in Nat \ {0} /\ MaxErrors \in Nat
  BY ListSearchAssumption DEF ListSearchAssumption

LEMMA KnownIs ==
  ASSUME NEW s, Plain(s)
  PROVE  /\ s.ids \in Seq(Job) /\ Len(s.ids) \in Nat /\ s.cursor \in 0 .. Len(s.ids)
         /\ Known(s) \in Seq(Job)
         /\ \E rest \in Seq(Job) : s.ids = Known(s) \o rest
<1>1. s.ids \in Seq(Job) /\ Len(s.ids) \in Nat /\ s.cursor \in 0 .. Len(s.ids)
  BY DEF Plain, SearchRecord
<1> DEFINE ids == s.ids
           n == s.cursor
           c == Slice(ids, 0, n)
<1>2. ids \in Seq(Job) /\ n \in Nat /\ n <= Len(ids)
  BY <1>1
<1>3. Known(s) = c
  <2>1. 0 + n = n /\ 0 + 1 = 1
    BY <1>2
  <2> QED
    BY <1>2, <2>1 DEF Known, Slice
<1> HIDE DEF ids, n
<1>4. c \in Seq(Job) /\ \E rest \in Seq(Job) : ids = c \o rest
  BY <1>2, FirstOnes
<1> HIDE DEF c
<1> QED
  BY <1>1, <1>3, <1>4 DEF ids

\* A chunk follows the ids that were looked at, and has none of them.
LEMMA ChunkFollows ==
  ASSUME NEW s, Plain(s)
  PROVE  LET c == Slice(s.ids, s.cursor, ScanCount)
         IN  /\ c \in Seq(Job) /\ s.cursor + Len(c) <= Len(s.ids)
             /\ SubSeq(s.ids, 1, s.cursor + Len(c)) = Known(s) \o c
             /\ \E rest \in Seq(Job) : s.ids = (Known(s) \o c) \o rest
             /\ IsInjective(c) /\ Range(Known(s)) \cap Range(c) = {}
             /\ c = <<>> => Known(s) = s.ids
<1> DEFINE ids == s.ids
           n == s.cursor
           c == Slice(ids, n, ScanCount)
           k == Known(s)
           m == n + Len(c)
<1>1. ids \in Seq(Job) /\ Len(ids) \in Nat /\ n \in 0 .. Len(ids) /\ k \in Seq(Job)
      /\ IsInjective(ids)
  BY KnownIs DEF Plain
<1>2. k = SubSeq(ids, 1, n)
  BY DEF Known
<1> HIDE DEF ids, n, k
<1>3. /\ c \in Seq(Job) /\ Len(c) = IF n + ScanCount <= Len(ids) THEN ScanCount ELSE Len(ids) - n
      /\ m \in 0 .. Len(ids)
      /\ SubSeq(ids, 1, n) \o c = SubSeq(ids, 1, m)
  BY <1>1, SearchLimits, SliceGoesOn
<1> HIDE DEF c
<1>4. k \o c = SubSeq(ids, 1, m) /\ k \o c \in Seq(Job)
  BY <1>1, <1>2, <1>3, ConcatProperties
<1>5. \E rest \in Seq(Job) : ids = (k \o c) \o rest
  <2>1. m \in Nat /\ m <= Len(ids)
    BY <1>1, <1>3
  <2> HIDE DEF m
  <2>2. Slice(ids, 0, m) = SubSeq(ids, 1, m)
    <3>1. 0 + m = m /\ 0 + 1 = 1
      BY <2>1
    <3> QED
      BY <2>1, <3>1 DEF Slice
  <2>3. \E rest \in Seq(Job) : ids = Slice(ids, 0, m) \o rest
    BY <1>1, <2>1, FirstOnes
  <2> QED
    BY <1>4, <2>2, <2>3
<1>6. IsInjective(c) /\ Range(k) \cap Range(c) = {}
  <2>1. PICK rest \in Seq(Job) : ids = (k \o c) \o rest
    BY <1>5
  <2>2. IsInjective(k \o c)
    BY <1>1, <1>4, <2>1, InjectiveConcat
  <2> QED
    BY <1>1, <1>3, <2>2, InjectiveConcat
<1>7. ASSUME c = <<>> PROVE k = ids
  <2>1. Len(c) = 0
    BY <1>7
  <2>2. n = Len(ids)
    BY <1>1, <1>3, <2>1, SearchLimits
  <2> QED
    BY <1>1, <1>2, <2>2, SubSeqFull
<1>8. m <= Len(ids)
  BY <1>1, <1>3
<1> QED
  BY <1>3, <1>4, <1>5, <1>6, <1>7, <1>8 DEF ids, n, k, c

\* The search after a chunk: at id number cursor, with what was found.
Further(s, cursor, acc) ==
  [s EXCEPT !.cursor = cursor, !.acc = acc, !.pc = IF Len(acc) >= Enough THEN "done" ELSE "reads"]

LEMMA FurtherIs ==
  ASSUME NEW s, Plain(s), NEW cursor \in 0 .. Len(s.ids), NEW acc \in Seq(Job)
  PROVE  LET n == Further(s, cursor, acc)
         IN  /\ Plain(n) /\ n.ids = s.ids /\ n.cursor = cursor /\ n.acc = acc
             /\ n.pc = IF Len(acc) < Enough THEN "reads" ELSE "done"
<1> DEFINE pc == IF Len(acc) >= Enough THEN "done" ELSE "reads"
           s1 == [s EXCEPT !.cursor = cursor]
           s2 == [s1 EXCEPT !.acc = acc]
           s3 == [s2 EXCEPT !.pc = pc]
<1>1. s \in SearchRecord /\ cursor \in Nat /\ Len(acc) \in Nat /\ Len(s.ids) \in Nat
  BY KnownIs DEF Plain
<1>2. Further(s, cursor, acc) = s3
  BY <1>1 DEF Further, SearchRecord
<1>3. pc \in {"reads", "done"} /\ pc = (IF Len(acc) < Enough THEN "reads" ELSE "done")
  BY <1>1, SearchLimits
<1> HIDE DEF pc
<1>4. s1 \in SearchRecord /\ s1.ids = s.ids /\ s1.cursor = cursor
  BY <1>1 DEF SearchRecord
<1> HIDE DEF s1
<1>5. s2 \in SearchRecord /\ s2.ids = s.ids /\ s2.cursor = cursor /\ s2.acc = acc
  BY <1>4 DEF SearchRecord
<1> HIDE DEF s2
<1>6. s3 \in SearchRecord /\ s3.ids = s.ids /\ s3.cursor = cursor /\ s3.acc = acc /\ s3.pc = pc
  BY <1>3, <1>5 DEF SearchRecord
<1> HIDE DEF s3
<1>7. Plain(s3)
  <2>1. IsInjective(s3.ids) /\ s3.cursor <= Len(s3.ids)
    BY <1>6 DEF Plain
  <2>2. s3.pc # "idle" /\ (s3.pc = "reads" => Len(s3.acc) < Enough)
    BY <1>3, <1>6
  <2> QED
    BY <1>6, <2>1, <2>2 DEF Plain
<1> QED
  BY <1>2, <1>3, <1>6, <1>7

LEMMA EndedIs ==
  ASSUME NEW s, Plain(s)
  PROVE  LET n == [s EXCEPT !.pc = "done"]
         IN  Plain(n) /\ n.ids = s.ids /\ n.cursor = s.cursor /\ n.acc = s.acc /\ n.pc = "done"
<1> DEFINE n == [s EXCEPT !.pc = "done"]
<1>1. /\ n \in SearchRecord /\ n.ids = s.ids /\ n.cursor = s.cursor /\ n.acc = s.acc
      /\ n.pc = "done"
  BY DEF Plain, SearchRecord
<1> HIDE DEF n
<1>2. Plain(n)
  BY <1>1 DEF Plain
<1> QED
  BY <1>1, <1>2 DEF n

\* The jobs that are found while those of r were removed.
MatchedBut(r) == (Matching \ r) \cup (MatchingGone \cap r)

\* The jobs of a sequence after one that covers some of them.
FoundIn(k, a, r) ==
  /\ IsInjective(a) /\ Range(a) \subseteq Range(k) \cap (Matching \cup r)
  /\ (Range(k) \cap Matching) \ r \subseteq Range(a)
  /\ r = {} => a = Among(k, Matching)

LEMMA FoundWith ==
  ASSUME NEW k \in Seq(Job), NEW c \in Seq(Job), NEW a \in Seq(Job), NEW r, FoundIn(k, a, r),
         IsInjective(c), Range(k) \cap Range(c) = {}
  PROVE  LET d == a \o Among(c, MatchedBut(r)) IN d \in Seq(Job) /\ FoundIn(k \o c, d, r)
<1> DEFINE M == MatchedBut(r)
           b == Among(c, M)
           d == a \o b
<1>0. /\ IsInjective(a) /\ Range(a) \subseteq Range(k) \cap (Matching \cup r)
      /\ (Range(k) \cap Matching) \ r \subseteq Range(a)
  BY DEF FoundIn
<1>1. b \in Seq(Job) /\ IsInjective(b) /\ Range(b) = Range(c) \cap M
  BY AmongType, AmongInjective, AmongRange
<1>2. r = {} => b = Among(c, Matching)
  <2>1. r = {} => M = Matching
    BY DEF MatchedBut
  <2> QED
    BY <2>1
<1>m. Matching \ r \subseteq M /\ M \subseteq Matching \cup r
  BY DEF MatchedBut
<1> HIDE DEF b, M
<1>3. d \in Seq(Job) /\ Range(d) = Range(a) \cup Range(b)
  BY <1>1, ConcatProperties, RangeConcatenation
<1>4. Range(k \o c) = Range(k) \cup Range(c)
  BY RangeConcatenation
<1>5. IsInjective(d)
  <2>1. Range(a) \cap Range(b) = {}
    BY <1>0, <1>1
  <2> QED
    BY <1>0, <1>1, <2>1, InjectiveConcat
<1>6. ASSUME r = {} PROVE d = Among(k \o c, Matching)
  <2>1. a = Among(k, Matching) /\ b = Among(c, Matching)
    BY <1>2, <1>6 DEF FoundIn
  <2>2. Among(k \o c, Matching) = Among(k, Matching) \o Among(c, Matching)
    BY AmongConcat
  <2> QED
    BY <2>1, <2>2
<1> HIDE DEF d
<1>7. Range(d) \subseteq Range(k \o c) \cap (Matching \cup r)
  BY <1>0, <1>1, <1>3, <1>4, <1>m
<1>8. (Range(k \o c) \cap Matching) \ r \subseteq Range(d)
  BY <1>0, <1>1, <1>3, <1>4, <1>m
<1>9. FoundIn(k \o c, d, r)
  BY <1>5, <1>6, <1>7, <1>8 DEF FoundIn
<1> QED
  BY <1>3, <1>9 DEF d, b, M

\* A chunk of which nothing fails.
LEMMA ChunkFound ==
  ASSUME NEW s, NEW r, Plain(s), Faultless(s, r), s.pc = "reads"
  PROVE  LET c == Slice(s.ids, s.cursor, ScanCount)
             acc == Slice(s.acc \o Among(c, MatchedBut(r)), 0, Enough)
         IN  Faultless(Further(s, s.cursor + Len(c), acc), r)
<1> DEFINE ids == s.ids
           k == Known(s)
           c == Slice(ids, s.cursor, ScanCount)
           a == s.acc
           d == a \o Among(c, MatchedBut(r))
           acc == Slice(d, 0, Enough)
           n == Further(s, s.cursor + Len(c), acc)
<1>1. /\ c \in Seq(Job) /\ s.cursor + Len(c) <= Len(ids)
      /\ SubSeq(ids, 1, s.cursor + Len(c)) = k \o c
      /\ \E rest \in Seq(Job) : ids = (k \o c) \o rest
      /\ IsInjective(c) /\ Range(k) \cap Range(c) = {}
  BY ChunkFollows
<1>2. /\ ids \in Seq(Job) /\ Len(ids) \in Nat /\ s.cursor \in 0 .. Len(ids) /\ k \in Seq(Job)
  BY KnownIs
<1>3. s.cursor + Len(c) \in 0 .. Len(ids)
  <2>1. Len(c) \in Nat
    BY <1>1
  <2> HIDE DEF ids, c
  <2> QED
    BY <1>1, <1>2, <2>1
<1>4. a \in Seq(Job) /\ Len(a) < Enough
  BY DEF Plain, SearchRecord
<1>5. FoundIn(k, a, r)
  BY <1>4 DEF Faultless, Covers, FoundIn
<1> HIDE DEF ids, k, c, a
<1>6. /\ d \in Seq(Job) /\ IsInjective(d) /\ Range(d) \subseteq Range(k \o c) \cap (Matching \cup r)
      /\ (Range(k \o c) \cap Matching) \ r \subseteq Range(d)
      /\ r = {} => d = Among(k \o c, Matching)
  <2>1. d \in Seq(Job) /\ FoundIn(k \o c, d, r)
    BY <1>1, <1>2, <1>4, <1>5, FoundWith
  <2> QED
    BY <2>1 DEF FoundIn
<1> HIDE DEF d
<1>7. /\ acc \in Seq(Job) /\ Len(acc) = IF Enough <= Len(d) THEN Enough ELSE Len(d)
      /\ \E rest \in Seq(Job) : d = acc \o rest
      /\ Len(d) <= Enough => acc = d
  BY <1>6, SearchLimits, FirstOnes
<1>8. Len(d) \in Nat
  BY <1>6
<1>9. IsInjective(acc) /\ Range(acc) \subseteq Range(d)
  <2>1. PICK rest \in Seq(Job) : d = acc \o rest
    BY <1>7
  <2> HIDE DEF acc
  <2> QED
    BY <1>6, <1>7, <2>1, InjectiveConcat, RangeConcatenation
<1>10. (Len(acc) < Enough <=> Len(d) < Enough) /\ (Len(acc) < Enough => acc = d)
  <2> DEFINE l == Len(d)
             m == Len(acc)
  <2>1. l \in Nat /\ m = (IF Enough <= l THEN Enough ELSE l) /\ (l <= Enough => acc = d)
    BY <1>7, <1>8
  <2> HIDE DEF l, m, acc
  <2>2. (m < Enough <=> l < Enough) /\ (m < Enough => acc = d)
    BY <2>1, SearchLimits
  <2> QED
    BY <2>2 DEF l, m
<1>11. Plain(s) /\ s.ids = ids
  BY DEF ids
<1> HIDE DEF acc
<1>12. /\ n.ids = ids /\ n.cursor = s.cursor + Len(c) /\ n.acc = acc
       /\ n.pc = IF Len(acc) < Enough THEN "reads" ELSE "done"
  BY <1>3, <1>7, <1>11, FurtherIs
<1>13. Known(n) = k \o c
  BY <1>1, <1>12 DEF Known
<1> HIDE DEF n
<1>14. Covers(n, IF n.pc = "done" THEN n.ids ELSE Known(n), r)
  <2> SUFFICES ASSUME Len(acc) < Enough PROVE (Range(k \o c) \cap Matching) \ r \subseteq Range(acc)
    BY <1>12, <1>13 DEF Covers
  <2> QED
    BY <1>6, <1>10
<1>15. ASSUME r = {}
       PROVE  acc = IF n.pc = "done" THEN Slice(Exact(ids), 0, Enough) ELSE Among(Known(n), Matching)
  <2>1. CASE Len(acc) < Enough
    <3>1. n.pc = "reads" /\ acc = d
      BY <1>10, <1>12, <2>1
    <3> QED
      BY <1>6, <1>13, <1>15, <3>1
  <2>2. CASE ~(Len(acc) < Enough)
    <3>1. n.pc = "done" /\ ~(Len(d) < Enough)
      BY <1>10, <1>12, <2>2
    <3>2. Enough <= Len(d)
      BY <1>8, <3>1, SearchLimits
    <3>3. PICK rest \in Seq(Job) : ids = (k \o c) \o rest
      BY <1>1
    <3>4. k \o c \in Seq(Job)
      BY <1>1, <1>2, ConcatProperties
    <3>5. Exact(ids) = d \o Among(rest, Matching)
      <4>1. Among((k \o c) \o rest, Matching) = Among(k \o c, Matching) \o Among(rest, Matching)
        BY <3>4, AmongConcat
      <4> QED
        BY <1>6, <1>15, <3>3, <4>1 DEF Exact
    <3>6. Among(rest, Matching) \in Seq(Job)
      BY AmongType
    <3>7. Slice(Exact(ids), 0, Enough) = Slice(d, 0, Enough)
      BY <1>6, <3>2, <3>5, <3>6, FirstOfConcat, SearchLimits
    <3> QED
      BY <3>1, <3>7 DEF acc
  <2> QED
    BY <2>1, <2>2
<1>16. Faultless(n, r)
  BY <1>6, <1>9, <1>12, <1>13, <1>14, <1>15 DEF Faultless
<1> QED
  BY <1>16 DEF n, acc, d, c, ids, a

\* A search that has looked at nothing.
LEMMA NothingFound ==
  ASSUME NEW s, NEW r, s.cursor = 0, s.acc = <<>>, s.pc # "done"
  PROVE  Faultless(s, r)
<1>1. Known(s) = <<>>
  BY SubSeqEmpty DEF Known
<1>2. IsInjective(<<>>) /\ Range(<<>>) = {}
  BY RangeEmpty DEF IsInjective
<1> QED
  BY <1>1, <1>2, AmongNothing DEF Faultless, Covers

LEMMA NoSearchIs == Plain(NoSearch) /\ NoSearch.cursor = 0 /\ NoSearch.acc = <<>>
<1>1. NoSearch \in SearchRecord /\ NoSearch.ids = <<>> /\ NoSearch.pc = "idle"
      /\ NoSearch.cursor = 0 /\ NoSearch.acc = <<>>
  BY DEF NoSearch, SearchRecord
<1>2. IsInjective(<<>>)
  BY DEF IsInjective
<1> QED
  BY <1>1, <1>2 DEF Plain

LEMMA SearchInitInv == Init => ListsOnce /\ SearchInv
<1> SUFFICES ASSUME Init PROVE ListsOnce /\ SearchInv
  OBVIOUS
<1>1. lists \in Arrangements /\ gone = {} /\ search = NoSearch /\ errors = MaxErrors
  BY DEF Init, ListsInit, SearchInit
<1>2. ListsOnce
  BY <1>1, JobListsAssumption DEF JobListsAssumption, ListsOnce
<1>3. NoSearch.pc # "done"
  BY DEF NoSearch
<1> QED
  BY <1>1, <1>2, <1>3, NoSearchIs, NothingFound, SearchLimits DEF SearchInv

LEMMA ReadIdsKeeps ==
  ASSUME ListsType, ListsOnce, SearchInv, NEW q \in ToSet(Queue), NEW s \in ToSet(Status),
         ReadIds(q, s), UNCHANGED listVars
  PROVE  SearchInv'
<1> DEFINE ids == lists[q][s]
           s1 == [NoSearch EXCEPT !.pc = "reads"]
           n == [s1 EXCEPT !.ids = ids]
<1>1. ids \in Seq(Job)
  BY ListsOfQueue
<1>2. IsInjective(ids)
  BY <1>1 DEF ListsOnce, Once, IsInjective
<1>3. search' = n /\ errors' = errors
  <2>1. search' = [search EXCEPT !.pc = "reads", !.ids = ids] /\ search = NoSearch
    BY DEF ReadIds
  <2> QED
    BY <2>1 DEF ReadIds
<1> HIDE DEF ids
<1>4. /\ n \in SearchRecord /\ n.ids = ids /\ n.pc = "reads" /\ n.cursor = 0 /\ n.acc = <<>>
  <2>1. s1 \in SearchRecord /\ s1.pc = "reads" /\ s1.cursor = 0 /\ s1.acc = <<>>
    BY NoSearchIs DEF Plain, SearchRecord
  <2> HIDE DEF s1
  <2> QED
    BY <1>1, <2>1 DEF SearchRecord
<1> HIDE DEF n
<1>5. Plain(n)
  BY <1>1, <1>2, <1>4, SearchLimits DEF Plain
<1>6. Faultless(n, gone)
  BY <1>4, NothingFound
<1> QED
  BY <1>3, <1>5, <1>6 DEF SearchInv, listVars

\* Whatever fails of a chunk, the search goes on within its ids.
LEMMA ReadChunkKeeps ==
  ASSUME SearchInv, ReadChunk, UNCHANGED listVars
  PROVE  SearchInv'
<1> DEFINE c == Slice(search.ids, search.cursor, ScanCount)
<1>0. Chunk = c /\ Plain(search) /\ errors \in Nat /\ errors <= MaxErrors /\ search.pc = "reads"
      /\ gone' = gone
  BY SearchLimits DEF Chunk, SearchInv, ReadChunk, listVars
<1>1. c \in Seq(Job) /\ search.cursor + Len(c) <= Len(search.ids)
  BY <1>0, ChunkFollows
<1>2. PICK failed \in SUBSET ToSet(c) :
        LET read == Among(c, ToSet(c) \ failed)
            acc == Slice(search.acc \o Among(read, Matched), 0, Enough)
        IN  /\ Cardinality(failed) <= errors
            /\ errors' = errors - Cardinality(failed)
            /\ search' = Further(search, search.cursor + Len(read), acc)
  BY <1>0 DEF ReadChunk, Advanced, Further
<1> DEFINE read == Among(c, ToSet(c) \ failed)
           more == search.acc \o Among(read, Matched)
           acc == Slice(more, 0, Enough)
<1>3. read \in Seq(Job) /\ Len(read) \in Nat /\ Len(read) <= Len(c)
  BY <1>1, AmongType
<1>4. acc \in Seq(Job)
  <2>1. search.acc \in Seq(Job) /\ Among(read, Matched) \in Seq(Job)
    BY <1>0, <1>3, AmongType DEF Plain, SearchRecord
  <2>2. more \in Seq(Job)
    BY <2>1, ConcatProperties
  <2> HIDE DEF more
  <2> QED
    BY <2>2, FirstOnes, SearchLimits
<1>5. search.cursor + Len(read) \in 0 .. Len(search.ids)
  <2> DEFINE l == Len(read)
             m == Len(c)
             n == Len(search.ids)
             k == search.cursor
  <2>1. l \in Nat /\ m \in Nat /\ n \in Nat /\ k \in Nat /\ l <= m /\ k + m <= n
    BY <1>0, <1>1, <1>3, KnownIs
  <2> HIDE DEF l, m, n, k
  <2>2. k + l \in 0 .. n
    BY <2>1
  <2> QED
    BY <2>2 DEF k, l, n
<1>6. /\ Cardinality(failed) <= errors /\ errors' = errors - Cardinality(failed)
      /\ search' = Further(search, search.cursor + Len(read), acc)
  BY <1>2
<1>7. IsFiniteSet(failed)
  <2>1. IsFiniteSet(1 .. Len(c)) /\ DOMAIN c = 1 .. Len(c)
    BY <1>1, FS_Interval
  <2> HIDE DEF c
  <2>2. c \in [DOMAIN c -> ToSet(c)]
    BY <1>1, <2>1 DEF ToSet
  <2>3. c \in Surjection(DOMAIN c, ToSet(c))
    BY <2>2 DEF Surjection, ToSet
  <2>4. IsFiniteSet(ToSet(c))
    BY <2>1, <2>3, FS_Surjection
  <2> QED
    BY <2>4, FS_Subset
<1>8. Cardinality(failed) \in Nat
  BY <1>7, FS_CardinalityType
<1>9. errors' \in 0 .. MaxErrors
  <2> DEFINE f == Cardinality(failed)
             e == errors'
  <2>1. f \in Nat /\ e = errors - f /\ f <= errors
    BY <1>6, <1>8
  <2> HIDE DEF f, e
  <2>2. e \in 0 .. MaxErrors
    BY <1>0, <2>1, SearchLimits
  <2> QED
    BY <2>2 DEF e
<1>10. ASSUME errors' = MaxErrors
       PROVE  errors = MaxErrors /\ read = c
  <2>1. errors = MaxErrors /\ Cardinality(failed) = 0
    BY <1>0, <1>6, <1>8, <1>10, SearchLimits
  <2>2. failed = {}
    BY <1>7, <2>1, FS_EmptySet
  <2>3. Range(c) \subseteq ToSet(c) \ failed
    BY <2>2, ToSetIsRange
  <2> HIDE DEF c
  <2>4. Among(c, ToSet(c) \ failed) = c
    BY <1>1, <2>3, AmongAll
  <2> QED
    BY <2>1, <2>4
<1>11. ASSUME errors' = MaxErrors
       PROVE  Faultless(search', gone)
  <2>1. errors = MaxErrors /\ read = c
    BY <1>10, <1>11
  <2>2. Faultless(search, gone)
    BY <2>1 DEF SearchInv
  <2>3. acc = Slice(search.acc \o Among(c, MatchedBut(gone)), 0, Enough)
    BY <2>1 DEF Matched, MatchedBut
  <2> HIDE DEF read, acc
  <2> QED
    BY <1>0, <1>6, <2>1, <2>2, <2>3, ChunkFound
<1> HIDE DEF read, acc
<1>12. Plain(search')
  BY <1>0, <1>4, <1>5, <1>6, FurtherIs
<1> QED
  BY <1>0, <1>9, <1>11, <1>12 DEF SearchInv

LEMMA SearchEndsKeeps ==
  ASSUME SearchInv, ChunkFails \/ EndOfIds, UNCHANGED listVars
  PROVE  SearchInv'
<1> DEFINE n == [search EXCEPT !.pc = "done"]
<1>1. Plain(search) /\ errors \in 0 .. MaxErrors /\ gone' = gone
  BY DEF SearchInv, listVars
<1>2. search' = n /\ search.pc = "reads"
  BY DEF ChunkFails, EndOfIds
<1>3. /\ Plain(n) /\ n.ids = search.ids /\ n.cursor = search.cursor /\ n.acc = search.acc
      /\ n.pc = "done"
  BY <1>1, EndedIs
<1> HIDE DEF n
<1>4. CASE ChunkFails
  <2>1. errors' \in 0 .. MaxErrors /\ errors' # MaxErrors
    BY <1>1, <1>4, SearchLimits DEF ChunkFails
  <2> QED
    BY <1>2, <1>3, <2>1 DEF SearchInv
<1>5. CASE EndOfIds
  <2>1. errors' = errors /\ Chunk = <<>>
    BY <1>5 DEF EndOfIds
  <2>2. Known(search) = search.ids
    BY <1>1, <2>1, ChunkFollows DEF Chunk
  <2>3. Known(n) = search.ids
    BY <1>3, <2>2 DEF Known
  <2>4. ASSUME errors = MaxErrors
        PROVE  Faultless(n, gone)
    <3>1. Faultless(search, gone)
      BY <2>4 DEF SearchInv
    <3>2. Len(search.acc) < Enough /\ search.acc \in Seq(Job) /\ Len(search.acc) \in Nat
      BY <1>1, <1>2 DEF Plain, SearchRecord
    <3>3. Slice(search.acc, 0, Enough) = search.acc
      BY <3>2, FirstOnes, SearchLimits
    <3>4. gone = {} => search.acc = Slice(Exact(search.ids), 0, Enough)
      BY <1>2, <2>2, <3>1, <3>3 DEF Faultless, Exact
    <3> QED
      BY <1>2, <1>3, <2>2, <2>3, <3>1, <3>4 DEF Faultless, Covers
  <2> QED
    BY <1>1, <1>2, <1>3, <2>1, <2>4 DEF SearchInv
<1> QED
  BY <1>4, <1>5

\* A search at rest stays right when more jobs are removed.
LEMMA SearchUnchanged ==
  ASSUME SearchInv, UNCHANGED searchVars, gone \subseteq gone'
  PROVE  SearchInv'
<1>1. search' = search /\ errors' = errors
  BY DEF searchVars
<1>2. ASSUME errors = MaxErrors
      PROVE  Faultless(search, gone')
  <2> DEFINE r == gone'
  <2>1. Faultless(search, gone) /\ gone \subseteq r
    BY <1>2 DEF SearchInv
  <2> HIDE DEF r
  <2>2. Faultless(search, r)
    BY <2>1 DEF Faultless, Covers
  <2> QED
    BY <2>2 DEF r
<1> QED
  BY <1>1, <1>2 DEF SearchInv

SearchesInv == ListsType /\ ListsOnce /\ SearchInv

LEMMA SearchNextInv == SearchesInv /\ [Next]_vars => SearchesInv'
<1> SUFFICES ASSUME SearchesInv, [Next]_vars PROVE SearchesInv'
  OBVIOUS
<1>0. ListsType /\ ListsOnce /\ SearchInv
  BY DEF SearchesInv
<1>1. ASSUME UNCHANGED listVars
      PROVE  ListsType' /\ ListsOnce' /\ gone \subseteq gone'
  BY <1>0, <1>1 DEF ListsType, ListsOnce, listVars
<1>2. CASE Scanning
  <2>1. UNCHANGED <<listVars, searchVars>>
    BY <1>2 DEF Scanning
  <2> QED
    BY <1>0, <1>1, <2>1, SearchUnchanged DEF SearchesInv
<1>3. CASE Searching
  <2>1. SearchNext /\ UNCHANGED listVars
    BY <1>3 DEF Searching
  <2>2. SearchInv'
    BY <1>0, <2>1, ReadIdsKeeps, ReadChunkKeeps, SearchEndsKeeps DEF SearchNext
  <2> QED
    BY <1>1, <2>1, <2>2 DEF SearchesInv
<1>4. CASE Changing
  <2>1. PICK q \in ToSet(Queue), s \in ToSet(Status), to \in ToSet(Status) \cup {"removed"} :
          \E i \in DOMAIN lists[q][s] : Move(q, s, i, to)
    BY <1>4 DEF Changing
  <2>2. PICK i \in DOMAIN lists[q][s] : Move(q, s, i, to)
    BY <2>1
  <2>3. ListsType' /\ ListsOnce' /\ gone \subseteq gone'
    BY <1>0, <2>2, Moved
  <2>4. UNCHANGED searchVars
    BY <1>4 DEF Changing
  <2> QED
    BY <1>0, <2>3, <2>4, SearchUnchanged DEF SearchesInv
<1>5. CASE UNCHANGED vars
  <2>1. UNCHANGED <<listVars, searchVars>>
    BY <1>5 DEF vars
  <2> QED
    BY <1>0, <1>1, <2>1, SearchUnchanged DEF SearchesInv
<1> QED
  BY <1>2, <1>3, <1>4, <1>5 DEF Next

-----------------------------------------------------------------------------
(* What a scan that nothing disturbs has found *)

\* The members a slice holds.
LEMMA SliceMembers ==
  ASSUME NEW s \in Seq(Job), NEW after \in 0 .. Len(s), NEW n \in Nat
  PROVE  \A job : job \in ToSet(Slice(s, after, n))
                    <=> \E i \in after + 1 .. after + Len(Slice(s, after, n)) : job = s[i]
<1> DEFINE hi == IF after + n <= Len(s) THEN after + n ELSE Len(s)
           m == after + 1
           c == SubSeq(s, m, hi)
<1>1. Len(s) \in Nat /\ after \in Nat /\ after <= Len(s)
  OBVIOUS
<1>2. hi \in after .. Len(s) /\ m \in Int /\ hi \in Int
  BY <1>1
<1>3. \A i \in m .. hi : s[i] \in Job
  BY <1>1, <1>2
<1>4. Slice(s, after, n) = c
  BY DEF Slice
<1> HIDE DEF hi
<1>5. /\ c \in Seq(Job) /\ Len(c) = IF m <= hi THEN hi - m + 1 ELSE 0
      /\ \A i \in 1 .. hi - m + 1 : c[i] = s[m + i - 1]
  BY <1>2, <1>3, SubSeqProperties
<1> HIDE DEF c
<1>6. Len(c) = hi - after /\ \A i \in 1 .. Len(c) : c[i] = s[after + i]
  <2>1. Len(c) = hi - after /\ hi - m + 1 = hi - after
    BY <1>1, <1>2, <1>5
  <2>2. ASSUME NEW i \in 1 .. hi - after PROVE c[i] = s[after + i]
    <3>1. m + i - 1 = after + i /\ i \in 1 .. hi - m + 1
      BY <1>1, <2>1, <2>2
    <3> QED
      BY <1>5, <3>1
  <2> QED
    BY <2>1, <2>2
<1>7. DOMAIN c = 1 .. Len(c) /\ Len(c) \in Nat
  BY <1>5
<1> DEFINE l == Len(c)
<1>8. l \in Nat /\ \A i \in 1 .. l : c[i] = s[after + i]
  BY <1>6, <1>7
<1>9. \A job : job \in ToSet(c) <=> \E i \in 1 .. l : job = c[i]
  BY <1>7 DEF ToSet
<1>10. Len(Slice(s, after, n)) = l
  BY <1>4
<1> HIDE DEF l
<1>11. ASSUME NEW job
       PROVE  job \in ToSet(c) <=> \E i \in after + 1 .. after + l : job = s[i]
  <2>1. ASSUME NEW i \in 1 .. l, job = c[i] PROVE \E k \in after + 1 .. after + l : job = s[k]
    <3>1. after + i \in after + 1 .. after + l /\ job = s[after + i]
      BY <1>1, <1>8, <2>1
    <3> QED
      BY <3>1
  <2>2. ASSUME NEW k \in after + 1 .. after + l, job = s[k] PROVE \E i \in 1 .. l : job = c[i]
    <3>1. k - after \in 1 .. l /\ after + (k - after) = k
      BY <1>1, <1>8, <2>2
    <3>2. c[k - after] = s[k]
      BY <1>8, <3>1
    <3> QED
      BY <2>2, <3>1, <3>2
  <2> QED
    BY <1>9, <2>1, <2>2
<1> QED
  BY <1>4, <1>10, <1>11

\* The jobs of the trace in the statuses before the n-th, and in the first k places of that.
Before(b, n, k) ==
  {job \in OfTrace : \E m \in 1 .. Len(Status) : \E i \in 1 .. Len(b[Status[m]]) :
     b[Status[m]][i] = job /\ (m < n \/ (m = n /\ i <= k))}

LEMMA BeforeFirst ==
  ASSUME NEW b \in ByStatus
  PROVE  Before(b, 1, 0) = {}
<1>1. ASSUME NEW m \in 1 .. Len(Status), NEW i \in 1 .. Len(b[Status[m]]),
             m < 1 \/ (m = 1 /\ i <= 0)
      PROVE  FALSE
  <2>1. b[Status[m]] \in Seq(Job)
    BY StatusType DEF ByStatus
  <2>2. Len(b[Status[m]]) \in Nat /\ m >= 1 /\ i >= 1
    BY <2>1
  <2> QED
    BY <1>1, <2>2
<1> QED
  BY <1>1 DEF Before

\* A page more of a status, when there may be more of it and when it was the last.
LEMMA BeforeMore ==
  ASSUME NEW b \in ByStatus, NEW n \in 1 .. Len(Status), NEW k \in 0 .. Len(b[Status[n]]),
         NEW size \in Nat
  PROVE  LET page == Slice(b[Status[n]], k, size)
             found == Before(b, n, k) \cup (ToSet(page) \cap OfTrace)
         IN  /\ found = Before(b, n, k + Len(page))
             /\ Len(page) < size => found = Before(b, n + 1, 0)
<1> DEFINE list == b[Status[n]]
           page == Slice(list, k, size)
           found == Before(b, n, k) \cup (ToSet(page) \cap OfTrace)
           l == Len(page)
<1>1. list \in Seq(Job) /\ Len(list) \in Nat /\ k \in 0 .. Len(list)
  BY StatusType DEF ByStatus
<1>2. l = (IF k + size <= Len(list) THEN size ELSE Len(list) - k) /\ k + l <= Len(list)
  <2>1. /\ page \in Seq(Job) /\ l = IF k + size <= Len(list) THEN size ELSE Len(list) - k
        /\ k + l \in 0 .. Len(list)
    BY <1>1, SliceGoesOn
  <2> QED
    BY <1>1, <2>1
<1>3. \A job : job \in ToSet(page) <=> \E i \in k + 1 .. k + l : job = list[i]
  BY <1>1, SliceMembers
<1>4. l \in Nat /\ n \in Nat /\ k \in Nat
  BY <1>1, <1>2
<1> HIDE DEF page, l
<1>5. ASSUME NEW m \in 1 .. Len(Status)
      PROVE  m \in Nat /\ Len(b[Status[m]]) \in Nat
  <2>1. b[Status[m]] \in Seq(Job)
    BY StatusType DEF ByStatus
  <2> QED
    BY <2>1
<1>6. ASSUME NEW job
      PROVE  job \in found <=> job \in Before(b, n, k + l)
  <2>1. ASSUME job \in ToSet(page) \cap OfTrace
        PROVE  job \in Before(b, n, k + l)
    <3>1. PICK i \in k + 1 .. k + l : job = list[i]
      BY <1>3, <2>1
    <3>2. i \in 1 .. Len(list) /\ i <= k + l
      BY <1>1, <1>2, <1>4, <3>1
    <3> QED
      BY <2>1, <3>1, <3>2 DEF Before
  <2>2. ASSUME job \in Before(b, n, k)
        PROVE  job \in Before(b, n, k + l)
    <3>0. PICK m \in 1 .. Len(Status) : \E i \in 1 .. Len(b[Status[m]]) :
            b[Status[m]][i] = job /\ (m < n \/ (m = n /\ i <= k))
      BY <2>2 DEF Before
    <3>1. PICK i \in 1 .. Len(b[Status[m]]) : b[Status[m]][i] = job /\ (m < n \/ (m = n /\ i <= k))
      BY <3>0
    <3>2. m < n \/ (m = n /\ i <= k + l)
      BY <1>4, <1>5, <3>1
    <3> QED
      BY <2>2, <3>1, <3>2 DEF Before
  <2>3. ASSUME job \in Before(b, n, k + l)
        PROVE  job \in found
    <3>0. PICK m \in 1 .. Len(Status) : \E i \in 1 .. Len(b[Status[m]]) :
            b[Status[m]][i] = job /\ (m < n \/ (m = n /\ i <= k + l))
      BY <2>3 DEF Before
    <3>1. PICK i \in 1 .. Len(b[Status[m]]) : b[Status[m]][i] = job /\ (m < n \/ (m = n /\ i <= k + l))
      BY <3>0
    <3>2. CASE m < n \/ (m = n /\ i <= k)
      BY <2>3, <3>1, <3>2 DEF Before
    <3>3. CASE ~(m < n \/ (m = n /\ i <= k))
      <4>1. m = n /\ i \in k + 1 .. k + l
        BY <1>4, <1>5, <3>1, <3>3
      <4>2. job \in ToSet(page)
        BY <1>3, <3>1, <4>1
      <4> QED
        BY <2>3, <4>2 DEF Before
    <3> QED
      BY <3>2, <3>3
  <2> QED
    BY <2>1, <2>2, <2>3
<1>7. ASSUME l < size, NEW job
      PROVE  job \in Before(b, n, k + l) <=> job \in Before(b, n + 1, 0)
  <2>1. k + l = Len(list)
    BY <1>1, <1>2, <1>4, <1>7
  <2>2. ASSUME NEW m \in 1 .. Len(Status), NEW i \in 1 .. Len(b[Status[m]])
        PROVE  m < n \/ (m = n /\ i <= k + l) <=> m < n + 1 \/ (m = n + 1 /\ i <= 0)
    <3>1. m \in Nat /\ i \in Nat /\ i >= 1
      BY <1>5
    <3>2. m = n => i <= Len(list)
      BY <1>5
    <3> HIDE DEF list
    <3> QED
      BY <1>4, <2>1, <3>1, <3>2
  <2> QED
    BY <2>2 DEF Before
<1> HIDE DEF found
<1>8. found = Before(b, n, k + l)
  BY <1>6
<1>9. l < size => found = Before(b, n + 1, 0)
  BY <1>7, <1>8
<1> QED
  BY <1>8, <1>9 DEF l, found, page

\* A scan that reads, of lists that are still, is at a page as long as its limits allow, and has
\* found the jobs of the trace before that; one that ended has found them all.
Sound(b, s) ==
  \/ s = Fresh
  \/ s.partial
  \/ /\ s.pc = "done" /\ s.status > Len(Status)
     /\ s.found = Before(b, s.status, 0)
  \/ /\ s.pc = "reads" /\ s.status \in 1 .. Len(Status) /\ s.start \in 0 .. Len(b[Status[s.status]])
     /\ s.size = Least(Page, Limit - s.read) /\ s.size > 0
     /\ s.found = Before(b, s.status, s.start)

LEMMA AskedIs ==
  ASSUME NEW s \in ScanRecord, NEW budget \in Nat, s.read <= Limit, ~Shortened(s, budget)
  PROVE  LET n == Asked(s, budget)
             size == Least(Page, Limit - s.read)
         IN  /\ s.partial => n.partial
             /\ n.partial \/ (/\ size > 0 /\ n.pc = "reads" /\ n.size = size /\ n.read = s.read
                              /\ n.status = s.status /\ n.start = s.start /\ n.found = s.found)
<1> DEFINE size == Least(Page, Limit - s.read)
           t1 == [s EXCEPT !.pc = "reads"]
           t == [t1 EXCEPT !.size = size]
           u1 == [s EXCEPT !.pc = "done"]
           u == [u1 EXCEPT !.partial = TRUE]
<1>1. s.read \in Nat
  BY DEF ScanRecord
<1>2. size \in Int
  BY <1>1, LimitsType DEF Least
<1>3. PageSize(s, budget) = size
  <2>1. ~(budget < size)
    BY DEF Shortened
  <2>2. PageSize(s, budget) = Least(size, budget)
    BY DEF PageSize
  <2> HIDE DEF size
  <2> QED
    BY <1>2, <2>1, <2>2 DEF Least
<1> HIDE DEF size
<1>4. CASE size <= 0
  <2>1. Asked(s, budget) = u
    BY <1>3, <1>4 DEF Asked, Stopped, ScanRecord
  <2>2. u1 \in ScanRecord
    BY DEF ScanRecord
  <2> HIDE DEF u1
  <2>3. u.partial
    BY <2>2 DEF ScanRecord
  <2> HIDE DEF u
  <2> QED
    BY <2>1, <2>3
<1>5. CASE ~(size <= 0)
  <2>1. Asked(s, budget) = t /\ size > 0 /\ size \in Nat
    BY <1>2, <1>3, <1>5 DEF Asked, ScanRecord
  <2>2. /\ t1 \in ScanRecord /\ t1.pc = "reads" /\ t1.read = s.read /\ t1.status = s.status
        /\ t1.start = s.start /\ t1.found = s.found /\ t1.partial = s.partial
    BY DEF ScanRecord
  <2> HIDE DEF t1
  <2>3. /\ t.pc = "reads" /\ t.read = s.read /\ t.status = s.status /\ t.size = size
        /\ t.start = s.start /\ t.found = s.found /\ t.partial = s.partial
    BY <2>1, <2>2 DEF ScanRecord
  <2> HIDE DEF t
  <2> QED
    BY <2>1, <2>3 DEF size
<1> QED
  BY <1>4, <1>5 DEF size

LEMMA AfterIs ==
  ASSUME NEW s \in ScanRecord, NEW page \in Seq(Job)
  PROVE  LET a == After(s, page)
         IN  /\ a.found = s.found \cup (ToSet(page) \cap OfTrace) /\ a.partial = s.partial
             /\ a.status = IF Exhausted(s, page) THEN s.status + 1 ELSE s.status
             /\ a.start = IF Exhausted(s, page) THEN 0 ELSE s.start + Page
<1> DEFINE read == s.read + Len(page)
           found == s.found \cup (ToSet(page) \cap OfTrace)
           s1 == [s EXCEPT !.read = read, !.found = found, !.size = 0]
           s11 == [s1 EXCEPT !.status = s1.status + 1]
           s2 == [s11 EXCEPT !.start = 0]
           start == s1.start + Page
           s3 == [s1 EXCEPT !.start = start]
<1>1. read \in Nat
  BY DEF ScanRecord
<1>2. found \subseteq Job
  BY PendingScanAssumption DEF PendingScanAssumption, ScanRecord
<1>3. After(s, page) = IF Exhausted(s, page) THEN s2 ELSE s3
  BY DEF After, ScanRecord
<1> HIDE DEF read, found
<1>4. /\ s1 \in ScanRecord /\ s1.found = found /\ s1.status = s.status /\ s1.start = s.start
      /\ s1.partial = s.partial
  BY <1>1, <1>2 DEF ScanRecord
<1> HIDE DEF s1
<1>5. /\ s11 \in ScanRecord /\ s11.found = found /\ s11.status = s.status + 1
      /\ s11.partial = s.partial
  BY <1>4 DEF ScanRecord
<1> HIDE DEF s11
<1>6. s2.found = found /\ s2.status = s.status + 1 /\ s2.start = 0 /\ s2.partial = s.partial
  BY <1>5 DEF ScanRecord
<1>7. /\ s3.found = found /\ s3.status = s.status /\ s3.start = s.start + Page
      /\ s3.partial = s.partial
  BY <1>4 DEF ScanRecord
<1> HIDE DEF s2, s3
<1> QED
  BY <1>3, <1>6, <1>7 DEF found

\* A page read of lists that are still.
LEMMA AnswerSound ==
  ASSUME NEW b \in ByStatus, NEW s \in ScanRecord, Sound(b, s), s.pc = "reads",
         NEW page \in Seq(Job), page = Slice(b[Status[s.status]], s.start, s.size),
         NEW budget \in Nat, s.read + Len(page) <= Limit,
         NEW n, LET a == After(s, page)
                IN  /\ n = IF a.status > Len(Status) THEN [a EXCEPT !.pc = "done"]
                           ELSE Asked(a, budget)
                    /\ ~(a.status <= Len(Status) /\ Shortened(a, budget))
  PROVE  Sound(b, n)
<1> DEFINE a == After(s, page)
           list == b[Status[s.status]]
           len == Len(page)
           d == [a EXCEPT !.pc = "done"]
<1>1. a \in ScanRecord /\ a.read = s.read + len
  BY AfterReads
<1>2. /\ a.found = s.found \cup (ToSet(page) \cap OfTrace) /\ a.partial = s.partial
      /\ a.status = IF Exhausted(s, page) THEN s.status + 1 ELSE s.status
      /\ a.start = IF Exhausted(s, page) THEN 0 ELSE s.start + Page
  BY AfterIs
<1>3. /\ n = IF a.status > Len(Status) THEN d ELSE Asked(a, budget)
      /\ ~(a.status <= Len(Status) /\ Shortened(a, budget))
  OBVIOUS
<1>4. s.status \in Nat /\ s.start \in Nat /\ s.size \in Nat /\ s.read \in Nat /\ len \in Nat
      /\ a.status \in Nat
  BY <1>1 DEF ScanRecord
<1>5. Exhausted(s, page) <=> len < s.size
  BY DEF Exhausted
<1> HIDE DEF a, len
<1>6. d.partial = a.partial /\ d.pc = "done" /\ d.status = a.status /\ d.found = a.found
  BY <1>1 DEF ScanRecord
<1> HIDE DEF d
<1> DEFINE size == Least(Page, Limit - a.read)
<1>7. ASSUME a.status <= Len(Status)
      PROVE  /\ a.partial => n.partial
             /\ n.partial \/ (/\ size > 0 /\ n.pc = "reads" /\ n.size = size /\ n.read = a.read
                              /\ n.status = a.status /\ n.start = a.start /\ n.found = a.found)
  <2>1. ~Shortened(a, budget) /\ ~(a.status > Len(Status)) /\ a.read <= Limit
    BY <1>1, <1>3, <1>4, <1>7, StatusType DEF len
  <2>2. n = Asked(a, budget)
    BY <1>3, <2>1
  <2> QED
    BY <1>1, <2>1, <2>2, AskedIs
<1>8. ASSUME s.partial PROVE n.partial
  <2>1. CASE a.status > Len(Status)
    BY <1>2, <1>3, <1>6, <1>8, <2>1
  <2>2. CASE ~(a.status > Len(Status))
    <3>1. a.status <= Len(Status)
      BY <1>4, <2>2, StatusType
    <3> QED
      BY <1>2, <1>7, <1>8, <3>1
  <2> QED
    BY <2>1, <2>2
<1>9. ASSUME ~s.partial
      PROVE  Sound(b, n)
  <2>1. /\ s.status \in 1 .. Len(Status) /\ s.start \in 0 .. Len(list)
        /\ s.size = Least(Page, Limit - s.read) /\ s.size > 0
        /\ s.found = Before(b, s.status, s.start)
    BY <1>9, FreshType DEF Sound
  <2>2. page = Slice(list, s.start, s.size)
    OBVIOUS
  <2>3. /\ a.found = Before(b, s.status, s.start + len)
        /\ len < s.size => a.found = Before(b, s.status + 1, 0)
    <3> DEFINE m == s.status
               k == s.start
               z == s.size
               p == Slice(b[Status[m]], k, z)
               found == Before(b, m, k) \cup (ToSet(p) \cap OfTrace)
    <3>1. m \in 1 .. Len(Status) /\ k \in 0 .. Len(b[Status[m]]) /\ z \in Nat
      BY <1>4, <2>1
    <3>2. p = page /\ a.found = found
      BY <1>2, <2>1, <2>2
    <3> HIDE DEF m, k, z
    <3>3. found = Before(b, m, k + Len(p)) /\ (Len(p) < z => found = Before(b, m + 1, 0))
      BY <3>1, BeforeMore
    <3> HIDE DEF p, found
    <3> QED
      BY <3>2, <3>3 DEF m, k, z, len
  <2>4. list \in Seq(Job) /\ Len(list) \in Nat
    BY <2>1, StatusType DEF ByStatus
  <2>5. len = (IF s.start + s.size <= Len(list) THEN s.size ELSE Len(list) - s.start)
    BY <1>4, <2>1, <2>2, <2>4, SliceGoesOn DEF len
  <2> HIDE DEF list
  <2>6. CASE len < s.size
    <3>1. a.status = s.status + 1 /\ a.start = 0 /\ a.found = Before(b, a.status, 0)
      BY <1>2, <1>5, <2>3, <2>6
    <3>2. CASE a.status > Len(Status)
      BY <1>3, <1>6, <3>1, <3>2 DEF Sound
    <3>3. CASE ~(a.status > Len(Status))
      <4>1. a.status <= Len(Status) /\ a.status \in 1 .. Len(Status)
        BY <1>4, <2>1, <3>1, <3>3, StatusType
      <4>2. 0 \in 0 .. Len(b[Status[a.status]])
        <5>1. b[Status[a.status]] \in Seq(Job)
          BY <4>1, StatusType DEF ByStatus
        <5> QED
          BY <5>1
      <4>3. n.partial \/ (/\ size > 0 /\ n.pc = "reads" /\ n.size = size /\ n.read = a.read
                          /\ n.status = a.status /\ n.start = a.start /\ n.found = a.found)
        BY <1>7, <4>1
      <4> QED
        BY <3>1, <4>1, <4>2, <4>3 DEF Sound
    <3> QED
      BY <3>2, <3>3
  <2>7. CASE ~(len < s.size)
    <3>1. len = s.size /\ s.start + len <= Len(list)
      BY <1>4, <2>1, <2>4, <2>5, <2>7
    <3>2. a.status = s.status /\ a.start = s.start + Page /\ a.status <= Len(Status)
          /\ a.status \in 1 .. Len(Status)
      BY <1>2, <1>5, <2>1, <2>7
    <3>3. n.partial \/ (/\ size > 0 /\ n.pc = "reads" /\ n.size = size /\ n.read = a.read
                        /\ n.status = a.status /\ n.start = a.start /\ n.found = a.found)
      BY <1>7, <3>2
    <3>4. CASE n.partial
      BY <3>4 DEF Sound
    <3>5. CASE ~n.partial
      <4>1. s.size = Page
        <5>1. size > 0 /\ a.read = s.read + s.size
          BY <1>1, <3>1, <3>3, <3>5
        <5>2. Limit - (s.read + s.size) > 0
          BY <1>4, <5>1, LimitsType DEF Least
        <5> QED
          BY <1>4, <2>1, <5>2, LimitsType DEF Least
      <4>2. a.found = Before(b, a.status, a.start) /\ a.start \in 0 .. Len(b[Status[a.status]])
        <5>1. a.start = s.start + len
          BY <3>1, <3>2, <4>1
        <5>2. s.start + len \in 0 .. Len(list)
          BY <1>4, <2>4, <3>1
        <5> QED
          BY <2>3, <3>2, <5>1, <5>2 DEF list
      <4> QED
        BY <3>2, <3>3, <3>5, <4>2 DEF Sound
    <3> QED
      BY <3>4, <3>5
  <2> QED
    BY <2>6, <2>7
<1> QED
  BY <1>8, <1>9 DEF Sound

\* The bounds, and what the scan of every queue has found while nothing disturbs it.
StillSound ==
  /\ faults <= MaxFaults /\ moves <= MaxMoves
  /\ Quiet /\ faults = MaxFaults /\ ~cut
       => \A q \in ToSet(Queue) : Sound(lists[q], scan[q])

LEMMA SoundInit == Init => StillSound
<1> SUFFICES ASSUME Init PROVE StillSound
  OBVIOUS
<1>1. faults = MaxFaults /\ moves = MaxMoves /\ scan = [q \in ToSet(Queue) |-> Fresh]
  BY DEF Init, ListsInit, ScanInit
<1>2. MaxFaults \in Nat /\ MaxMoves \in Nat
  BY JobListsAssumption, PendingScanAssumption DEF JobListsAssumption, PendingScanAssumption
<1> QED
  BY <1>1, <1>2 DEF StillSound, Sound

LEMMA BeginSound ==
  ASSUME ScanInv, StillSound, Begin, UNCHANGED listVars
  PROVE  StillSound'
<1> DEFINE q == Queue[asked + 1]
           n == Asked(Fresh, left)
<1>1. asked + 1 \in 1 .. Len(Queue) /\ left \in Nat
  BY QueueType DEF ScanInv, ScanTypeOK, Begin, AllAsked
<1>2. q \in ToSet(Queue)
  BY <1>1, QueueType
<1>3. /\ scan' = [scan EXCEPT ![q] = n] /\ faults' = faults /\ cut' = (cut \/ Shortened(Fresh, left))
  BY DEF Begin
<1>4. lists' = lists /\ moves' = moves
  BY DEF listVars
<1> HIDE DEF q, n
<1>5. ASSUME Quiet, faults = MaxFaults, ~cut, ~Shortened(Fresh, left), NEW p \in ToSet(Queue)
      PROVE  Sound(lists[p], scan'[p])
  <2>1. Sound(lists[p], scan[p])
    BY <1>5 DEF StillSound
  <2>2. CASE p # q
    BY <1>3, <2>1, <2>2 DEF ScanInv, ScanTypeOK
  <2>3. CASE p = q
    <3> DEFINE size == Least(Page, Limit - Fresh.read)
    <3>1. Fresh.read <= Limit /\ Fresh.start = 0 /\ Fresh.found = {}
      BY FreshType, LimitsType DEF Fresh
    <3>2. n.partial \/ (/\ size > 0 /\ n.pc = "reads" /\ n.size = size /\ n.read = Fresh.read
                        /\ n.status = Fresh.status /\ n.start = Fresh.start /\ n.found = Fresh.found)
      BY <1>1, <1>5, <3>1, FreshType, AskedIs DEF n
    <3>3. lists[q] \in ByStatus
      BY <1>2 DEF ScanInv, ListsType, ByStatus
    <3>4. 1 \in 1 .. Len(Status) /\ 0 \in 0 .. Len(lists[q][Status[1]])
      <4>1. 1 \in 1 .. Len(Status) /\ Status[1] \in ToSet(Status)
        BY StatusType
      <4>2. lists[q][Status[1]] \in Seq(Job)
        BY <3>3, <4>1 DEF ByStatus
      <4> QED
        BY <4>1, <4>2
    <3>5. Before(lists[q], 1, 0) = {}
      BY <3>3, BeforeFirst
    <3>6. Sound(lists[q], n)
      BY <3>1, <3>2, <3>4, <3>5, FreshType DEF Sound
    <3>7. scan'[q] = n
      BY <1>2, <1>3 DEF ScanInv, ScanTypeOK
    <3> QED
      BY <2>3, <3>6, <3>7
  <2> QED
    BY <2>2, <2>3
<1> QED
  BY <1>3, <1>4, <1>5 DEF StillSound, Quiet

LEMMA ReadPageSound ==
  ASSUME ScanInv, StillSound, NEW q \in ToSet(Queue), ReadPage(q), UNCHANGED listVars
  PROVE  StillSound'
<1> DEFINE s == scan[q]
           b == lists[q]
           page == Slice(b[Status[s.status]], s.start, s.size)
           len == Len(page)
           a == After(s, page)
           budget == left + GivenBack(s, page)
           n == IF a.status > Len(Status) THEN [a EXCEPT !.pc = "done"] ELSE Asked(a, budget)
<1>1. /\ s.pc = "reads" /\ scan' = [scan EXCEPT ![q] = n] /\ faults' = faults
      /\ cut' = (cut \/ (a.status <= Len(Status) /\ Shortened(a, budget)))
  BY DEF ReadPage, Answer
<1>2. lists' = lists /\ moves' = moves
  BY DEF listVars
<1>3. s \in ScanRecord /\ s.read + Reserved(s) <= Limit /\ left \in Nat
  BY ScanOf
<1>4. b \in ByStatus
  BY DEF ScanInv, ListsType, ByStatus
<1>5. page \in Seq(Job) /\ len \in 0 .. s.size
  <2>1. s.status \in 1 .. Len(Status)
    <3>1. s.status \in Nat
      BY <1>3 DEF ScanRecord
    <3>2. s.pc = "reads"
      BY <1>1
    <3>3. s.status >= 1 /\ s.status <= Len(Status)
      BY <3>2 DEF ScanInv, AtStatus
    <3> QED
      BY <3>1, <3>3, StatusType
  <2>2. b[Status[s.status]] \in Seq(Job)
    BY <1>4, <2>1, StatusType DEF ByStatus
  <2> QED
    BY <1>3, <2>2, SliceType DEF ScanRecord
<1>6. page = Slice(b[Status[s.status]], s.start, s.size)
  OBVIOUS
<1>7. budget \in Nat /\ s.read + len <= Limit
  <2>1. Reserved(s) = s.size /\ s.size \in Nat /\ s.read \in Nat
    BY <1>1, <1>3 DEF Reserved, ScanRecord
  <2>2. GivenBack(s, page) = s.size - len
    BY DEF GivenBack
  <2> HIDE DEF s, page, len
  <2> QED
    BY <1>3, <1>5, <2>1, <2>2, LimitsType
<1>8. ASSUME Quiet, faults = MaxFaults, ~cut, ~(a.status <= Len(Status) /\ Shortened(a, budget)),
             NEW p \in ToSet(Queue)
      PROVE  Sound(lists[p], scan'[p])
  <2>1. Sound(lists[p], scan[p])
    BY <1>8 DEF StillSound
  <2>2. CASE p # q
    <3> HIDE DEF n
    <3> QED
      BY <1>1, <2>1, <2>2 DEF ScanInv, ScanTypeOK
  <2>3. CASE p = q
    <3>1. Sound(b, s)
      BY <2>1, <2>3
    <3>2. Sound(b, n)
      <4>1. /\ n = IF a.status > Len(Status) THEN [a EXCEPT !.pc = "done"] ELSE Asked(a, budget)
            /\ ~(a.status <= Len(Status) /\ Shortened(a, budget))
        BY <1>8
      <4>2. s.read + Len(page) <= Limit
        BY <1>7
      <4> HIDE DEF s, b, page, budget, n
      <4> QED
        BY <1>1, <1>3, <1>4, <1>5, <1>6, <1>7, <3>1, <4>1, <4>2, AnswerSound
    <3> HIDE DEF n
    <3>3. scan'[q] = n
      BY <1>1 DEF ScanInv, ScanTypeOK
    <3> QED
      BY <2>3, <3>2, <3>3
  <2> QED
    BY <2>2, <2>3
<1> HIDE DEF s, a, budget, n
<1> QED
  BY <1>1, <1>2, <1>8 DEF StillSound, Quiet

LEMMA StillUnchanged ==
  ASSUME StillSound, UNCHANGED scanVars, UNCHANGED listVars
  PROVE  StillSound'
  BY DEF StillSound, Quiet, scanVars, listVars

LEMMA SoundNext == ScanInv /\ StillSound /\ ListsOnce /\ [Next]_vars => StillSound'
<1> SUFFICES ASSUME ScanInv, StillSound, ListsOnce, [Next]_vars PROVE StillSound'
  OBVIOUS
<1>0. MaxFaults \in Nat /\ MaxMoves \in Nat /\ faults \in Nat /\ moves \in Nat
      /\ faults <= MaxFaults /\ moves <= MaxMoves
  BY JobListsAssumption, PendingScanAssumption DEF JobListsAssumption, PendingScanAssumption,
     ScanInv, ScanTypeOK, ListsType, StillSound
<1>1. CASE Scanning
  <2>1. UNCHANGED listVars
    BY <1>1 DEF Scanning
  <2>2. CASE Begin
    BY <2>1, <2>2, BeginSound
  <2>3. ASSUME NEW q \in ToSet(Queue), ReadPage(q)
        PROVE  StillSound'
    BY <2>1, <2>3, ReadPageSound
  <2>4. ASSUME NEW q \in ToSet(Queue), ReadFails(q)
        PROVE  StillSound'
    <3>1. faults' = faults - 1 /\ moves' = moves
      BY <2>1, <2>4 DEF ReadFails, listVars
    <3>2. faults' <= MaxFaults /\ faults' # MaxFaults /\ moves' <= MaxMoves
      BY <1>0, <3>1
    <3> QED
      BY <3>2 DEF StillSound
  <2> QED
    BY <1>1, <2>2, <2>3, <2>4 DEF Scanning, ScanNext
<1>2. CASE Searching
  BY <1>2, StillUnchanged DEF Searching
<1>3. CASE Changing
  <2>1. PICK q \in ToSet(Queue), s \in ToSet(Status), to \in ToSet(Status) \cup {"removed"} :
          \E i \in DOMAIN lists[q][s] : Move(q, s, i, to)
    BY <1>3 DEF Changing
  <2>2. moves' = moves - 1 /\ faults' = faults
    BY <1>3, <2>1 DEF Move, Changing, scanVars
  <2>3. moves' <= MaxMoves /\ moves' # MaxMoves /\ faults' <= MaxFaults
    BY <1>0, <2>2
  <2> QED
    BY <2>3 DEF StillSound, Quiet
<1>4. CASE UNCHANGED vars
  BY <1>4, StillUnchanged DEF vars
<1> QED
  BY <1>1, <1>2, <1>3, <1>4 DEF Next

-----------------------------------------------------------------------------
(* The theorems *)

QueueInv == ScanInv /\ SearchesInv /\ StillSound

LEMMA QueueInvHolds == Spec => []QueueInv
<1>1. Init => QueueInv
  BY InitInv, SearchInitInv, SoundInit DEF QueueInv, ScanInv, SearchesInv
<1>2. QueueInv /\ [Next]_vars => QueueInv'
  BY NextInv, SearchNextInv, SoundNext DEF QueueInv, SearchesInv
<1> QED
  BY <1>1, <1>2, PTL DEF Spec

\* The lists, the scan and the search keep their types.
THEOREM TypeCorrect == Spec => []TypeOK
<1>1. ScanInv /\ SearchesInv => TypeOK
  BY SearchLimits DEF ScanInv, SearchesInv, SearchInv, Plain, SearchRecord, ListsType, SearchTypeOK,
     TypeOK
<1> QED
  BY <1>1, QueueInvHolds, PTL DEF QueueInv

\* However the pages of any number of queues interleave, and whichever reads fail while the lists
\* change, a scan reads no more than the total, no queue more than its limit, and what is neither
\* read nor reserved is left for the others (_scanQueue).
THEOREM BudgetKeptHolds == Spec => []BudgetKept
<1>1. ScanInv => BudgetKept
  BY DEF ScanInv
<1> QED
  BY <1>1, QueueInvHolds, PTL DEF QueueInv

\* However the queues' pages interleave, and wherever the pages, the limit and the total lie, a
\* scan that read its pages whole, of lists that were still, has every pending job of the trace,
\* or one of its queues is flagged partial (_scanQueue).
THEOREM CompleteUnlessCutHolds == Spec => []CompleteUnlessCut
<1>1. ScanInv /\ StillSound => CompleteUnlessCut
  <2> SUFFICES ASSUME ScanInv, StillSound, Scanned, ~Flagged, Quiet, faults = MaxFaults, ~cut
               PROVE  Found = Pending
    BY DEF CompleteUnlessCut
  <2> DEFINE At(q, job) == \E s \in ToSet(Status) : job \in ToSet(lists[q][s])
  <2>1. ASSUME NEW q \in ToSet(Queue)
        PROVE  scan[q].status > Len(Status) /\ scan[q].found = Before(lists[q], scan[q].status, 0)
               /\ scan[q].status \in Nat
    <3>1. Sound(lists[q], scan[q])
      BY DEF StillSound
    <3>2. scan[q].pc = "done" /\ ~scan[q].partial
      BY DEF Scanned, Flagged
    <3>3. scan[q].status \in Nat
      BY ScanOf DEF ScanRecord
    <3> QED
      BY <3>1, <3>2, <3>3, FreshType DEF Sound
  <2>2. ASSUME NEW q \in ToSet(Queue), NEW job
        PROVE  job \in scan[q].found <=> job \in OfTrace /\ At(q, job)
    <3> DEFINE b == lists[q]
               n == scan[q].status
    <3>1. /\ Len(Status) \in Nat /\ n \in Nat /\ n > Len(Status) /\ scan[q].found = Before(b, n, 0)
          /\ b \in ByStatus
      BY <2>1, StatusType DEF ScanInv, ListsType, ByStatus
    <3> HIDE DEF n
    <3>2. ASSUME NEW m \in 1 .. Len(Status)
          PROVE  m < n /\ Status[m] \in ToSet(Status) /\ b[Status[m]] \in Seq(Job)
      BY <3>1, StatusType DEF ByStatus
    <3>3. job \in scan[q].found
            <=> job \in OfTrace /\ \E m \in 1 .. Len(Status) : \E i \in 1 .. Len(b[Status[m]]) :
                                     b[Status[m]][i] = job
      BY <3>1, <3>2 DEF Before
    <3>4. \A s \in ToSet(Status) : \E m \in 1 .. Len(Status) : Status[m] = s
      <4>1. Status \in Seq(Range(Status))
        BY JobListsAssumption DEF JobListsAssumption
      <4> QED
        BY <4>1 DEF ToSet
    <3>5. ASSUME NEW m \in 1 .. Len(Status)
          PROVE  job \in ToSet(b[Status[m]])
                   <=> \E i \in 1 .. Len(b[Status[m]]) : b[Status[m]][i] = job
      <4>1. DOMAIN b[Status[m]] = 1 .. Len(b[Status[m]])
        BY <3>2
      <4> QED
        BY <4>1 DEF ToSet
    <3>6. At(q, job) <=> \E m \in 1 .. Len(Status) : \E i \in 1 .. Len(b[Status[m]]) :
                           b[Status[m]][i] = job
      BY <3>2, <3>4, <3>5
    <3> QED
      BY <3>3, <3>6
  <2>3. \A job : job \in Found <=> \E q \in ToSet(Queue) : job \in scan[q].found
    BY DEF Found
  <2>4. \A job : job \in Pending <=> job \in OfTrace /\ \E q \in ToSet(Queue) : At(q, job)
    BY DEF Pending
  <2> HIDE DEF At
  <2>5. \A job : job \in Found <=> job \in Pending
    BY <2>2, <2>3, <2>4
  <2> QED
    BY <2>5
<1> QED
  BY <1>1, QueueInvHolds, PTL DEF QueueInv

\* Whatever a queue's jobs do while a search reads them in chunks of any size, a search of which
\* nothing failed gives the jobs that match, once each and in their order, up to as many as were
\* asked for; only jobs that were removed may be left out or be there without having matched
\* (PowerSearch.search).
THEOREM SearchExactHolds == Spec => []SearchExact
<1>1. SearchInv => SearchExact
  <2> SUFFICES ASSUME SearchInv, search.pc = "done", errors = MaxErrors
               PROVE  IF gone = {} THEN search.acc = Slice(Exact(search.ids), 0, Enough)
                      ELSE /\ IsInjective(search.acc)
                           /\ ToSet(search.acc) \subseteq
                                ToSet(search.ids) \cap (Matching \cup gone)
                           /\ Len(search.acc) < Enough
                                => ToSet(Exact(search.ids)) \ gone \subseteq ToSet(search.acc)
    BY DEF SearchExact
  <2>1. Faultless(search, gone) /\ Plain(search)
    BY DEF SearchInv
  <2>2. CASE gone = {}
    BY <2>1, <2>2 DEF Faultless
  <2>3. CASE gone # {}
    <3>1. search.ids \in Seq(Job)
      BY <2>1, KnownIs
    <3>2. Range(Exact(search.ids)) = Range(search.ids) \cap Matching
      BY <3>1, AmongRange DEF Exact
    <3>3. PICK rest \in Seq(Job) : search.ids = Known(search) \o rest
      BY <2>1, KnownIs
    <3>4. Range(Known(search)) \subseteq Range(search.ids)
      BY <2>1, <3>3, KnownIs, RangeConcatenation
    <3>5. IsInjective(search.acc)
          /\ Range(search.acc) \subseteq Range(search.ids) \cap (Matching \cup gone)
      BY <2>1, <3>4 DEF Faultless
    <3>6. ASSUME Len(search.acc) < Enough
          PROVE  Range(Exact(search.ids)) \ gone \subseteq Range(search.acc)
      BY <2>1, <3>2, <3>6 DEF Faultless, Covers
    <3> QED
      BY <2>3, <3>5, <3>6, ToSetIsRange
  <2> QED
    BY <2>2, <2>3
<1> QED
  BY <1>1, QueueInvHolds, PTL DEF QueueInv, SearchesInv
=============================================================================
