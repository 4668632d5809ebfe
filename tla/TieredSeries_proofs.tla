-------------------------- MODULE TieredSeries_proofs --------------------------
(* Theorems about the tiered retention, for every value of its constants. *)
EXTENDS TieredSeries, Sums_proofs, SequenceTheorems, FiniteSetTheorems

\* The counts of a list, as a function to sum.
Counts(list) == [i \in 1 .. Len(list) |-> list[i].count]

LEMMA CountsType ==
  ASSUME NEW list \in Seq(Point)
  PROVE  /\ Len(list) \in Nat
         /\ Counts(list) \in [1 .. Len(list) -> Nat] /\ Counts(list) \in [1 .. Len(list) -> Int]
         /\ Total(list) = SumTo(Len(list), Counts(list))
<1>1. \A i \in 1 .. Len(list) : list[i] \in Point
  OBVIOUS
<1>2. \A i \in 1 .. Len(list) : list[i].count \in Nat
  BY <1>1 DEF Point
<1>3. Counts(list) \in [1 .. Len(list) -> Nat] /\ Counts(list) \in [1 .. Len(list) -> Int]
  BY <1>2 DEF Counts
<1>4. Total(list) = SumTo(Len(list), Counts(list))
  BY DEF Counts, Total
<1> QED
  BY <1>3, <1>4

LEMMA TotalType ==
  ASSUME NEW list \in Seq(Point)
  PROVE  Total(list) \in Nat
  BY CountsType, SumToNat

LEMMA TotalEmpty == Total(<<>>) = 0
<1> DEFINE e == <<>>
<1>1. e \in Seq(Point) /\ Len(e) = 0
  OBVIOUS
<1> HIDE DEF e
<1>2. Counts(e) \in [1 .. 0 -> Int] /\ Total(e) = SumTo(0, Counts(e))
  BY <1>1, CountsType
<1>3. \A i \in 1 .. 0 : Counts(e)[i] = 0
  OBVIOUS
<1>4. SumTo(0, Counts(e)) = 0
  BY <1>2, <1>3, SumToZero
<1> QED
  BY <1>2, <1>4 DEF e

LEMMA TotalAppend ==
  ASSUME NEW list \in Seq(Point), NEW p \in Point
  PROVE  Append(list, p) \in Seq(Point) /\ Total(Append(list, p)) = Total(list) + p.count
<1> DEFINE n == Len(list)
           more == Append(list, p)
           f == Counts(list)
           g == Counts(more)
<1>1. n \in Nat /\ more \in Seq(Point) /\ Len(more) = n + 1
  OBVIOUS
<1>2. f \in [1 .. n -> Int] /\ Total(list) = SumTo(n, f)
  BY CountsType
<1>3. g \in [1 .. n + 1 -> Int] /\ Total(more) = SumTo(n + 1, g)
  <2> HIDE DEF more, n
  <2> QED
    BY <1>1, CountsType
<1>4. (\A i \in 1 .. n : more[i] = list[i]) /\ more[n + 1] = p
  OBVIOUS
<1>5. \A i \in 1 .. n : g[i] = f[i]
  BY <1>1, <1>4 DEF Counts
<1>6. g[n + 1] = p.count
  BY <1>1, <1>4 DEF Counts
<1> HIDE DEF n, more, f, g
<1> QED
  BY <1>1, <1>2, <1>3, <1>5, <1>6, SumToAppend DEF more

LEMMA TotalReplaceLast ==
  ASSUME NEW list \in Seq(Point), list # <<>>, NEW p \in Point
  PROVE  /\ [list EXCEPT ![Len(list)] = p] \in Seq(Point)
         /\ Total([list EXCEPT ![Len(list)] = p]) = Total(list) + p.count - list[Len(list)].count
<1> DEFINE n == Len(list)
           new == [list EXCEPT ![n] = p]
           f == Counts(list)
           g == Counts(new)
<1>1. n \in Nat /\ n \in 1 .. n /\ new \in Seq(Point) /\ Len(new) = n
  <2>1. n \in Nat /\ n # 0 /\ DOMAIN list = 1 .. n
    OBVIOUS
  <2>2. new \in Seq(Point) /\ Len(new) = n
    BY <2>1, ExceptSeq
  <2> QED
    BY <2>1, <2>2
<1>2. f \in [1 .. n -> Int] /\ Total(list) = SumTo(n, f)
  BY CountsType
<1>3. g \in [1 .. n -> Int] /\ Total(new) = SumTo(n, g)
  <2> HIDE DEF new, n
  <2> QED
    BY <1>1, CountsType
<1>4. \A i \in 1 .. n : i # n => new[i] = list[i]
  OBVIOUS
<1>5. new[n] = p
  BY <1>1
<1>6. \A i \in 1 .. n : i # n => g[i] = f[i]
  <2> HIDE DEF new
  <2> QED
    BY <1>1, <1>4 DEF Counts
<1>7. g[n] = p.count /\ f[n] = list[n].count
  BY <1>1, <1>5 DEF Counts
<1> HIDE DEF n, new, f, g
<1>8. SumTo(n, g) = SumTo(n, f) + g[n] - f[n]
  BY <1>1, <1>2, <1>3, <1>6, SumToChange
<1>9. Total(new) = Total(list) + p.count - list[n].count
  BY <1>2, <1>3, <1>7, <1>8
<1> QED
  BY <1>1, <1>9 DEF new, n

LEMMA TotalDropFirst ==
  ASSUME NEW list \in Seq(Point)
  PROVE  /\ DropFirst(list) \in Seq(Point)
         /\ Total(list) = Total(DropFirst(list)) + IF list = <<>> THEN 0 ELSE Head(list).count
<1>1. CASE list = <<>>
  BY <1>1, TotalEmpty DEF DropFirst
<1>2. CASE list # <<>>
  <2> DEFINE m == Len(list) - 1
             rest == Tail(list)
             f == Counts(list)
             g == Counts(rest)
  <2>1. /\ m \in Nat /\ Len(list) = m + 1 /\ rest \in Seq(Point) /\ Len(rest) = m
        /\ \A i \in 1 .. m : rest[i] = list[i + 1]
    BY <1>2
  <2>2. f \in [1 .. m + 1 -> Int] /\ Total(list) = SumTo(m + 1, f)
    BY <2>1, CountsType
  <2>3. g \in [1 .. m -> Int] /\ Total(rest) = SumTo(m, g)
    <3> HIDE DEF rest, m
    <3> QED
      BY <2>1, CountsType
  <2>4. \A i \in 1 .. m : g[i] = f[i + 1]
    BY <2>1 DEF Counts
  <2>5. f[1] = Head(list).count
    BY <1>2, <2>1 DEF Counts
  <2>6. DropFirst(list) = rest
    BY <1>2 DEF DropFirst
  <2> HIDE DEF m, rest, f, g
  <2>7. SumTo(m + 1, f) = f[1] + SumTo(m, g)
    BY <2>1, <2>2, <2>3, <2>4, SumToTail
  <2>8. SumTo(m, g) \in Int /\ f[1] \in Int
    BY <2>1, <2>2, <2>3, SumToType
  <2>9. Total(list) = Total(rest) + Head(list).count
    BY <2>2, <2>3, <2>5, <2>7, <2>8
  <2> QED
    BY <1>2, <2>1, <2>6, <2>9
<1> QED
  BY <1>1, <1>2

-----------------------------------------------------------------------------

LEMMA TierFacts ==
  /\ Tier = 1 .. Len(Tiers) /\ Len(Tiers) \in Nat
  /\ \A t \in Tier : Every(t) \in Nat \ {0} /\ Keep(t) \in Nat \ {0}
  /\ Raw \in Nat \ {0}
  /\ MaxTime \in Nat /\ MaxCount \in Nat /\ MaxFailures \in Nat /\ MaxClears \in Nat
<1>1. Tiers \in Seq([every : Nat \ {0}, keep : Nat \ {0}])
  BY TieredSeriesAssumption DEF TieredSeriesAssumption
<1>2. Tier = 1 .. Len(Tiers) /\ Len(Tiers) \in Nat
  BY <1>1 DEF Tier
<1>3. \A t \in Tier : Tiers[t] \in [every : Nat \ {0}, keep : Nat \ {0}]
  <2>1. \A t \in 1 .. Len(Tiers) : Tiers[t] \in [every : Nat \ {0}, keep : Nat \ {0}]
    BY <1>1, ElementOfSeq, Zenon
  <2> QED
    BY <1>2, <2>1
<1>4. \A t \in Tier : Every(t) \in Nat \ {0} /\ Keep(t) \in Nat \ {0}
  BY <1>3 DEF Every, Keep
<1> QED
  BY <1>2, <1>4, TieredSeriesAssumption DEF TieredSeriesAssumption

\* A bucket starts at a time, and never after the point it is for.
LEMMA BucketOfType ==
  ASSUME NEW n \in Nat, NEW e \in Nat \ {0}
  PROVE  bucketOf(n, e) \in Nat
<1>1. n \div e \in Nat
  OBVIOUS
<1> DEFINE q == n \div e
<1> HIDE DEF q
<1>2. q \in Nat => q * e \in Nat
  OBVIOUS
<1> QED
  BY <1>1, <1>2 DEF bucketOf, q

LEMMA MergeType ==
  ASSUME NEW b \in Point, NEW p \in Point
  PROVE  Merge(b, p) \in Point /\ Merge(b, p).count = b.count + p.count
  BY DEF Merge, Point

-----------------------------------------------------------------------------

LEMMA AppendingFields ==
  ASSUME NEW s \in Appending
  PROVE  /\ s.point \in Point /\ s.tail \in Seq(Point) /\ s.tier \in 0 .. Len(Tiers)
         /\ s.long \in BOOLEAN
         /\ s.pc \in {"read", "write", "trim"} <=> s.tier # 0
         /\ s.pc \in {"push", "trimRaw", "read", "write", "trim"}
  BY DEF Appending

LEMMA AppendingMoves ==
  ASSUME NEW s \in Appending
  PROVE  /\ \A b \in BOOLEAN : s.pc = "push" => [s EXCEPT !.pc = "trimRaw", !.long = b] \in Appending
         /\ \A t \in 1 .. Len(Tiers) : [s EXCEPT !.pc = "read", !.tier = t] \in Appending
         /\ \A x \in Seq(Point) : s.pc = "read" => [s EXCEPT !.pc = "write", !.tail = x] \in Appending
         /\ s.pc = "write" => [s EXCEPT !.pc = "trim"] \in Appending
<1> DEFINE R == [pc : {"push", "trimRaw", "read", "write", "trim"}, tier : 0 .. Len(Tiers),
                 point : Point, tail : Seq(Point), long : BOOLEAN]
<1>1. /\ s \in R /\ (s.pc \in {"read", "write", "trim"} <=> s.tier # 0)
      /\ \A r \in R : (r.pc \in {"read", "write", "trim"} <=> r.tier # 0) => r \in Appending
  BY DEF Appending
<1>2. ASSUME NEW b \in BOOLEAN, s.pc = "push"
      PROVE  [s EXCEPT !.pc = "trimRaw", !.long = b] \in Appending
  <2> DEFINE r == [s EXCEPT !.pc = "trimRaw", !.long = b]
  <2>1. r \in R /\ r.pc = "trimRaw" /\ r.tier = s.tier
    BY <1>1
  <2> QED
    BY <1>1, <1>2, <2>1
<1>3. ASSUME NEW t \in 1 .. Len(Tiers)
      PROVE  [s EXCEPT !.pc = "read", !.tier = t] \in Appending
  <2> DEFINE r == [s EXCEPT !.pc = "read", !.tier = t]
  <2>1. t \in 0 .. Len(Tiers) /\ t # 0
    BY TierFacts
  <2>2. r \in R /\ r.pc = "read" /\ r.tier = t
    BY <1>1, <2>1
  <2> QED
    BY <1>1, <2>1, <2>2
<1>4. ASSUME NEW x \in Seq(Point), s.pc = "read"
      PROVE  [s EXCEPT !.pc = "write", !.tail = x] \in Appending
  <2> DEFINE r == [s EXCEPT !.pc = "write", !.tail = x]
  <2>1. r \in R /\ r.pc = "write" /\ r.tier = s.tier
    BY <1>1
  <2> QED
    BY <1>1, <1>4, <2>1
<1>5. ASSUME s.pc = "write"
      PROVE  [s EXCEPT !.pc = "trim"] \in Appending
  <2> DEFINE r == [s EXCEPT !.pc = "trim"]
  <2>1. r \in R /\ r.pc = "trim" /\ r.tier = s.tier
    BY <1>1
  <2> QED
    BY <1>1, <1>5, <2>1
<1> QED
  BY <1>2, <1>3, <1>4, <1>5

WriterType == writer \in [Writer -> Appending \cup {Idle}]
ListsType == raw \in Seq(Point) /\ rollup \in [Tier -> Seq(Point)]
ClockType ==
  /\ now \in 0 .. MaxTime /\ stamped \in [Writer -> -1 .. now]
  /\ clearing \in -1 .. Len(Tiers)
  /\ failures \in Nat /\ clears \in Nat
HistoryType == folded \in [Tier -> Nat] /\ popped \in [Tier -> Nat]

LEMMA TypeParts == TypeOK <=> WriterType /\ ListsType /\ ClockType /\ HistoryType
  BY DEF TypeOK, WriterType, ListsType, ClockType, HistoryType

\* A writer at a call is appending.
LEMMA AtCall ==
  ASSUME WriterType, NEW w \in Writer, writer[w] # Idle
  PROVE  writer[w] \in Appending
  BY DEF WriterType

LEMMA PcIsBusy ==
  ASSUME NEW w \in Writer, writer[w].pc \in {"push", "trimRaw", "read", "write", "trim"}
  PROVE  writer[w] # Idle
  BY DEF Idle

LEMMA UpdateType ==
  ASSUME WriterType, NEW w \in Writer, NEW s \in Appending \cup {Idle}, Update(w, s)
  PROVE  /\ WriterType' /\ writer'[w] = s
         /\ \A v \in Writer : v # w => writer'[v] = writer[v]
  BY DEF WriterType, Update

\* Moving on to the next tier, or to the end of the append.
LEMMA NextTierType ==
  ASSUME WriterType, NEW w \in Writer, writer[w] \in Appending, NEW t \in 0 .. Len(Tiers),
         NextTier(w, t)
  PROVE  /\ WriterType' /\ writer'[w].pc # "write" /\ writer'[w].pc # "trim"
         /\ \A v \in Writer : v # w => writer'[v] = writer[v]
<1> DEFINE s == writer[w]
           r == [s EXCEPT !.pc = "read", !.tier = t + 1]
<1>1. CASE t + 1 \in Tier
  <2>1. r \in Appending
    BY <1>1, AppendingMoves, TierFacts
  <2>2. Update(w, r)
    BY <1>1 DEF NextTier
  <2>3. r.pc = "read"
    BY DEF Appending
  <2> HIDE DEF r
  <2> QED
    BY <2>1, <2>2, <2>3, UpdateType
<1>2. CASE t + 1 \notin Tier
  <2>1. Update(w, Idle) /\ Idle.pc = "idle"
    BY <1>2 DEF NextTier, Idle
  <2> QED
    BY <2>1, UpdateType
<1> QED
  BY <1>1, <1>2

LEMMA TypeInit == Init => TypeOK
<1> SUFFICES ASSUME Init PROVE TypeOK
  OBVIOUS
<1>1. WriterType /\ ListsType
  BY DEF Init, WriterType, ListsType
<1>2. ClockType
  BY TierFacts DEF Init, ClockType
<1>3. HistoryType
  BY DEF Init, HistoryType
<1> QED
  BY <1>1, <1>2, <1>3, TypeParts

-----------------------------------------------------------------------------

\* The collector of one process appends to the series, one tick after another.
OneWriter == \A v, w \in Writer : v = w

\* What a writer knows of the tail when it writes: it is the tail, unless a clear came between.
TailInv ==
  \A w \in Writer : writer[w].pc = "write" =>
    \/ rollup[writer[w].tier] = <<>>
    \/ writer[w].tail = <<Last(rollup[writer[w].tier])>>

LEMMA NotWriting ==
  ASSUME OneWriter, NEW w \in Writer, writer'[w].pc # "write"
  PROVE  TailInv'
  BY DEF OneWriter, TailInv

LEMMA SameRollups ==
  ASSUME RollupConserves, UNCHANGED <<rollup, history>>
  PROVE  RollupConserves'
  BY DEF RollupConserves, history

LEMMA StampKeeps ==
  ASSUME TypeOK, NEW w \in Writer, Stamp(w)
  PROVE  TypeOK' /\ (OneWriter /\ TailInv /\ RollupConserves => TailInv' /\ RollupConserves')
<1>1. WriterType /\ ListsType /\ ClockType /\ HistoryType
  BY TypeParts
<1>2. PICK n \in 0 .. MaxCount :
        Update(w, [pc |-> "push", tier |-> 0, point |-> [timestamp |-> now, count |-> n],
                   tail |-> <<>>, long |-> FALSE])
  BY DEF Stamp
<1> DEFINE s == [pc |-> "push", tier |-> 0, point |-> [timestamp |-> now, count |-> n],
                 tail |-> <<>>, long |-> FALSE]
<1>3. s \in Appending /\ s.pc = "push"
  <2>1. [timestamp |-> now, count |-> n] \in Point
    BY <1>1, TierFacts DEF Point, ClockType
  <2>2. 0 \in 0 .. Len(Tiers)
    BY TierFacts
  <2> QED
    BY <2>1, <2>2 DEF Appending
<1> HIDE DEF s
<1>4. WriterType' /\ writer'[w].pc # "write"
  BY <1>1, <1>2, <1>3, UpdateType DEF s
<1>5. stamped' \in [Writer -> -1 .. now] /\ now' = now
  BY <1>1, TierFacts DEF Stamp, ClockType
<1>6. UNCHANGED <<raw, rollup, folded, popped, clearing, failures, clears>>
  BY DEF Stamp, lists, history
<1>7. TypeOK'
  BY <1>1, <1>4, <1>5, <1>6, TypeParts DEF TypeOK, WriterType, ListsType, ClockType, HistoryType
<1> QED
  BY <1>4, <1>6, <1>7, NotWriting, SameRollups DEF history

LEMMA RawKeeps ==
  ASSUME TypeOK, NEW w \in Writer, PushRaw(w) \/ TrimRaw(w)
  PROVE  TypeOK' /\ (OneWriter /\ TailInv /\ RollupConserves => TailInv' /\ RollupConserves')
<1> DEFINE s == writer[w]
<1>1. WriterType /\ ListsType /\ ClockType /\ HistoryType
  BY TypeParts
<1>2. s \in Appending
  BY <1>1, PcIsBusy, AtCall DEF PushRaw, TrimRaw
<1>3. UNCHANGED <<now, rollup, folded, popped, clearing, failures, clears, stamped>>
  BY DEF PushRaw, TrimRaw, history
<1>4. WriterType' /\ writer'[w].pc # "write" /\ raw' \in Seq(Point)
  <2>1. CASE PushRaw(w)
    <3> DEFINE b == Len(raw') > Raw
               r == [s EXCEPT !.pc = "trimRaw", !.long = b]
    <3>1. b \in BOOLEAN /\ s.pc = "push" /\ raw' = Append(raw, s.point) /\ Update(w, r)
      BY <2>1 DEF PushRaw
    <3> HIDE DEF b
    <3>2. r \in Appending /\ r.pc = "trimRaw"
      BY <1>2, <3>1, AppendingMoves DEF Appending
    <3>3. raw' \in Seq(Point)
      BY <1>1, <1>2, <3>1, AppendingFields DEF ListsType
    <3> HIDE DEF r
    <3> QED
      BY <1>1, <3>1, <3>2, <3>3, UpdateType
  <2>2. CASE TrimRaw(w)
    <3>1. NextTier(w, 0) /\ 0 \in 0 .. Len(Tiers)
      BY <2>2, TierFacts DEF TrimRaw
    <3>2. raw' \in Seq(Point)
      BY <1>1, <2>2, TotalDropFirst DEF TrimRaw, ListsType
    <3> QED
      BY <1>1, <1>2, <3>1, <3>2, NextTierType
  <2> QED
    BY <2>1, <2>2
<1>5. TypeOK'
  BY <1>1, <1>3, <1>4, TypeParts DEF TypeOK, WriterType, ListsType, ClockType, HistoryType
<1> QED
  BY <1>3, <1>4, <1>5, NotWriting, SameRollups DEF history

LEMMA ReadTailKeeps ==
  ASSUME TypeOK, NEW w \in Writer, ReadTail(w)
  PROVE  TypeOK' /\ (OneWriter /\ TailInv /\ RollupConserves => TailInv' /\ RollupConserves')
<1> DEFINE s == writer[w]
           list == rollup[s.tier]
           x == IF list = <<>> THEN <<>> ELSE <<Last(list)>>
           r == [s EXCEPT !.pc = "write", !.tail = x]
<1>1. WriterType /\ ListsType /\ ClockType /\ HistoryType
  BY TypeParts
<1>2. s \in Appending /\ s.pc = "read" /\ Update(w, r)
  BY <1>1, PcIsBusy, AtCall DEF ReadTail
<1>3. UNCHANGED <<now, raw, rollup, folded, popped, clearing, failures, clears, stamped>>
  BY DEF ReadTail, history, lists
<1>4. s.tier \in Tier
  BY <1>2, AppendingFields, TierFacts
<1>5. list \in Seq(Point)
  BY <1>1, <1>4 DEF ListsType
<1>6. x \in Seq(Point)
  <2> HIDE DEF list
  <2>1. list # <<>> => Last(list) \in Point
    BY <1>5 DEF Last
  <2> QED
    BY <2>1
<1>7. r \in Appending
  <2> HIDE DEF x
  <2> QED
    BY <1>2, <1>6, AppendingMoves
<1>8. r.pc = "write" /\ r.tail = x /\ r.tier = s.tier
  BY <1>2 DEF Appending
<1>9. WriterType' /\ writer'[w] = r
  <2> HIDE DEF r
  <2> QED
    BY <1>1, <1>2, <1>7, UpdateType
<1>10. TypeOK'
  BY <1>1, <1>3, <1>9, TypeParts DEF TypeOK, WriterType, ListsType, ClockType, HistoryType
<1>11. ASSUME OneWriter
       PROVE  TailInv'
  <2>1. rollup'[writer'[w].tier] = list /\ writer'[w].tail = x
    <3> HIDE DEF r, x
    <3> QED
      BY <1>3, <1>8, <1>9
  <2>2. rollup'[writer'[w].tier] = <<>> \/ writer'[w].tail = <<Last(rollup'[writer'[w].tier])>>
    BY <2>1
  <2>3. \A v \in Writer : v = w
    BY <1>11 DEF OneWriter
  <2> QED
    BY <2>2, <2>3 DEF TailInv
<1> QED
  BY <1>3, <1>10, <1>11, SameRollups DEF history

\* A step that changes the list of one tier, and accounts for what it changes.
LEMMA OneTierConserves ==
  ASSUME ListsType, HistoryType, NEW t \in Tier, NEW new \in Seq(Point), NEW f \in Nat, NEW p \in Nat,
         rollup' = [rollup EXCEPT ![t] = new],
         folded' = [folded EXCEPT ![t] = f], popped' = [popped EXCEPT ![t] = p],
         RollupConserves => Total(new) + p = f
  PROVE  /\ rollup' \in [Tier -> Seq(Point)] /\ HistoryType'
         /\ RollupConserves => RollupConserves'
<1>1. rollup' \in [Tier -> Seq(Point)]
  BY DEF ListsType
<1>2. HistoryType'
  BY DEF HistoryType
<1>3. ASSUME RollupConserves, NEW u \in Tier
      PROVE  Total(rollup'[u]) + popped'[u] = folded'[u]
  <2>1. CASE u = t
    <3>1. rollup'[u] = new /\ popped'[u] = p /\ folded'[u] = f
      BY <2>1 DEF ListsType, HistoryType
    <3> QED
      BY <1>3, <3>1
  <2>2. CASE u # t
    <3>1. rollup'[u] = rollup[u] /\ popped'[u] = popped[u] /\ folded'[u] = folded[u]
      BY <2>2 DEF ListsType, HistoryType
    <3> QED
      BY <1>3, <3>1 DEF RollupConserves
  <2> QED
    BY <2>1, <2>2
<1> QED
  BY <1>1, <1>2, <1>3 DEF RollupConserves

\* A function changed where it already had the value is the function.
LEMMA SameValue ==
  ASSUME NEW S, NEW T, NEW f \in [S -> T], NEW x \in S
  PROVE  f = [f EXCEPT ![x] = f[x]]
  OBVIOUS

LEMMA SetTailKeeps ==
  ASSUME TypeOK, NEW w \in Writer, SetTail(w)
  PROVE  TypeOK' /\ (OneWriter /\ TailInv /\ RollupConserves => TailInv' /\ RollupConserves')
<1> DEFINE s == writer[w]
           t == s.tier
           list == rollup[t]
<1>1. WriterType /\ ListsType /\ ClockType /\ HistoryType
  BY TypeParts
<1>2. s \in Appending /\ s.pc = "write" /\ s.tail # <<>>
  BY <1>1, PcIsBusy, AtCall DEF SetTail, TailIsOpen
<1>3. t \in Tier /\ list \in Seq(Point) /\ t \in 0 .. Len(Tiers)
  BY <1>1, <1>2, AppendingFields, TierFacts DEF ListsType
<1>4. UNCHANGED <<now, raw, clearing, failures, clears, popped, stamped>>
  BY DEF SetTail
<1>5. CASE list # <<>> /\ NextTier(w, t)
           /\ rollup' = [rollup EXCEPT ![t][Len(list)] = Merge(s.tail[1], s.point)]
           /\ CountFolded(w)
  <2> DEFINE bucket == Merge(s.tail[1], s.point)
             new == [list EXCEPT ![Len(list)] = bucket]
             f == folded[t] + s.point.count
  <2>1. s.point \in Point /\ s.tail \in Seq(Point)
    BY <1>2, AppendingFields
  <2>2. s.tail[1] \in Point
    BY <1>2, <2>1
  <2>3. bucket \in Point /\ bucket.count = s.tail[1].count + s.point.count
    BY <2>1, <2>2, MergeType
  <2>4. rollup' = [rollup EXCEPT ![t] = new]
    BY <1>1, <1>3, <1>5 DEF ListsType
  <2>5. folded' = [folded EXCEPT ![t] = f]
    BY <1>5 DEF CountFolded
  <2>6. f \in Nat /\ popped[t] \in Nat /\ popped' = [popped EXCEPT ![t] = popped[t]]
    BY <1>1, <1>3, <1>4, <2>1 DEF HistoryType, Point
  <2>7. /\ WriterType' /\ writer'[w].pc # "write"
    BY <1>1, <1>2, <1>3, <1>5, NextTierType
  <2> HIDE DEF bucket
  <2>8. new \in Seq(Point) /\ Total(new) = Total(list) + bucket.count - list[Len(list)].count
    BY <1>3, <1>5, <2>3, TotalReplaceLast
  <2>9. rollup' \in [Tier -> Seq(Point)] /\ HistoryType'
    <3> HIDE DEF new, f
    <3>1. rollup' \in [Tier -> Seq(Point)]
      BY <1>1, <1>3, <2>4, <2>8 DEF ListsType
    <3>2. HistoryType'
      BY <1>1, <1>3, <1>4, <2>5, <2>6 DEF HistoryType
    <3> QED
      BY <3>1, <3>2
  <2>10. TypeOK'
    BY <1>1, <1>4, <2>7, <2>9, TypeParts DEF TypeOK, WriterType, ListsType, ClockType, HistoryType
  <2>11. ASSUME OneWriter, TailInv, RollupConserves
         PROVE  TailInv' /\ RollupConserves'
    <3>1. s.tail = <<Last(list)>>
      BY <1>2, <1>5, <2>11 DEF TailInv
    <3>2. s.tail[1] = list[Len(list)]
      BY <3>1 DEF Last
    <3>3. list[Len(list)].count \in Nat /\ s.point.count \in Nat /\ Total(list) \in Nat
      BY <1>3, <2>1, <2>2, <3>2, TotalType DEF Point
    <3>4. Total(new) = Total(list) + s.point.count
      BY <2>3, <2>8, <3>2, <3>3
    <3>5. Total(list) + popped[t] = folded[t]
      BY <1>3, <2>11 DEF RollupConserves
    <3>6. Total(new) + popped[t] = f
      <4>1. folded[t] \in Nat
        BY <1>1, <1>3 DEF HistoryType
      <4>2. popped[t] \in Nat
        BY <2>6
      <4> DEFINE a == Total(list)
                 b == s.point.count
                 c == popped[t]
                 d == folded[t]
                 e == Total(new)
      <4>3. a \in Nat /\ b \in Nat /\ c \in Nat /\ d \in Nat
        BY <3>3, <4>1, <4>2
      <4>4. e = a + b
        BY <3>4
      <4>5. a + c = d
        BY <3>5
      <4>6. f = d + b
        OBVIOUS
      <4> HIDE DEF a, b, c, d, e, f
      <4>7. e + c = f
        BY <4>3, <4>4, <4>5, <4>6
      <4> QED
        BY <4>7 DEF e, c
    <3> HIDE DEF new, f
    <3>7. RollupConserves'
      BY <1>1, <1>3, <2>4, <2>5, <2>6, <2>8, <2>11, <3>6, OneTierConserves
    <3> QED
      BY <2>7, <2>11, <3>7, NotWriting
  <2> QED
    BY <2>10, <2>11
<1>6. CASE Update(w, Idle) /\ UNCHANGED <<rollup, folded>>
  <2>1. WriterType' /\ writer'[w].pc # "write"
    <3>1. Idle.pc # "write"
      BY DEF Idle
    <3> QED
      BY <1>1, <1>6, <3>1, UpdateType
  <2>2. TypeOK'
    BY <1>1, <1>4, <1>6, <2>1, TypeParts DEF TypeOK, WriterType, ListsType, ClockType, HistoryType
  <2> QED
    BY <1>4, <1>6, <2>1, <2>2, NotWriting, SameRollups DEF history
<1> QED
  BY <1>5, <1>6 DEF SetTail

LEMMA PushBucketKeeps ==
  ASSUME TypeOK, NEW w \in Writer, PushBucket(w)
  PROVE  TypeOK' /\ (OneWriter /\ TailInv /\ RollupConserves => TailInv' /\ RollupConserves')
<1> DEFINE s == writer[w]
           t == s.tier
           list == rollup[t]
           bucket == [s.point EXCEPT !.timestamp = bucketOf(@, Every(s.tier))]
           new == Append(list, bucket)
           f == folded[t] + s.point.count
<1>1. WriterType /\ ListsType /\ ClockType /\ HistoryType
  BY TypeParts
<1>2. s \in Appending /\ s.pc = "write"
  BY <1>1, PcIsBusy, AtCall DEF PushBucket
<1>3. t \in Tier /\ list \in Seq(Point) /\ t \in 0 .. Len(Tiers) /\ s.point \in Point
  BY <1>1, <1>2, AppendingFields, TierFacts DEF ListsType
<1>4. UNCHANGED <<now, raw, clearing, failures, clears, popped, stamped>>
  BY DEF PushBucket
<1>5. rollup' = [rollup EXCEPT ![t] = new] /\ folded' = [folded EXCEPT ![t] = f]
  BY <1>1, <1>3 DEF PushBucket, CountFolded, ListsType
<1>6. bucket \in Point /\ bucket.count = s.point.count
  <2>1. bucketOf(s.point.timestamp, Every(t)) \in Nat
    BY <1>3, TierFacts, BucketOfType DEF Point
  <2> QED
    BY <1>3, <2>1 DEF Point
<1>7. f \in Nat /\ popped[t] \in Nat /\ popped' = [popped EXCEPT ![t] = popped[t]]
  BY <1>1, <1>3, <1>4 DEF HistoryType, Point
<1>8. WriterType' /\ writer'[w].pc # "write"
  <2>1. CASE Update(w, [s EXCEPT !.pc = "trim"])
    <3> DEFINE r == [s EXCEPT !.pc = "trim"]
    <3>1. r \in Appending /\ r.pc = "trim"
      BY <1>2, AppendingMoves DEF Appending
    <3> HIDE DEF r
    <3>2. Update(w, r)
      BY <2>1 DEF r
    <3> QED
      BY <1>1, <3>1, <3>2, UpdateType
  <2>2. CASE NextTier(w, t)
    BY <1>1, <1>2, <1>3, <2>2, NextTierType
  <2> QED
    BY <2>1, <2>2 DEF PushBucket
<1> HIDE DEF bucket
<1>9. new \in Seq(Point) /\ Total(new) = Total(list) + s.point.count
  BY <1>3, <1>6, TotalAppend
<1>10. RollupConserves => Total(new) + popped[t] = f
  <2> SUFFICES ASSUME RollupConserves PROVE Total(new) + popped[t] = f
    OBVIOUS
  <2>1. Total(list) + popped[t] = folded[t]
    BY <1>3 DEF RollupConserves
  <2>2. Total(list) \in Nat /\ s.point.count \in Nat /\ folded[t] \in Nat
    BY <1>1, <1>3, TotalType DEF HistoryType, Point
  <2> QED
    BY <1>7, <1>9, <2>1, <2>2
<1> HIDE DEF new, f
<1>11. rollup' \in [Tier -> Seq(Point)] /\ HistoryType' /\ (RollupConserves => RollupConserves')
  BY <1>1, <1>3, <1>5, <1>7, <1>9, <1>10, OneTierConserves
<1>12. TypeOK'
  BY <1>1, <1>4, <1>8, <1>11, TypeParts DEF TypeOK, WriterType, ListsType, ClockType, HistoryType
<1> QED
  BY <1>8, <1>11, <1>12, NotWriting

LEMMA TrimTierKeeps ==
  ASSUME TypeOK, NEW w \in Writer, TrimTier(w)
  PROVE  TypeOK' /\ (OneWriter /\ TailInv /\ RollupConserves => TailInv' /\ RollupConserves')
<1> DEFINE s == writer[w]
           t == s.tier
           list == rollup[t]
           new == DropFirst(list)
           p == popped[t] + IF list = <<>> THEN 0 ELSE Head(list).count
<1>1. WriterType /\ ListsType /\ ClockType /\ HistoryType
  BY TypeParts
<1>2. s \in Appending /\ s.pc = "trim"
  BY <1>1, PcIsBusy, AtCall DEF TrimTier
<1>3. t \in Tier /\ list \in Seq(Point) /\ t \in 0 .. Len(Tiers)
  BY <1>1, <1>2, AppendingFields, TierFacts DEF ListsType
<1>4. UNCHANGED <<now, raw, clearing, failures, clears, folded, stamped>>
  BY DEF TrimTier
<1>5. rollup' = [rollup EXCEPT ![t] = new] /\ popped' = [popped EXCEPT ![t] = p]
  BY <1>1, <1>3 DEF TrimTier, ListsType, HistoryType
<1>6. new \in Seq(Point) /\ Total(list) = Total(new) + IF list = <<>> THEN 0 ELSE Head(list).count
  BY <1>3, TotalDropFirst
<1>7. p \in Nat /\ folded[t] \in Nat /\ folded' = [folded EXCEPT ![t] = folded[t]]
  <2>1. list # <<>> => Head(list) \in Point
    BY <1>3
  <2>2. p \in Nat
    <3> DEFINE h == IF list = <<>> THEN 0 ELSE Head(list).count
    <3>1. popped[t] \in Nat
      BY <1>1, <1>3 DEF HistoryType
    <3>2. h \in Nat
      BY <2>1 DEF Point
    <3> HIDE DEF h
    <3>3. popped[t] + h \in Nat
      BY <3>1, <3>2
    <3> QED
      BY <3>3 DEF h
  <2> HIDE DEF p
  <2> QED
    BY <1>1, <1>3, <1>4, <2>2 DEF HistoryType
<1>8. WriterType' /\ writer'[w].pc # "write"
  BY <1>1, <1>2, <1>3, NextTierType DEF TrimTier
<1>9. RollupConserves => Total(new) + p = folded[t]
  <2> SUFFICES ASSUME RollupConserves PROVE Total(new) + p = folded[t]
    OBVIOUS
  <2> DEFINE h == IF list = <<>> THEN 0 ELSE Head(list).count
  <2>1. Total(list) + popped[t] = folded[t]
    BY <1>3 DEF RollupConserves
  <2>2. Total(list) \in Nat /\ Total(new) \in Nat /\ popped[t] \in Nat
    BY <1>1, <1>3, <1>6, TotalType DEF HistoryType
  <2>3. h \in Nat
    <3>1. list # <<>> => Head(list) \in Point
      BY <1>3
    <3> QED
      BY <3>1 DEF Point
  <2>4. p = popped[t] + h /\ Total(list) = Total(new) + h
    BY <1>6
  <2> HIDE DEF h, p, new, list
  <2> QED
    BY <2>1, <2>2, <2>3, <2>4
<1> HIDE DEF new, p
<1>10. rollup' \in [Tier -> Seq(Point)] /\ HistoryType' /\ (RollupConserves => RollupConserves')
  BY <1>1, <1>3, <1>5, <1>6, <1>7, <1>9, OneTierConserves
<1>11. TypeOK'
  BY <1>1, <1>4, <1>8, <1>10, TypeParts DEF TypeOK, WriterType, ListsType, ClockType, HistoryType
<1> QED
  BY <1>8, <1>10, <1>11, NotWriting

LEMMA AbandonKeeps ==
  ASSUME TypeOK, NEW w \in Writer, Abandon(w)
  PROVE  TypeOK' /\ (OneWriter /\ TailInv /\ RollupConserves => TailInv' /\ RollupConserves')
<1>1. WriterType /\ ListsType /\ ClockType /\ HistoryType
  BY TypeParts
<1>2. WriterType' /\ writer'[w].pc # "write"
  <2>1. Idle.pc # "write"
    BY DEF Idle
  <2> QED
    BY <1>1, <2>1, UpdateType DEF Abandon
<1>3. UNCHANGED <<now, raw, rollup, clearing, clears, folded, popped, stamped>> /\ failures' \in Nat
  BY <1>1 DEF Abandon, lists, history, ClockType
<1>4. TypeOK'
  BY <1>1, <1>2, <1>3, TypeParts DEF TypeOK, WriterType, ListsType, ClockType, HistoryType
<1> QED
  BY <1>2, <1>3, <1>4, NotWriting, SameRollups DEF history

LEMMA ClockKeeps ==
  ASSUME TypeOK, Elapse \/ Clear
  PROVE  TypeOK' /\ (OneWriter /\ TailInv /\ RollupConserves => TailInv' /\ RollupConserves')
<1>1. WriterType /\ ListsType /\ ClockType /\ HistoryType
  BY TypeParts
<1>2. UNCHANGED <<raw, rollup, writer, folded, popped>>
  BY DEF Elapse, Clear, lists, history
<1>3. ClockType'
  <2>1. CASE Elapse
    <3>1. now' \in 0 .. MaxTime /\ UNCHANGED <<stamped, clearing, failures, clears>>
      BY <1>1, <2>1, TierFacts DEF Elapse, ClockType
    <3>2. \A w \in Writer : stamped[w] \in -1 .. now'
      BY <1>1, <2>1, TierFacts DEF Elapse, ClockType
    <3> QED
      BY <1>1, <3>1, <3>2 DEF ClockType
  <2>2. CASE Clear
    BY <1>1, <2>2, TierFacts DEF Clear, ClockType
  <2> QED
    BY <2>1, <2>2
<1>4. TypeOK'
  BY <1>1, <1>2, <1>3, TypeParts DEF TypeOK, WriterType, ListsType, ClockType, HistoryType
<1>5. TailInv => TailInv'
  BY <1>2 DEF TailInv
<1> QED
  BY <1>2, <1>4, <1>5, SameRollups DEF history

\* A clear empties a list, and starts its accounts again.
LEMMA DeleteKeyKeeps ==
  ASSUME TypeOK, DeleteKey
  PROVE  TypeOK' /\ (TailInv /\ RollupConserves => TailInv' /\ RollupConserves')
<1>1. WriterType /\ ListsType /\ ClockType /\ HistoryType
  BY TypeParts
<1>2. UNCHANGED <<now, writer, failures, clears, stamped>> /\ clearing' \in -1 .. Len(Tiers)
  BY <1>1, TierFacts DEF DeleteKey, ClockType
<1>3. CASE clearing = 0
  <2>1. raw' = <<>> /\ UNCHANGED <<rollup, folded, popped>>
    BY <1>3 DEF DeleteKey, history
  <2>2. TypeOK'
    BY <1>1, <1>2, <2>1, TypeParts DEF TypeOK, WriterType, ListsType, ClockType, HistoryType
  <2>3. TailInv => TailInv'
    BY <1>2, <2>1 DEF TailInv
  <2> QED
    BY <2>1, <2>2, <2>3, SameRollups DEF history
<1>4. CASE clearing # 0
  <2> DEFINE e == <<>>
  <2>1. clearing \in Tier
    BY <1>1, <1>4, TierFacts DEF DeleteKey, ClockType
  <2>2. /\ rollup' = [rollup EXCEPT ![clearing] = e] /\ raw' = raw
        /\ folded' = [folded EXCEPT ![clearing] = 0] /\ popped' = [popped EXCEPT ![clearing] = 0]
    BY <1>4 DEF DeleteKey
  <2>3. e \in Seq(Point) /\ Total(e) + 0 = 0
    BY TotalEmpty
  <2> HIDE DEF e
  <2>4. rollup' \in [Tier -> Seq(Point)] /\ HistoryType' /\ (RollupConserves => RollupConserves')
    BY <1>1, <2>1, <2>2, <2>3, OneTierConserves
  <2>5. TypeOK'
    BY <1>1, <1>2, <2>2, <2>4, TypeParts DEF TypeOK, WriterType, ListsType, ClockType, HistoryType
  <2>6. ASSUME TailInv
        PROVE  TailInv'
    <3> SUFFICES ASSUME NEW w \in Writer, writer[w].pc = "write"
                 PROVE  \/ rollup'[writer[w].tier] = <<>>
                        \/ writer[w].tail = <<Last(rollup'[writer[w].tier])>>
      BY <1>2 DEF TailInv
    <3>1. CASE writer[w].tier = clearing
      BY <1>1, <2>1, <2>2, <3>1 DEF ListsType, e
    <3>2. CASE writer[w].tier # clearing
      <4>1. rollup'[writer[w].tier] = rollup[writer[w].tier]
        <5>1. writer[w].tier \in Tier
          BY <1>1, AtCall, PcIsBusy, AppendingFields, TierFacts
        <5> QED
          BY <1>1, <2>2, <3>2, <5>1 DEF ListsType
      <4> QED
        BY <2>6, <4>1 DEF TailInv
    <3> QED
      BY <3>1, <3>2
  <2> QED
    BY <2>4, <2>5, <2>6
<1> QED
  BY <1>3, <1>4

LEMMA Step ==
  ASSUME TypeOK, [Next]_vars
  PROVE  TypeOK' /\ (OneWriter /\ TailInv /\ RollupConserves => TailInv' /\ RollupConserves')
<1>1. ASSUME NEW w \in Writer, Write(w)
      PROVE  TypeOK' /\ (OneWriter /\ TailInv /\ RollupConserves => TailInv' /\ RollupConserves')
  BY <1>1, StampKeeps, RawKeeps, ReadTailKeeps, SetTailKeeps, PushBucketKeeps, TrimTierKeeps,
     AbandonKeeps DEF Write
<1>2. CASE UNCHANGED vars
  <2>1. UNCHANGED <<now, raw, rollup, writer, stamped, clearing, failures, clears, folded, popped>>
    BY <1>2 DEF vars
  <2>2. TypeOK'
    BY <2>1, TypeParts DEF TypeOK, WriterType, ListsType, ClockType, HistoryType
  <2>3. TailInv => TailInv'
    BY <2>1 DEF TailInv
  <2> QED
    BY <2>1, <2>2, <2>3, SameRollups DEF history
<1> QED
  BY <1>1, <1>2, ClockKeeps, DeleteKeyKeeps DEF Next

\* Lists, clocks and appends stay in their types for any number of writers, whatever falls between
\* the calls of an append.
THEOREM TypeCorrect == Spec => []TypeOK
<1>1. TypeOK /\ [Next]_vars => TypeOK'
  BY Step
<1> QED
  BY <1>1, TypeInit, PTL DEF Spec

\* With one writer, a tier holds exactly what was folded into it, but for what its retention
\* dropped, for any tiers, any points and any clears and failures between the calls: the tail an
\* append read is still the tail when it is overwritten, or the list has been cleared and the
\* write fails.  (Two writers break it: the second overwrites what the first folded.)
THEOREM RollupConservesHolds ==
  ASSUME OneWriter
  PROVE  Spec => []RollupConserves
<1> DEFINE Inv == TypeOK /\ TailInv /\ RollupConserves
<1>1. Init => Inv
  <2> SUFFICES ASSUME Init PROVE TailInv /\ RollupConserves
    BY TypeInit
  <2>1. TailInv
    BY DEF Init, TailInv, Idle
  <2>2. RollupConserves
    BY TotalEmpty DEF Init, RollupConserves
  <2> QED
    BY <2>1, <2>2
<1>2. Inv /\ [Next]_vars => Inv'
  BY Step
<1>3. Inv => RollupConserves
  OBVIOUS
<1> HIDE DEF Inv
<1> QED
  BY <1>1, <1>2, <1>3, PTL DEF Spec

-----------------------------------------------------------------------------

\* The bound of a list of n points, among whose trimmers T a step of w leaves U.
LEMMA ListBounded ==
  ASSUME NEW T, NEW U, NEW w, IsFiniteSet(T), IsFiniteSet(U),
         \A v : v # w => (v \in T <=> v \in U),
         NEW n \in Nat, NEW m \in Nat, NEW cap \in Nat, NEW f \in Nat, NEW g \in Nat,
         n <= cap + Cardinality(T) + f,
         m <= cap \/ m + One(w \in T) + f <= n + One(w \in U) + g
  PROVE  m <= cap + Cardinality(U) + g
<1> DEFINE a == Cardinality(T)
           b == Cardinality(U)
           x == One(w \in T)
           y == One(w \in U)
<1>1. a \in Nat /\ b \in Nat /\ b + x = a + y
  BY OneMoves
<1>2. x \in Nat /\ y \in Nat
  BY DEF One
<1>3. n <= cap + a + f /\ (m <= cap \/ m + x + f <= n + y + g)
  OBVIOUS
<1> HIDE DEF a, b, x, y
<1>4. m <= cap + b + g
  BY <1>1, <1>2, <1>3
<1> QED
  BY <1>4 DEF b

TrimmingRaw == {w \in Writer : writer[w].pc = "trimRaw" /\ writer[w].long}
Lost == MaxFailures - failures

LEMMA LostType ==
  ASSUME failures \in Nat, failures' \in Nat, MaxFailures \in Nat,
         failures <= MaxFailures, failures' <= MaxFailures
  PROVE  Lost \in Nat /\ Lost' \in Nat
<1>1. \A f \in Nat : f <= MaxFailures => MaxFailures - f \in Nat
  OBVIOUS
<1> QED
  BY <1>1 DEF Lost

\* What a step of w must show of the raw list, and of each tier.
RawMoves(w) ==
  Len(raw') <= Raw
    \/ Len(raw') + One(w \in TrimmingRaw) + Lost <= Len(raw) + One(w \in TrimmingRaw') + Lost'
TierMoves(w, t) ==
  Len(rollup'[t]) <= Keep(t)
    \/ Len(rollup'[t]) + One(w \in Trimming(t)) + Lost
         <= Len(rollup[t]) + One(w \in Trimming(t)') + Lost'

LEMMA MovesAreBounded ==
  ASSUME TypeOK, TypeOK', failures <= MaxFailures, failures' <= MaxFailures, LengthBounded,
         NEW w \in Writer, \A v \in Writer : v # w => writer'[v] = writer[v],
         RawMoves(w), \A t \in Tier : TierMoves(w, t)
  PROVE  LengthBounded'
<1>1. Lost \in Nat /\ Lost' \in Nat
  <2>1. failures \in Nat /\ failures' \in Nat /\ MaxFailures \in Nat
    BY TierFacts DEF TypeOK
  <2> QED
    BY <2>1, LostType
<1>2. IsFiniteSet(Writer)
  BY TieredSeriesAssumption DEF TieredSeriesAssumption
<1>3. Len(raw') <= Raw + Cardinality(TrimmingRaw') + Lost'
  <2>1. /\ TrimmingRaw \subseteq Writer /\ TrimmingRaw' \subseteq Writer
        /\ \A v : v # w => (v \in TrimmingRaw <=> v \in TrimmingRaw')
    BY DEF TrimmingRaw
  <2>2. IsFiniteSet(TrimmingRaw) /\ IsFiniteSet(TrimmingRaw')
    BY <1>2, <2>1, FS_Subset
  <2>3. Len(raw) \in Nat /\ Len(raw') \in Nat /\ Raw \in Nat
    BY TierFacts DEF TypeOK
  <2>4. Len(raw) <= Raw + Cardinality(TrimmingRaw) + Lost
    BY DEF LengthBounded, TrimmingRaw, Lost
  <2> QED
    BY <1>1, <2>1, <2>2, <2>3, <2>4, ListBounded DEF RawMoves
<1>4. ASSUME NEW t \in Tier
      PROVE  Len(rollup'[t]) <= Keep(t) + Cardinality(Trimming(t)') + Lost'
  <2>1. /\ Trimming(t) \subseteq Writer /\ Trimming(t)' \subseteq Writer
        /\ \A v : v # w => (v \in Trimming(t) <=> v \in Trimming(t)')
    BY DEF Trimming
  <2>2. IsFiniteSet(Trimming(t)) /\ IsFiniteSet(Trimming(t)')
    BY <1>2, <2>1, FS_Subset
  <2>3. Len(rollup[t]) \in Nat /\ Len(rollup'[t]) \in Nat /\ Keep(t) \in Nat
    BY TierFacts DEF TypeOK
  <2>4. Len(rollup[t]) <= Keep(t) + Cardinality(Trimming(t)) + Lost
    BY DEF LengthBounded, Lost
  <2>5. TierMoves(w, t)
    OBVIOUS
  <2> QED
    BY <1>1, <2>1, <2>2, <2>3, <2>4, <2>5, ListBounded DEF TierMoves
<1> QED
  BY <1>3, <1>4 DEF LengthBounded, TrimmingRaw, Lost

\* A list whose length is kept, by a step that fails or leaves no trim undone.
LEMMA RawStays ==
  ASSUME TypeOK, NEW w \in Writer, Len(raw') = Len(raw),
         \/ failures' = failures /\ (w \in TrimmingRaw => w \in TrimmingRaw')
         \/ failures' = failures - 1
  PROVE  RawMoves(w)
<1>1. Len(raw) \in Nat /\ failures \in Nat /\ MaxFailures \in Nat
  BY TierFacts DEF TypeOK
<1> QED
  BY <1>1 DEF RawMoves, Lost, One

LEMMA TierStays ==
  ASSUME TypeOK, NEW w \in Writer, NEW t \in Tier, Len(rollup'[t]) = Len(rollup[t]),
         \/ failures' = failures /\ (w \in Trimming(t) => w \in Trimming(t)')
         \/ failures' = failures - 1
  PROVE  TierMoves(w, t)
<1> DEFINE n == Len(rollup[t])
           m == Len(rollup'[t])
           x == One(w \in Trimming(t))
           y == One(w \in Trimming(t)')
<1>1. n \in Nat /\ m = n /\ failures \in Nat /\ MaxFailures \in Nat
  BY TierFacts DEF TypeOK
<1>2. x \in 0 .. 1 /\ y \in 0 .. 1 /\ (failures' = failures - 1 \/ (failures' = failures /\ x <= y))
  BY DEF One
<1> HIDE DEF n, m, x, y
<1>3. m + x + Lost <= n + y + Lost'
  BY <1>1, <1>2 DEF Lost
<1> QED
  BY <1>3 DEF TierMoves, n, m, x, y

\* A list that grows past its cap, by a step of a writer that goes on to trim it.
LEMMA OneLonger ==
  ASSUME NEW n \in Nat, NEW cap \in Nat, NEW lost \in Int, NEW was, NEW is, ~was,
         n + 1 > cap => is
  PROVE  n + 1 <= cap \/ n + 1 + One(was) + lost <= n + One(is) + lost
  BY DEF One

\* A list that loses its first point, by the step of a writer that was trimming it.
LEMMA OneShorter ==
  ASSUME NEW list \in Seq(Point), NEW cap \in Nat, NEW lost \in Int, NEW was, NEW is
  PROVE  \/ Len(DropFirst(list)) <= cap
         \/ Len(DropFirst(list)) + One(was) + lost <= Len(list) + One(is) + lost
<1>1. CASE list = <<>>
  BY <1>1 DEF DropFirst
<1>2. CASE list # <<>>
  <2>1. Len(list) \in Nat /\ Len(DropFirst(list)) = Len(list) - 1
    BY <1>2 DEF DropFirst
  <2> QED
    BY <2>1 DEF One
<1> QED
  BY <1>1, <1>2

\* A writer that moves on to the next tier trims nothing.
LEMMA NextTierPc ==
  ASSUME WriterType, NEW w \in Writer, writer[w] \in Appending, NEW t \in 0 .. Len(Tiers),
         NextTier(w, t)
  PROVE  /\ writer'[w].pc \in {"read", "idle"}
         /\ \A v \in Writer : v # w => writer'[v] = writer[v]
<1> DEFINE r == [writer[w] EXCEPT !.pc = "read", !.tier = t + 1]
<1>1. CASE t + 1 \in Tier
  <2>1. r \in Appending /\ r.pc = "read"
    BY <1>1, AppendingMoves, TierFacts DEF Appending
  <2>2. Update(w, r)
    BY <1>1 DEF NextTier
  <2> HIDE DEF r
  <2> QED
    BY <2>1, <2>2, UpdateType
<1>2. CASE t + 1 \notin Tier
  <2>1. Update(w, Idle) /\ Idle.pc = "idle"
    BY <1>2 DEF NextTier, Idle
  <2> QED
    BY <2>1, UpdateType
<1> QED
  BY <1>1, <1>2

\* What each step of an append must show for the bounds.
Moves(w) ==
  /\ RawMoves(w) /\ \A t \in Tier : TierMoves(w, t)
  /\ \A v \in Writer : v # w => writer'[v] = writer[v]

\* A step that only moves the writer, from a call that is no trim.
LEMMA QuietMoves ==
  ASSUME TypeOK, NEW w \in Writer, UNCHANGED <<raw, rollup, failures>>,
         writer[w].pc \notin {"trimRaw", "trim"},
         \A v \in Writer : v # w => writer'[v] = writer[v]
  PROVE  Moves(w)
<1>1. w \notin TrimmingRaw /\ \A t \in Tier : w \notin Trimming(t)
  BY DEF TrimmingRaw, Trimming
<1> QED
  BY <1>1, RawStays, TierStays DEF Moves

LEMMA StampMoves ==
  ASSUME TypeOK, NEW w \in Writer, Stamp(w)
  PROVE  Moves(w)
<1>1. UNCHANGED <<raw, rollup, failures>> /\ writer[w].pc \notin {"trimRaw", "trim"}
  BY DEF Stamp, lists, Idle
<1>2. \A v \in Writer : v # w => writer'[v] = writer[v]
  BY TypeParts DEF Stamp, Update, WriterType
<1> QED
  BY <1>1, <1>2, QuietMoves

LEMMA PushRawMoves ==
  ASSUME TypeOK, NEW w \in Writer, PushRaw(w)
  PROVE  Moves(w)
<1> DEFINE s == writer[w]
           b == Len(raw') > Raw
           r == [s EXCEPT !.pc = "trimRaw", !.long = b]
<1>1. /\ WriterType /\ ListsType /\ s \in Appending /\ s.pc = "push" /\ Update(w, r)
      /\ raw' = Append(raw, s.point) /\ UNCHANGED <<rollup, failures>>
  BY TypeParts, PcIsBusy, AtCall DEF PushRaw
<1>2. r.pc = "trimRaw" /\ r.long = b
  BY <1>1 DEF Appending
<1>3. writer'[w] = r /\ \A v \in Writer : v # w => writer'[v] = writer[v]
  BY <1>1 DEF Update, WriterType
<1>4. RawMoves(w)
  <2>1. Len(raw) \in Nat /\ Len(raw') = Len(raw) + 1 /\ Raw \in Nat
    BY <1>1, TierFacts DEF ListsType
  <2>2. w \notin TrimmingRaw /\ (Len(raw) + 1 > Raw => w \in TrimmingRaw')
    <3> HIDE DEF r
    <3> QED
      BY <1>1, <1>2, <1>3, <2>1 DEF TrimmingRaw
  <2>3. Lost \in Int /\ Lost' = Lost
    BY <1>1, TierFacts DEF Lost, TypeOK
  <2> QED
    BY <2>1, <2>2, <2>3, OneLonger DEF RawMoves
<1>5. \A t \in Tier : TierMoves(w, t)
  BY <1>1, TierStays DEF Trimming
<1> QED
  BY <1>3, <1>4, <1>5 DEF Moves

LEMMA TrimRawMoves ==
  ASSUME TypeOK, NEW w \in Writer, TrimRaw(w)
  PROVE  Moves(w)
<1> DEFINE s == writer[w]
<1>1. /\ WriterType /\ ListsType /\ s \in Appending /\ s.pc = "trimRaw" /\ NextTier(w, 0)
      /\ raw' = (IF s.long THEN DropFirst(raw) ELSE raw) /\ UNCHANGED <<rollup, failures>>
  BY TypeParts, PcIsBusy, AtCall DEF TrimRaw
<1>2. \A v \in Writer : v # w => writer'[v] = writer[v]
  BY <1>1, NextTierPc, TierFacts
<1>3. RawMoves(w)
  <2>1. CASE s.long
    <3>1. Lost \in Int /\ Lost' = Lost /\ Raw \in Nat
      BY <1>1, TierFacts DEF Lost, TypeOK
    <3> QED
      BY <1>1, <2>1, <3>1, OneShorter DEF RawMoves, ListsType
  <2>2. CASE ~s.long
    BY <1>1, <2>2, RawStays DEF TrimmingRaw
  <2> QED
    BY <2>1, <2>2
<1>4. \A t \in Tier : TierMoves(w, t)
  BY <1>1, TierStays DEF Trimming
<1> QED
  BY <1>2, <1>3, <1>4 DEF Moves

LEMMA ReadTailMoves ==
  ASSUME TypeOK, NEW w \in Writer, ReadTail(w)
  PROVE  Moves(w)
<1>1. UNCHANGED <<raw, rollup, failures>> /\ writer[w].pc \notin {"trimRaw", "trim"}
  BY DEF ReadTail, lists
<1>2. \A v \in Writer : v # w => writer'[v] = writer[v]
  BY TypeParts DEF ReadTail, Update, WriterType
<1> QED
  BY <1>1, <1>2, QuietMoves

LEMMA SetTailMoves ==
  ASSUME TypeOK, NEW w \in Writer, SetTail(w)
  PROVE  Moves(w)
<1> DEFINE s == writer[w]
           t == s.tier
           list == rollup[t]
           bucket == Merge(s.tail[1], s.point)
<1>1. WriterType /\ ListsType /\ s \in Appending /\ s.pc = "write" /\ UNCHANGED <<raw, failures>>
  BY TypeParts, PcIsBusy, AtCall DEF SetTail
<1>2. t \in Tier /\ t \in 0 .. Len(Tiers)
  BY <1>1, AppendingFields, TierFacts
<1>3. \A v \in Writer : v # w => writer'[v] = writer[v]
  <2>1. NextTier(w, t) \/ Update(w, Idle)
    BY DEF SetTail
  <2> QED
    BY <1>1, <1>2, <2>1, NextTierPc DEF Update, WriterType
<1>4. \A u \in Tier : Len(rollup'[u]) = Len(rollup[u])
  <2>1. \/ rollup' = rollup
        \/ rollup' = [rollup EXCEPT ![t][Len(list)] = bucket]
    BY DEF SetTail
  <2> HIDE DEF bucket
  <2>2. ASSUME rollup' = [rollup EXCEPT ![t][Len(list)] = bucket], NEW u \in Tier
        PROVE  Len(rollup'[u]) = Len(rollup[u])
    <3>1. CASE u # t
      BY <1>1, <1>2, <2>2, <3>1 DEF ListsType
    <3>2. CASE u = t
      <4>1. rollup'[t] = [list EXCEPT ![Len(list)] = bucket] /\ list \in Seq(Point)
        BY <1>1, <1>2, <2>2 DEF ListsType
      <4> HIDE DEF list
      <4>2. Len([list EXCEPT ![Len(list)] = bucket]) = Len(list)
        BY <4>1
      <4> QED
        BY <3>2, <4>1, <4>2 DEF list
    <3> QED
      BY <3>1, <3>2
  <2> QED
    BY <2>1, <2>2
<1>5. w \notin TrimmingRaw /\ \A u \in Tier : w \notin Trimming(u)
  BY <1>1 DEF TrimmingRaw, Trimming
<1> QED
  BY <1>1, <1>3, <1>4, <1>5, RawStays, TierStays DEF Moves

LEMMA PushBucketMoves ==
  ASSUME TypeOK, NEW w \in Writer, PushBucket(w)
  PROVE  Moves(w)
<1> DEFINE s == writer[w]
           t == s.tier
           list == rollup[t]
           bucket == [s.point EXCEPT !.timestamp = bucketOf(@, Every(s.tier))]
           r == [s EXCEPT !.pc = "trim"]
<1>1. /\ WriterType /\ ListsType /\ s \in Appending /\ s.pc = "write" /\ UNCHANGED <<raw, failures>>
      /\ rollup' = [rollup EXCEPT ![t] = Append(list, bucket)]
      /\ \/ Len(list) + 1 > Keep(t) /\ Update(w, r)
         \/ Len(list) + 1 <= Keep(t) /\ NextTier(w, t)
  <2>1. WriterType /\ ListsType /\ s \in Appending /\ s.pc = "write" /\ UNCHANGED <<raw, failures>>
    BY TypeParts, PcIsBusy, AtCall DEF PushBucket
  <2>2. t \in Tier /\ list \in Seq(Point)
    BY <2>1, AppendingFields, TierFacts DEF ListsType
  <2>3. Len(list) \in Nat /\ Keep(t) \in Nat
    BY <2>2, TierFacts
  <2>4. rollup' = [rollup EXCEPT ![t] = Append(list, bucket)]
    BY <2>1, <2>2 DEF PushBucket, ListsType
  <2>5. /\ Len(list) + 1 > Keep(t) => Update(w, r)
        /\ ~(Len(list) + 1 > Keep(t)) => NextTier(w, t)
    BY DEF PushBucket
  <2> HIDE DEF bucket, list, r
  <2>6. ~(Len(list) + 1 > Keep(t)) => Len(list) + 1 <= Keep(t)
    BY <2>3
  <2>7. \/ Len(list) + 1 > Keep(t) /\ Update(w, r)
        \/ Len(list) + 1 <= Keep(t) /\ NextTier(w, t)
    BY <2>5, <2>6, Zenon
  <2> QED
    BY <2>1, <2>4, <2>7
<1>2. t \in Tier /\ t \in 0 .. Len(Tiers) /\ list \in Seq(Point)
  BY <1>1, AppendingFields, TierFacts DEF ListsType
<1>3. \A v \in Writer : v # w => writer'[v] = writer[v]
  BY <1>1, <1>2, NextTierPc DEF Update, WriterType
<1>4. w \notin TrimmingRaw /\ \A u \in Tier : w \notin Trimming(u)
  BY <1>1 DEF TrimmingRaw, Trimming
<1> HIDE DEF bucket
<1>5. TierMoves(w, t)
  <2>1. Len(list) \in Nat /\ Len(rollup'[t]) = Len(list) + 1 /\ Keep(t) \in Nat
    <3>1. rollup'[t] = Append(list, bucket)
      BY <1>1, <1>2 DEF ListsType
    <3> QED
      BY <1>2, <3>1, TierFacts
  <2>2. Len(list) + 1 > Keep(t) => w \in Trimming(t)'
    <3> SUFFICES ASSUME Len(list) + 1 > Keep(t) PROVE w \in Trimming(t)'
      OBVIOUS
    <3>1. ~(Len(list) + 1 <= Keep(t))
      BY <2>1
    <3>2. Update(w, r) /\ r.pc = "trim" /\ r.tier = t
      BY <1>1, <3>1 DEF Appending
    <3> HIDE DEF r
    <3>3. writer'[w] = r
      BY <1>1, <3>2 DEF Update, WriterType
    <3> QED
      BY <3>2, <3>3 DEF Trimming
  <2>3. Lost \in Int /\ Lost' = Lost
    BY <1>1, TierFacts DEF Lost, TypeOK
  <2> HIDE DEF list, t
  <2>4. \/ Len(list) + 1 <= Keep(t)
        \/ Len(list) + 1 + One(w \in Trimming(t)) + Lost <= Len(list) + One(w \in Trimming(t)') + Lost
    BY <1>2, <1>4, <2>1, <2>2, <2>3, OneLonger
  <2> QED
    BY <2>1, <2>3, <2>4 DEF TierMoves, list, t
<1>6. ASSUME NEW u \in Tier, u # t
      PROVE  TierMoves(w, u)
  <2>1. rollup'[u] = rollup[u]
    BY <1>1, <1>6 DEF ListsType
  <2> QED
    BY <1>1, <1>4, <2>1, TierStays
<1> QED
  BY <1>1, <1>3, <1>4, <1>5, <1>6, RawStays DEF Moves

LEMMA TrimTierMoves ==
  ASSUME TypeOK, NEW w \in Writer, TrimTier(w)
  PROVE  Moves(w)
<1> DEFINE s == writer[w]
           t == s.tier
           list == rollup[t]
<1>1. /\ WriterType /\ ListsType /\ s \in Appending /\ s.pc = "trim" /\ UNCHANGED <<raw, failures>>
      /\ NextTier(w, t)
  BY TypeParts, PcIsBusy, AtCall DEF TrimTier
<1>2. t \in Tier /\ t \in 0 .. Len(Tiers) /\ list \in Seq(Point)
  BY <1>1, AppendingFields, TierFacts DEF ListsType
<1>3. \A v \in Writer : v # w => writer'[v] = writer[v]
  BY <1>1, <1>2, NextTierPc
<1>4. rollup' = [rollup EXCEPT ![t] = DropFirst(list)]
  BY <1>1, <1>2 DEF TrimTier, ListsType
<1>5. TierMoves(w, t)
  <2>1. Lost \in Int /\ Lost' = Lost /\ Keep(t) \in Nat
    BY <1>1, <1>2, TierFacts DEF Lost, TypeOK
  <2>2. rollup'[t] = DropFirst(list)
    BY <1>1, <1>2, <1>4 DEF ListsType
  <2>3. \/ Len(DropFirst(list)) <= Keep(t)
        \/ Len(DropFirst(list)) + One(w \in Trimming(t)) + Lost <= Len(list) + One(w \in Trimming(t)') + Lost
    <3> HIDE DEF list, t
    <3> QED
      BY <1>2, <2>1, OneShorter
  <2> HIDE DEF t
  <2> QED
    BY <2>1, <2>2, <2>3 DEF TierMoves
<1>6. ASSUME NEW u \in Tier, u # t
      PROVE  TierMoves(w, u)
  <2>1. rollup'[u] = rollup[u] /\ w \notin Trimming(u)
    BY <1>1, <1>4, <1>6 DEF ListsType, Trimming
  <2> QED
    BY <1>1, <2>1, TierStays
<1>7. RawMoves(w)
  BY <1>1, RawStays DEF TrimmingRaw
<1> QED
  BY <1>3, <1>5, <1>6, <1>7 DEF Moves

LEMMA AbandonMoves ==
  ASSUME TypeOK, NEW w \in Writer, Abandon(w)
  PROVE  Moves(w)
<1>1. UNCHANGED <<raw, rollup>> /\ failures' = failures - 1
  BY DEF Abandon, lists
<1>2. \A v \in Writer : v # w => writer'[v] = writer[v]
  BY TypeParts DEF Abandon, Update, WriterType
<1> QED
  BY <1>1, <1>2, RawStays, TierStays DEF Moves

\* A clear only empties lists.
LEMMA DeleteKeyBounded ==
  ASSUME TypeOK, failures <= MaxFailures, LengthBounded, DeleteKey
  PROVE  LengthBounded'
<1>1. UNCHANGED <<writer, failures>>
  BY DEF DeleteKey
<1>2. Lost \in Nat /\ IsFiniteSet(Writer)
  BY TierFacts, TieredSeriesAssumption DEF TieredSeriesAssumption, Lost, TypeOK
<1>3. TrimmingRaw \subseteq Writer /\ \A t \in Tier : Trimming(t) \subseteq Writer
  BY DEF TrimmingRaw, Trimming
<1>4. Cardinality(TrimmingRaw) \in Nat /\ \A t \in Tier : Cardinality(Trimming(t)) \in Nat
  BY <1>2, <1>3, FS_Subset, FS_CardinalityType
<1>5. Len(raw') <= Len(raw) \/ Len(raw') = 0
  BY TypeParts DEF DeleteKey, ListsType
<1>6. ASSUME NEW t \in Tier
      PROVE  Len(rollup'[t]) <= Len(rollup[t]) \/ Len(rollup'[t]) = 0
  <2>1. rollup'[t] = rollup[t] \/ rollup'[t] = <<>>
    BY TypeParts DEF DeleteKey, ListsType
  <2>2. Len(rollup[t]) \in Nat
    BY TypeParts DEF ListsType
  <2> QED
    BY <2>1, <2>2
<1>7. Len(raw') <= Raw + Cardinality(TrimmingRaw) + Lost
  <2>1. Len(raw) <= Raw + Cardinality(TrimmingRaw) + Lost
    BY DEF LengthBounded, TrimmingRaw, Lost
  <2>2. Len(raw) \in Nat /\ Raw \in Nat /\ (Len(raw') = Len(raw) \/ Len(raw') = 0)
    BY TypeParts, TierFacts DEF DeleteKey, ListsType
  <2> QED
    BY <1>2, <1>4, <2>1, <2>2
<1>8. ASSUME NEW t \in Tier
      PROVE  Len(rollup'[t]) <= Keep(t) + Cardinality(Trimming(t)) + Lost
  <2>1. Len(rollup[t]) <= Keep(t) + Cardinality(Trimming(t)) + Lost
    BY DEF LengthBounded, Lost
  <2>2. rollup'[t] = rollup[t] \/ rollup'[t] = <<>>
    BY TypeParts DEF DeleteKey, ListsType
  <2>3. Len(rollup[t]) \in Nat /\ Keep(t) \in Nat /\ Cardinality(Trimming(t)) \in Nat
    BY <1>4, TypeParts, TierFacts DEF ListsType
  <2> QED
    BY <1>2, <2>1, <2>2, <2>3
<1>9. TrimmingRaw' = TrimmingRaw /\ Lost' = Lost /\ \A t \in Tier : Trimming(t)' = Trimming(t)
  BY <1>1 DEF TrimmingRaw, Lost, Trimming
<1> QED
  BY <1>7, <1>8, <1>9 DEF LengthBounded, TrimmingRaw, Lost

LEMMA BoundedStep ==
  ASSUME TypeOK, failures <= MaxFailures, LengthBounded, [Next]_vars
  PROVE  failures' <= MaxFailures /\ LengthBounded'
<1>1. TypeOK' /\ failures \in Nat /\ MaxFailures \in Nat
  BY Step, TierFacts DEF TypeOK
<1>2. failures' \in {failures, failures - 1}
  BY DEF Next, vars, Write, Elapse, Stamp, PushRaw, TrimRaw, ReadTail, SetTail, PushBucket, TrimTier,
         Abandon, Clear, DeleteKey
<1>3. failures' <= MaxFailures
  BY <1>1, <1>2
<1>4. ASSUME NEW w \in Writer, Write(w)
      PROVE  LengthBounded'
  <2>1. Moves(w)
    BY <1>4, StampMoves, PushRawMoves, TrimRawMoves, ReadTailMoves, SetTailMoves, PushBucketMoves,
       TrimTierMoves, AbandonMoves DEF Write
  <2> QED
    BY <1>1, <1>3, <2>1, MovesAreBounded DEF Moves
<1>5. CASE UNCHANGED <<raw, rollup, writer, failures>>
  BY <1>5 DEF LengthBounded, Trimming
<1>6. Elapse \/ Clear \/ UNCHANGED vars => UNCHANGED <<raw, rollup, writer, failures>>
  BY DEF vars, Elapse, Clear, lists, history
<1>7. CASE Next
  <2>1. Elapse \/ (\E w \in Writer : Write(w)) \/ Clear \/ DeleteKey
    BY <1>7 DEF Next
  <2> QED
    BY <1>3, <1>4, <1>5, <1>6, <2>1, DeleteKeyBounded
<1> QED
  BY <1>3, <1>5, <1>6, <1>7

\* For any number of writers, a list outgrows its retention only while writers are about to trim it,
\* or by one point for each append that failed before its trim.
THEOREM LengthBoundedHolds == Spec => []LengthBounded
<1> DEFINE Inv == TypeOK /\ failures <= MaxFailures /\ LengthBounded
<1>1. Init => Inv
  <2> SUFFICES ASSUME Init PROVE failures <= MaxFailures /\ LengthBounded
    BY TypeInit
  <2>1. failures = MaxFailures /\ MaxFailures \in Nat
    BY TierFacts DEF Init
  <2>2. TrimmingRaw = {} /\ \A t \in Tier : Trimming(t) = {}
    BY DEF Init, TrimmingRaw, Trimming, Idle
  <2>3. Cardinality({}) = 0
    BY FS_EmptySet
  <2>4. Len(raw) = 0 /\ \A t \in Tier : Len(rollup[t]) = 0
    BY DEF Init
  <2>5. Lost = 0 /\ Raw \in Nat /\ \A t \in Tier : Keep(t) \in Nat
    BY <2>1, TierFacts DEF Lost
  <2>6. Len(raw) <= Raw + Cardinality(TrimmingRaw) + Lost
    BY <2>2, <2>3, <2>4, <2>5
  <2>7. ASSUME NEW t \in Tier
        PROVE  Len(rollup[t]) <= Keep(t) + Cardinality(Trimming(t)) + Lost
    <3>1. Len(rollup[t]) = 0 /\ Cardinality(Trimming(t)) = 0 /\ Keep(t) \in Nat /\ Lost = 0
      BY <2>2, <2>3, <2>4, <2>5
    <3> QED
      BY <3>1
  <2> QED
    BY <2>1, <2>6, <2>7 DEF LengthBounded, TrimmingRaw, Lost
<1>2. Inv /\ [Next]_vars => Inv'
  BY BoundedStep, Step
<1>3. Inv => LengthBounded
  OBVIOUS
<1> HIDE DEF Inv
<1> QED
  BY <1>1, <1>2, <1>3, PTL DEF Spec

-----------------------------------------------------------------------------

\* A multiple that is a smaller multiple and a remainder has the remainder 0.
LEMMA MultipleLess ==
  ASSUME NEW e \in Nat \ {0}, NEW p \in Int, NEW q \in Int
  PROVE  /\ p <= q => p * e <= q * e
         /\ p < q => p * e + e <= q * e
<1>1. ASSUME NEW d \in Nat PROVE d * e >= 0 /\ (d > 0 => d * e >= e)
  <2>1. d * e >= 0
    OBVIOUS
  <2>2. d > 0 => d - 1 \in Nat /\ (d - 1) * e >= 0
    OBVIOUS
  <2>3. (d - 1) * e = d * e - e
    OBVIOUS
  <2> DEFINE de == d * e
             me == (d - 1) * e
  <2>4. de \in Int /\ me \in Int
    OBVIOUS
  <2> HIDE DEF de, me
  <2>5. de >= 0 /\ me = de - e /\ (d > 0 => me >= 0)
    BY <2>1, <2>2, <2>3 DEF de, me
  <2>6. d > 0 => de >= e
    BY <2>4, <2>5
  <2> QED
    BY <2>1, <2>6 DEF de
<1>2. q * e = p * e + (q - p) * e
  OBVIOUS
<1> DEFINE pe == p * e
           qe == q * e
           de == (q - p) * e
<1>3. pe \in Int /\ qe \in Int /\ de \in Int
  OBVIOUS
<1>4. qe = pe + de
  BY <1>2
<1>5. p <= q => de >= 0
  BY <1>1
<1>6. p < q => de >= e
  BY <1>1
<1> HIDE DEF pe, qe, de
<1>7. p <= q => pe <= qe
  BY <1>3, <1>4, <1>5
<1>8. p < q => pe + e <= qe
  BY <1>3, <1>4, <1>6
<1> QED
  BY <1>7, <1>8 DEF pe, qe

\* A bucket starts at a multiple of its length, which no later multiple up to the point passes.
LEMMA BucketOfAligned ==
  ASSUME NEW n \in Nat, NEW e \in Nat \ {0}
  PROVE  /\ bucketOf(n, e) \in Nat /\ bucketOf(n, e) <= n /\ bucketOf(n, e) % e = 0
         /\ n % e = 0 => bucketOf(n, e) = n
         /\ \A m \in Nat : m % e = 0 /\ m <= n => m <= bucketOf(n, e)
<1>1. ASSUME NEW k \in Nat
      PROVE  k \div e \in Nat /\ k % e \in 0 .. e - 1 /\ k % e = k - e * (k \div e)
  <2>1. k \div e \in Nat
    OBVIOUS
  <2>2. k % e \in 0 .. e - 1
    OBVIOUS
  <2>3. k % e = k - e * (k \div e)
    OBVIOUS
  <2> QED
    BY <2>1, <2>2, <2>3
<1> DEFINE q == n \div e
           r == n % e
           b == q * e
<1>2. q \in Nat /\ r \in 0 .. e - 1 /\ r = n - e * q
  BY <1>1
<1> HIDE DEF q, r
<1>3. b \in Nat /\ b = e * q
  BY <1>2
<1>4. n = b + r
  BY <1>2, <1>3
<1>5. b % e = 0
  <2> DEFINE x == b \div e
             y == b % e
             z == x * e
  <2>1. x \in Nat /\ y \in 0 .. e - 1 /\ y = b - e * x
    BY <1>1, <1>3
  <2> HIDE DEF x, y
  <2>2. z \in Nat /\ z = e * x
    BY <2>1
  <2>3. (x < q => z + e <= b) /\ (q <= x => b <= z)
    BY <1>2, <2>1, MultipleLess
  <2> HIDE DEF b, z
  <2>4. b = z + y
    BY <1>3, <2>1, <2>2
  <2>5. y = 0
    BY <1>2, <1>3, <2>1, <2>2, <2>3, <2>4
  <2> QED
    BY <2>5 DEF y
<1>6. ASSUME NEW m \in Nat, m % e = 0, m <= n
      PROVE  m <= b
  <2> DEFINE x == m \div e
             z == x * e
             y == m % e
  <2>1. x \in Nat /\ y = 0 /\ y = m - e * x
    BY <1>1, <1>6
  <2> HIDE DEF x, y
  <2>2. z \in Nat /\ z = e * x
    BY <2>1
  <2>3. m = z
    BY <2>1, <2>2
  <2>4. (q < x => b + e <= z) /\ (x <= q => z <= b)
    BY <1>2, <2>1, MultipleLess
  <2> HIDE DEF b, z
  <2> QED
    BY <1>2, <1>3, <1>4, <1>6, <2>1, <2>2, <2>3, <2>4
<1>7. b = bucketOf(n, e)
  BY DEF bucketOf, q
<1> HIDE DEF b
<1>8. b <= n /\ (r = 0 => b = n)
  BY <1>2, <1>3, <1>4
<1> QED
  BY <1>3, <1>5, <1>6, <1>7, <1>8 DEF r

-----------------------------------------------------------------------------

\* The buckets of a list are aligned and strictly increasing; none is later than `top`.
Increasing(list, e) ==
  \A i \in 1 .. Len(list) : /\ list[i].timestamp % e = 0
                            /\ i > 1 => list[i - 1].timestamp < list[i].timestamp
UpTo(list, top) == \A i \in 1 .. Len(list) : list[i].timestamp <= top

LEMMA IncreasingAppend ==
  ASSUME NEW list \in Seq(Point), NEW p \in Point, NEW e \in Nat \ {0}, NEW top \in Int,
         Increasing(list, e), UpTo(list, top), p.timestamp % e = 0, p.timestamp <= top,
         list # <<>> => list[Len(list)].timestamp < p.timestamp
  PROVE  Increasing(Append(list, p), e) /\ UpTo(Append(list, p), top)
<1> DEFINE more == Append(list, p)
           n == Len(list)
<1>1. n \in Nat /\ Len(more) = n + 1 /\ more[n + 1] = p /\ \A i \in 1 .. n : more[i] = list[i]
  OBVIOUS
<1>2. n > 0 => list # <<>>
  OBVIOUS
<1> HIDE DEF more, n
<1>3. ASSUME NEW i \in 1 .. n + 1
      PROVE  /\ more[i].timestamp % e = 0 /\ more[i].timestamp <= top
             /\ i > 1 => more[i - 1].timestamp < more[i].timestamp
  <2>1. CASE i = n + 1
    <3>1. more[i] = p
      BY <1>1, <2>1
    <3>2. i > 1 => i - 1 = n /\ n > 0 /\ more[n] = list[n]
      BY <1>1, <2>1
    <3>3. i > 1 => more[i - 1].timestamp < p.timestamp
      BY <1>2, <3>2 DEF n
    <3> QED
      BY <3>1, <3>3
  <2>2. CASE i # n + 1
    <3>1. i \in 1 .. n /\ more[i] = list[i] /\ (i > 1 => more[i - 1] = list[i - 1])
      BY <1>1, <2>2
    <3> QED
      BY <3>1 DEF Increasing, UpTo, n
  <2> QED
    BY <2>1, <2>2
<1>4. Increasing(more, e)
  BY <1>1, <1>3 DEF Increasing
<1>5. UpTo(more, top)
  BY <1>1, <1>3 DEF UpTo
<1> QED
  BY <1>4, <1>5 DEF more

LEMMA IncreasingReplaceLast ==
  ASSUME NEW list \in Seq(Point), list # <<>>, NEW p \in Point, NEW e \in Nat \ {0}, NEW top \in Int,
         Increasing(list, e), UpTo(list, top), p.timestamp = list[Len(list)].timestamp
  PROVE  /\ Increasing([list EXCEPT ![Len(list)] = p], e)
         /\ UpTo([list EXCEPT ![Len(list)] = p], top)
<1> DEFINE n == Len(list)
           new == [list EXCEPT ![n] = p]
<1>1. n \in Nat /\ n \in 1 .. n /\ new \in Seq(Point) /\ Len(new) = n
  <2>1. n \in Nat /\ n # 0 /\ DOMAIN list = 1 .. n
    OBVIOUS
  <2>2. new \in Seq(Point) /\ Len(new) = n
    BY <2>1, ExceptSeq
  <2> QED
    BY <2>1, <2>2
<1>2. \A i \in 1 .. n : i # n => new[i] = list[i]
  OBVIOUS
<1>3. new[n] = p
  BY <1>1
<1> HIDE DEF new
<1>4. \A i \in 1 .. n : new[i].timestamp = list[i].timestamp
  BY <1>2, <1>3
<1>5. \A i \in 1 .. n : i > 1 => i - 1 \in 1 .. n
  BY <1>1
<1>6. Increasing(new, e)
  BY <1>1, <1>4, <1>5 DEF Increasing
<1>7. UpTo(new, top)
  BY <1>1, <1>4 DEF UpTo
<1> QED
  BY <1>6, <1>7 DEF new

LEMMA IncreasingDropFirst ==
  ASSUME NEW list \in Seq(Point), NEW e \in Nat \ {0}, NEW top \in Int,
         Increasing(list, e), UpTo(list, top)
  PROVE  Increasing(DropFirst(list), e) /\ UpTo(DropFirst(list), top)
<1>1. CASE list = <<>>
  BY <1>1 DEF DropFirst, Increasing, UpTo
<1>2. CASE list # <<>>
  <2> DEFINE m == Len(list) - 1
             rest == Tail(list)
  <2>1. /\ m \in Nat /\ Len(list) = m + 1 /\ Len(rest) = m
        /\ \A i \in 1 .. m : rest[i] = list[i + 1]
    BY <1>2
  <2>2. DropFirst(list) = rest
    BY <1>2 DEF DropFirst
  <2> HIDE DEF m, rest
  <2>3. ASSUME NEW i \in 1 .. m
        PROVE  /\ rest[i].timestamp % e = 0 /\ rest[i].timestamp <= top
               /\ i > 1 => rest[i - 1].timestamp < rest[i].timestamp
    <3>1. i + 1 \in 1 .. Len(list) /\ i + 1 > 1 /\ (i + 1) - 1 = i
      BY <2>1
    <3>2. i > 1 => rest[i - 1] = list[i]
      BY <2>1
    <3> QED
      BY <2>1, <3>1, <3>2 DEF Increasing, UpTo
  <2>4. Increasing(rest, e)
    BY <2>1, <2>3 DEF Increasing
  <2>5. UpTo(rest, top)
    BY <2>1, <2>3 DEF UpTo
  <2> QED
    BY <2>2, <2>4, <2>5
<1> QED
  BY <1>1, <1>2

LEMMA PointsOf ==
  ASSUME NEW list \in Seq(Point)
  PROVE  /\ Len(list) \in Nat
         /\ \A i \in 1 .. Len(list) :
              list[i] \in Point /\ list[i].timestamp \in Nat /\ list[i].count \in Nat
<1>1. \A i \in 1 .. Len(list) : list[i] \in Point
  OBVIOUS
<1> QED
  BY <1>1 DEF Point

\* An earlier place of an increasing list holds an earlier bucket.
LEMMA IncreasingIsStrict ==
  ASSUME NEW list \in Seq(Point), NEW e \in Nat \ {0}, Increasing(list, e),
         NEW i \in 1 .. Len(list), NEW j \in 1 .. Len(list), i < j
  PROVE  list[i].timestamp < list[j].timestamp
<1> DEFINE n == Len(list)
           time(k) == list[k].timestamp
           S == {k \in Nat : i + k + 1 \in 1 .. n => time(i) < time(i + k + 1)}
<1>1. n \in Nat /\ \A k \in 1 .. n : time(k) \in Nat
  BY PointsOf
<1>2. \A k \in 1 .. n : k > 1 => time(k - 1) < time(k)
  BY DEF Increasing
<1> HIDE DEF n, time
<1>3. i \in 1 .. n /\ j \in 1 .. n /\ i < j
  BY DEF n
<1>4. 0 \in S
  <2>1. i + 1 \in 1 .. n => time((i + 1) - 1) < time(i + 1)
    BY <1>1, <1>2, <1>3
  <2>2. (i + 1) - 1 = i /\ i + 0 + 1 = i + 1
    BY <1>1, <1>3
  <2> QED
    BY <2>1, <2>2
<1>5. ASSUME NEW k \in Nat, k \in S
      PROVE  k + 1 \in S
  <2>1. SUFFICES ASSUME i + (k + 1) + 1 \in 1 .. n
                 PROVE  time(i) < time(i + (k + 1) + 1)
    OBVIOUS
  <2> DEFINE x == i + k + 1
             y == i + (k + 1) + 1
  <2>2. x \in 1 .. n /\ y \in 1 .. n /\ y > 1 /\ y - 1 = x
    BY <1>1, <1>3, <2>1
  <2>3. time(i) < time(x)
    BY <1>5, <2>2
  <2> HIDE DEF x, y
  <2>4. time(x) < time(y)
    BY <1>2, <2>2
  <2>5. time(i) \in Nat /\ time(x) \in Nat /\ time(y) \in Nat
    BY <1>1, <1>3, <2>2
  <2>6. time(i) < time(y)
    BY <2>3, <2>4, <2>5
  <2> QED
    BY <2>6 DEF y
<1>6. Nat \subseteq S
  <2> HIDE DEF S
  <2> QED
    BY <1>4, <1>5, SetInduction
<1>7. j - i - 1 \in Nat /\ i + (j - i - 1) + 1 = j
  BY <1>1, <1>3
<1>8. time(i) < time(j)
  <2>1. j - i - 1 \in S
    BY <1>6, <1>7
  <2> QED
    BY <1>3, <1>7, <2>1
<1> QED
  BY <1>8 DEF time

Starts(list) == {list[i].timestamp : i \in 1 .. Len(list)}

\* What the ledger of a list holds: each bucket once.
LEMMA LedgerAt ==
  ASSUME NEW list \in Seq(Point), NEW e \in Nat \ {0}, Increasing(list, e)
  PROVE  /\ DOMAIN LedgerOf(list) = Starts(list)
         /\ \A i \in 1 .. Len(list) : LedgerOf(list)[list[i].timestamp] = list[i].count
         /\ LedgerOf(list) = [b \in Starts(list) |-> LedgerOf(list)[b]]
<1>1. DOMAIN list = 1 .. Len(list) /\ Len(list) \in Nat
  OBVIOUS
<1> DEFINE place(b) == CHOOSE i \in 1 .. Len(list) : list[i].timestamp = b
<1>2. LedgerOf(list) = [b \in Starts(list) |-> list[place(b)].count]
  BY <1>1 DEF LedgerOf, Starts
<1>3. ASSUME NEW i \in 1 .. Len(list)
      PROVE  place(list[i].timestamp) = i
  <2>1. \A j \in 1 .. Len(list) : list[j].timestamp \in Nat
    BY PointsOf
  <2>2. \A j \in 1 .. Len(list) : list[j].timestamp = list[i].timestamp => j = i
    <3>1. ASSUME NEW j \in 1 .. Len(list), j # i
          PROVE  list[j].timestamp # list[i].timestamp
      <4>1. j < i \/ i < j
        BY <1>1, <3>1
      <4>2. list[j].timestamp < list[i].timestamp \/ list[i].timestamp < list[j].timestamp
        BY <4>1, IncreasingIsStrict
      <4> QED
        BY <2>1, <4>2
    <3> QED
      BY <3>1
  <2> QED
    BY <2>2
<1>4. \A i \in 1 .. Len(list) : list[i].timestamp \in Starts(list)
  BY DEF Starts
<1> HIDE DEF place
<1> QED
  BY <1>2, <1>3, <1>4

LEMMA LedgerEmpty ==
  LedgerOf(<<>>) = [c \in {} |-> 0]
  BY DEF LedgerOf

\* The size of the ledger is the length of the list.
LEMMA LedgerSize ==
  ASSUME NEW list \in Seq(Point), NEW e \in Nat \ {0}, Increasing(list, e)
  PROVE  Cardinality(Starts(list)) = Len(list)
<1> DEFINE n == Len(list)
           f == [i \in 1 .. n |-> list[i].timestamp]
<1>1. n \in Nat /\ \A i \in 1 .. n : list[i].timestamp \in Nat
  BY PointsOf
<1>2. f \in Surjection(1 .. n, Starts(list))
  BY DEF Surjection, Starts
<1>3. ASSUME NEW i \in 1 .. n, NEW j \in 1 .. n, f[i] = f[j]
      PROVE  i = j
  <2>1. ~(i < j) /\ ~(j < i)
    BY <1>1, <1>3, IncreasingIsStrict
  <2> QED
    BY <1>1, <2>1
<1>4. f \in Injection(1 .. n, Starts(list))
  <2> HIDE DEF f, n
  <2>1. f \in [1 .. n -> Starts(list)]
    BY <1>2 DEF Surjection
  <2> QED
    BY <1>3, <2>1 DEF Injection, IsInjective
<1>5. IsFiniteSet(1 .. n) /\ Cardinality(1 .. n) = n
  <2> HIDE DEF n
  <2> QED
    BY <1>1, FS_Interval
<1> HIDE DEF f, n
<1>6. Cardinality(Starts(list)) = n
  BY <1>2, <1>4, <1>5, FS_Surjection
<1> QED
  BY <1>6 DEF n

\* A bucket that a list adds is a new entry of its ledger.
LEMMA LedgerAppend ==
  ASSUME NEW list \in Seq(Point), NEW p \in Point, NEW e \in Nat \ {0},
         Increasing(list, e), Increasing(Append(list, p), e)
  PROVE  /\ p.timestamp \notin Starts(list)
         /\ \A c \in Starts(list) : c <= p.timestamp
         /\ LedgerOf(Append(list, p)) = [c \in Starts(list) \cup {p.timestamp} |->
              IF c \notin Starts(list) THEN p.count ELSE LedgerOf(list)[c]]
<1> DEFINE more == Append(list, p)
           n == Len(list)
           L == LedgerOf(list)
           M == LedgerOf(more)
<1>1. n \in Nat /\ more \in Seq(Point) /\ Len(more) = n + 1 /\ more[n + 1] = p
      /\ \A i \in 1 .. n : more[i] = list[i]
  OBVIOUS
<1>2. \A i \in 1 .. n : L[list[i].timestamp] = list[i].count
  BY LedgerAt
<1> HIDE DEF n, L, more
<1>3. /\ \A i \in 1 .. n + 1 : M[more[i].timestamp] = more[i].count
      /\ M = [b \in Starts(more) |-> M[b]]
  BY <1>1, LedgerAt DEF more
<1>4. Starts(list) = {list[i].timestamp : i \in 1 .. n}
  BY DEF Starts, n
<1>5. \A i \in 1 .. n : list[i].timestamp < p.timestamp /\ list[i].timestamp \in Nat
  <2>1. ASSUME NEW i \in 1 .. n
        PROVE  more[i].timestamp < more[n + 1].timestamp /\ more[i].timestamp \in Nat
    <3>1. i \in 1 .. Len(more) /\ n + 1 \in 1 .. Len(more) /\ i < n + 1
      BY <1>1
    <3>2. more[i] \in Point
      BY <1>1, <3>1
    <3> QED
      BY <1>1, <3>1, <3>2, IncreasingIsStrict DEF more, Point
  <2> QED
    BY <1>1, <2>1
<1>6. p.timestamp \in Nat
  BY DEF Point
<1>7. p.timestamp \notin Starts(list) /\ \A c \in Starts(list) : c <= p.timestamp
  BY <1>4, <1>5, <1>6
<1>8. Starts(more) = Starts(list) \cup {p.timestamp}
  <2>1. Starts(more) = {more[i].timestamp : i \in 1 .. n + 1}
    BY <1>1 DEF Starts
  <2>2. n + 1 \in 1 .. n + 1 /\ \A i \in 1 .. n : i \in 1 .. n + 1
    BY <1>1
  <2>3. \A i \in 1 .. n + 1 : i \in 1 .. n \/ i = n + 1
    BY <1>1
  <2>4. \A i \in 1 .. n + 1 : more[i].timestamp \in Starts(list) \cup {p.timestamp}
    BY <1>1, <1>4, <2>3
  <2>5. \A c \in Starts(list) \cup {p.timestamp} : \E i \in 1 .. n + 1 : c = more[i].timestamp
    BY <1>1, <1>4, <2>2
  <2> QED
    BY <2>1, <2>4, <2>5
<1>9. M[p.timestamp] = p.count /\ \A c \in Starts(list) : M[c] = L[c]
  <2>1. n + 1 \in 1 .. n + 1 /\ \A i \in 1 .. n : i \in 1 .. n + 1
    BY <1>1
  <2> QED
    BY <1>1, <1>2, <1>3, <1>4, <2>1
<1> HIDE DEF M
<1>10. M = [c \in Starts(list) \cup {p.timestamp} |-> IF c \notin Starts(list) THEN p.count ELSE L[c]]
  BY <1>3, <1>7, <1>8, <1>9
<1> QED
  BY <1>7, <1>10 DEF M, L, more

\* A last bucket that grows, grows in the ledger; it is the newest.
LEMMA LedgerReplaceLast ==
  ASSUME NEW list \in Seq(Point), list # <<>>, NEW p \in Point, NEW e \in Nat \ {0},
         Increasing(list, e), p.timestamp = list[Len(list)].timestamp
  PROVE  /\ p.timestamp \in Starts(list) /\ \A c \in Starts(list) : c <= p.timestamp
         /\ LedgerOf(list)[p.timestamp] = list[Len(list)].count
         /\ LedgerOf([list EXCEPT ![Len(list)] = p]) =
              [c \in Starts(list) |-> IF c = p.timestamp THEN p.count ELSE LedgerOf(list)[c]]
<1> DEFINE n == Len(list)
           new == [list EXCEPT ![n] = p]
           L == LedgerOf(list)
           M == LedgerOf(new)
<1>1. n \in Nat /\ n \in 1 .. n /\ new \in Seq(Point) /\ Len(new) = n
  <2>1. n \in Nat /\ n # 0 /\ DOMAIN list = 1 .. n
    OBVIOUS
  <2>2. new \in Seq(Point) /\ Len(new) = n
    BY <2>1, ExceptSeq
  <2> QED
    BY <2>1, <2>2
<1>2. (\A i \in 1 .. n : i # n => new[i] = list[i]) /\ new[n] = p
  <2>1. \A i \in 1 .. n : i # n => new[i] = list[i]
    OBVIOUS
  <2>2. new[n] = p
    BY <1>1
  <2> QED
    BY <2>1, <2>2
<1>3. \A i \in 1 .. n : L[list[i].timestamp] = list[i].count
  BY LedgerAt
<1>4. Increasing(new, e)
  <2>2. \A i \in 1 .. n : new[i].timestamp = list[i].timestamp
    <3> HIDE DEF new
    <3> QED
      BY <1>2
  <2>3. \A i \in 1 .. n : i > 1 => i - 1 \in 1 .. n
    BY <1>1
  <2> HIDE DEF new
  <2> QED
    BY <1>1, <2>2, <2>3 DEF Increasing
<1>5. \A i \in 1 .. n : list[i].timestamp \in Nat /\ (i # n => list[i].timestamp < list[n].timestamp)
  <2>1. ASSUME NEW i \in 1 .. n
        PROVE  list[i].timestamp \in Nat /\ (i # n => list[i].timestamp < list[n].timestamp)
    <3> HIDE DEF new
    <3>1. list[i].timestamp \in Nat
      BY PointsOf
    <3>2. i # n => i < n
      <4> HIDE DEF n
      <4> QED
        BY <1>1
    <3> QED
      BY <1>1, <3>1, <3>2, IncreasingIsStrict
  <2> QED
    BY <2>1
<1> HIDE DEF new, L
<1>6. /\ \A i \in 1 .. n : M[new[i].timestamp] = new[i].count
      /\ M = [b \in Starts(new) |-> M[b]]
  BY <1>1, <1>4, LedgerAt
<1> HIDE DEF n, M
<1>7. Starts(list) = {list[i].timestamp : i \in 1 .. n} /\ p.timestamp = list[n].timestamp
  BY DEF Starts, n
<1>8. Starts(new) = Starts(list)
  <2>1. \A i \in 1 .. n : new[i].timestamp = list[i].timestamp
    BY <1>2, <1>7
  <2>2. Starts(new) = {new[i].timestamp : i \in 1 .. n}
    BY <1>1 DEF Starts
  <2> QED
    BY <1>7, <2>1, <2>2
<1>9. p.timestamp \in Starts(list) /\ L[p.timestamp] = list[n].count
  BY <1>1, <1>3, <1>7
<1>10. \A c \in Starts(list) : c <= p.timestamp
  <2>1. \A i \in 1 .. n : list[i].timestamp <= list[n].timestamp
    BY <1>1, <1>5
  <2> QED
    BY <1>7, <2>1
<1>11. M[p.timestamp] = p.count
  BY <1>1, <1>2, <1>6
<1>12. ASSUME NEW c \in Starts(list), c # p.timestamp
       PROVE  M[c] = L[c]
  <2>1. PICK i \in 1 .. n : c = list[i].timestamp
    BY <1>7
  <2>2. i # n /\ new[i] = list[i]
    BY <1>2, <1>7, <1>12, <2>1
  <2> QED
    BY <1>3, <1>6, <2>1, <2>2
<1>13. M = [c \in Starts(list) |-> IF c = p.timestamp THEN p.count ELSE L[c]]
  BY <1>6, <1>8, <1>11, <1>12
<1> QED
  BY <1>9, <1>10, <1>13 DEF M, L, new, n

\* The first bucket of a list is the oldest, and leaves the ledger with it.
LEMMA LedgerDropFirst ==
  ASSUME NEW list \in Seq(Point), list # <<>>, NEW e \in Nat \ {0}, Increasing(list, e)
  PROVE  /\ list[1].timestamp \in Starts(list) /\ \A c \in Starts(list) : list[1].timestamp <= c
         /\ LedgerOf(DropFirst(list)) =
              [c \in Starts(list) \ {list[1].timestamp} |-> LedgerOf(list)[c]]
<1> DEFINE m == Len(list) - 1
           rest == Tail(list)
           L == LedgerOf(list)
           M == LedgerOf(rest)
           b == list[1].timestamp
<1>1. /\ m \in Nat /\ Len(list) = m + 1 /\ rest \in Seq(Point) /\ Len(rest) = m
      /\ \A i \in 1 .. m : rest[i] = list[i + 1]
  OBVIOUS
<1>2. DropFirst(list) = rest
  BY DEF DropFirst
<1> HIDE DEF m, rest, b
<1>3. Increasing(rest, e)
  <2>1. ASSUME NEW i \in 1 .. m
        PROVE  /\ rest[i].timestamp % e = 0
               /\ i > 1 => rest[i - 1].timestamp < rest[i].timestamp
    <3>1. i + 1 \in 1 .. Len(list) /\ i + 1 > 1 /\ (i + 1) - 1 = i
      BY <1>1
    <3>2. i > 1 => rest[i - 1] = list[i]
      BY <1>1
    <3> QED
      BY <1>1, <3>1, <3>2 DEF Increasing
  <2> QED
    BY <1>1, <2>1 DEF Increasing
<1>4. \A i \in 1 .. m + 1 : L[list[i].timestamp] = list[i].count
  BY <1>1, LedgerAt
<1>5. /\ \A i \in 1 .. m : M[rest[i].timestamp] = rest[i].count
      /\ M = [c \in Starts(rest) |-> M[c]]
  BY <1>1, <1>3, LedgerAt
<1>6. ASSUME NEW i \in 1 .. m
      PROVE  b < list[i + 1].timestamp
  <2>1. 1 \in 1 .. Len(list) /\ i + 1 \in 1 .. Len(list) /\ 1 < i + 1
    BY <1>1
  <2> QED
    BY <2>1, IncreasingIsStrict DEF b
<1>7. b \in Nat /\ \A i \in 1 .. m : list[i + 1].timestamp \in Nat
  <2>1. 1 \in 1 .. Len(list) /\ \A i \in 1 .. m : i + 1 \in 1 .. Len(list)
    BY <1>1
  <2>2. \A i \in 1 .. Len(list) : list[i] \in Point
    OBVIOUS
  <2> QED
    BY <2>1, <2>2 DEF Point, b
<1>8. Starts(list) = {b} \cup {list[i + 1].timestamp : i \in 1 .. m}
  <2>1. \A i \in 1 .. Len(list) : i = 1 \/ (i - 1 \in 1 .. m /\ (i - 1) + 1 = i)
    BY <1>1
  <2>2. 1 \in 1 .. Len(list) /\ \A i \in 1 .. m : i + 1 \in 1 .. Len(list)
    BY <1>1
  <2>3. ASSUME NEW c \in Starts(list)
        PROVE  c \in {b} \cup {list[i + 1].timestamp : i \in 1 .. m}
    <3>1. PICK i \in 1 .. Len(list) : c = list[i].timestamp
      BY DEF Starts
    <3>2. CASE i = 1
      BY <3>1, <3>2 DEF b
    <3>3. CASE i # 1
      BY <2>1, <3>1, <3>3
    <3> QED
      BY <3>2, <3>3
  <2> QED
    BY <2>2, <2>3 DEF Starts, b
<1>9. Starts(rest) = {list[i + 1].timestamp : i \in 1 .. m}
  BY <1>1 DEF Starts
<1>10. b \notin Starts(rest)
  BY <1>6, <1>7, <1>9
<1>11. Starts(rest) = Starts(list) \ {b}
  BY <1>8, <1>9, <1>10
<1>12. \A c \in Starts(rest) : M[c] = L[c]
  <2>1. ASSUME NEW i \in 1 .. m
        PROVE  M[list[i + 1].timestamp] = L[list[i + 1].timestamp]
    <3>1. i + 1 \in 1 .. m + 1 /\ rest[i] = list[i + 1]
      BY <1>1
    <3> QED
      BY <1>4, <1>5, <3>1
  <2> QED
    BY <1>9, <2>1
<1> HIDE DEF L, M
<1>13. M = [c \in Starts(list) \ {b} |-> L[c]]
  BY <1>5, <1>11, <1>12
<1>14. b \in Starts(list) /\ \A c \in Starts(list) : b <= c
  BY <1>6, <1>7, <1>8
<1> QED
  BY <1>2, <1>13, <1>14 DEF b, L, M

-----------------------------------------------------------------------------

\* No bucket is later than the last point stamped.
Below == \A w \in Writer : \A t \in Tier : UpTo(rollup[t], stamped[w])

\* The point an append carries is the last one stamped.
PointInv ==
  \A w \in Writer : writer[w] # Idle =>
    writer[w].point.timestamp = stamped[w] /\ writer[w].point.count <= MaxCount

\* A tier is trimmed when it is over its retention, unless a clear came between.
TrimDue ==
  \A w \in Writer : writer[w].pc = "trim" =>
    \/ rollup[writer[w].tier] = <<>>
    \/ Len(rollup[writer[w].tier]) > Keep(writer[w].tier)

OrderInv == BucketsIncreasing /\ Below /\ PointInv /\ TrimDue

LEMMA IncreasingParts ==
  ASSUME ListsType
  PROVE  BucketsIncreasing <=> \A t \in Tier : Increasing(rollup[t], Every(t))
<1>1. \A t \in Tier : DOMAIN rollup[t] = 1 .. Len(rollup[t])
  BY DEF ListsType
<1> QED
  BY <1>1 DEF BucketsIncreasing, Increasing

\* A step that changes one tier.
LEMMA OneListMoves ==
  ASSUME ListsType, BucketsIncreasing, Below, NEW t \in Tier, NEW new \in Seq(Point),
         rollup' = [rollup EXCEPT ![t] = new], stamped' = stamped,
         Increasing(new, Every(t)), \A w \in Writer : UpTo(new, stamped[w])
  PROVE  BucketsIncreasing' /\ Below'
<1>1. ListsType' <=> raw' \in Seq(Point) /\ rollup' \in [Tier -> Seq(Point)]
  BY DEF ListsType
<1>2. \A u \in Tier : rollup'[u] = IF u = t THEN new ELSE rollup[u]
  BY DEF ListsType
<1>3. \A u \in Tier : Increasing(rollup'[u], Every(u)) /\ DOMAIN rollup'[u] = 1 .. Len(rollup'[u])
  <2>1. \A u \in Tier : Increasing(rollup[u], Every(u))
    BY IncreasingParts
  <2>2. ASSUME NEW u \in Tier
        PROVE  rollup'[u] \in Seq(Point)
    BY <1>2 DEF ListsType
  <2> QED
    BY <1>2, <2>1, <2>2
<1>4. BucketsIncreasing'
  BY <1>3 DEF BucketsIncreasing, Increasing
<1>5. Below'
  BY <1>2 DEF Below
<1> QED
  BY <1>4, <1>5

LEMMA ListsStay ==
  ASSUME BucketsIncreasing, Below, UNCHANGED <<rollup, stamped>>
  PROVE  BucketsIncreasing' /\ Below'
  BY DEF BucketsIncreasing, Below

\* A step of the one writer that goes on with the same point, or ends the append.
LEMMA PointKept ==
  ASSUME OneWriter, PointInv, NEW w \in Writer, writer[w] # Idle, stamped' = stamped,
         writer'[w] = Idle \/ writer'[w].point = writer[w].point
  PROVE  PointInv'
<1> SUFFICES ASSUME NEW v \in Writer, writer'[v] # Idle
             PROVE  writer'[v].point.timestamp = stamped'[v] /\ writer'[v].point.count <= MaxCount
  BY DEF PointInv
<1>1. v = w
  BY DEF OneWriter
<1> QED
  BY <1>1 DEF PointInv

LEMMA NotTrimming ==
  ASSUME OneWriter, NEW w \in Writer, writer'[w].pc # "trim"
  PROVE  TrimDue'
  BY DEF OneWriter, TrimDue

LEMMA NextTierPoint ==
  ASSUME WriterType, NEW w \in Writer, writer[w] \in Appending, NEW t \in 0 .. Len(Tiers),
         NextTier(w, t)
  PROVE  writer'[w] = Idle \/ writer'[w].point = writer[w].point
<1> DEFINE r == [writer[w] EXCEPT !.pc = "read", !.tier = t + 1]
<1>1. r.point = writer[w].point
  BY DEF Appending
<1>2. Update(w, r) \/ Update(w, Idle)
  BY DEF NextTier
<1> HIDE DEF r
<1> QED
  BY <1>1, <1>2 DEF Update, WriterType

\* What each step of the writer must show: the order is kept, and the ledger moves by its rules.
Orders == OrderInv' /\ [LedgerNext]_rollup

\* A step that changes no tier.
LEMMA QuietOrders ==
  ASSUME OrderInv, UNCHANGED <<rollup, stamped>>, PointInv', TrimDue'
  PROVE  Orders
  BY ListsStay DEF OrderInv, Orders

LEMMA StampOrders ==
  ASSUME TypeOK, OneWriter, OrderInv, NEW w \in Writer, Stamp(w)
  PROVE  Orders
<1>1. WriterType /\ ListsType /\ ClockType /\ rollup' = rollup
  BY TypeParts DEF Stamp, lists
<1>2. PICK n \in 0 .. MaxCount :
        Update(w, [pc |-> "push", tier |-> 0, point |-> [timestamp |-> now, count |-> n],
                   tail |-> <<>>, long |-> FALSE])
  BY DEF Stamp
<1> DEFINE s == [pc |-> "push", tier |-> 0, point |-> [timestamp |-> now, count |-> n],
                 tail |-> <<>>, long |-> FALSE]
<1>3. writer'[w] = s
  BY <1>1, <1>2 DEF Update, WriterType
<1>4. stamped'[w] = now /\ stamped[w] < now /\ now \in Nat /\ stamped[w] \in Int
  <2>1. now \in 0 .. MaxTime /\ stamped \in [Writer -> -1 .. now] /\ MaxTime \in Nat
    BY <1>1, TierFacts DEF ClockType
  <2>2. stamped' = [stamped EXCEPT ![w] = now] /\ stamped[w] < now
    BY DEF Stamp
  <2> QED
    BY <2>1, <2>2
<1>5. PointInv'
  <2>1. n <= MaxCount /\ s.point.timestamp = now /\ s.point.count = n
    BY <1>2, TierFacts
  <2>2. \A v \in Writer : v = w
    BY DEF OneWriter
  <2> QED
    BY <1>3, <1>4, <2>1, <2>2 DEF PointInv
<1>6. TrimDue'
  <2>1. s.pc # "trim"
    OBVIOUS
  <2> HIDE DEF s
  <2> QED
    BY <1>3, <2>1, NotTrimming
<1>7. BucketsIncreasing'
  BY <1>1 DEF OrderInv, BucketsIncreasing
<1>8. Below'
  <2> SUFFICES ASSUME NEW v \in Writer, NEW t \in Tier
               PROVE  UpTo(rollup[t], stamped'[v])
    BY <1>1 DEF Below
  <2>1. v = w
    BY DEF OneWriter
  <2>2. UpTo(rollup[t], stamped[w]) /\ \A i \in 1 .. Len(rollup[t]) : rollup[t][i].timestamp \in Nat
    BY <1>1, PointsOf DEF OrderInv, Below, ListsType
  <2> QED
    BY <1>4, <2>1, <2>2 DEF UpTo
<1> QED
  BY <1>1, <1>5, <1>6, <1>7, <1>8 DEF OrderInv, Orders

LEMMA RawOrders ==
  ASSUME TypeOK, OneWriter, OrderInv, NEW w \in Writer, PushRaw(w) \/ TrimRaw(w) \/ ReadTail(w)
  PROVE  Orders
<1> DEFINE s == writer[w]
<1>1. WriterType /\ ListsType /\ s \in Appending /\ s # Idle /\ UNCHANGED <<rollup, stamped>>
  BY TypeParts, PcIsBusy, AtCall DEF PushRaw, TrimRaw, ReadTail, lists
<1>2. writer'[w].pc # "trim" /\ (writer'[w] = Idle \/ writer'[w].point = s.point)
  <2>1. CASE PushRaw(w)
    <3> DEFINE r == [s EXCEPT !.pc = "trimRaw", !.long = Len(raw') > Raw]
    <3>1. r.pc # "trim" /\ r.point = s.point
      BY <1>1 DEF Appending
    <3> HIDE DEF r
    <3>2. writer'[w] = r
      BY <1>1, <2>1 DEF PushRaw, Update, WriterType, r
    <3> QED
      BY <3>1, <3>2
  <2>2. CASE TrimRaw(w)
    BY <1>1, <2>2, NextTierPc, NextTierPoint, TierFacts DEF TrimRaw
  <2>3. CASE ReadTail(w)
    <3> DEFINE list == rollup[s.tier]
               r == [s EXCEPT !.pc = "write", !.tail = IF list = <<>> THEN <<>> ELSE <<Last(list)>>]
    <3>1. r.pc # "trim" /\ r.point = s.point
      BY <1>1 DEF Appending
    <3> HIDE DEF r
    <3>2. writer'[w] = r
      BY <1>1, <2>3 DEF ReadTail, Update, WriterType, r
    <3> QED
      BY <3>1, <3>2
  <2> QED
    BY <2>1, <2>2, <2>3
<1>3. PointInv' /\ TrimDue'
  BY <1>1, <1>2, PointKept, NotTrimming DEF OrderInv
<1> QED
  BY <1>1, <1>3, QuietOrders

\* The ledger of the tiers, when one list becomes another.
LEMMA LedgerMoves ==
  ASSUME ListsType, NEW t \in Tier, NEW new, rollup' = [rollup EXCEPT ![t] = new]
  PROVE  Ledger!Set(t, LedgerOf(new))
<1> DEFINE L == [u \in Tier |-> LedgerOf(rollup[u])]
<1>1. \A u \in Tier : rollup'[u] = IF u = t THEN new ELSE rollup[u]
  BY DEF ListsType
<1>2. \A u \in Tier : LedgerOf(rollup'[u]) = IF u = t THEN LedgerOf(new) ELSE LedgerOf(rollup[u])
  <2>1. ASSUME NEW u \in Tier, u = t PROVE LedgerOf(rollup'[u]) = LedgerOf(new)
    BY <1>1, <2>1
  <2>2. ASSUME NEW u \in Tier, u # t PROVE LedgerOf(rollup'[u]) = LedgerOf(rollup[u])
    BY <1>1, <2>2
  <2> QED
    BY <2>1, <2>2
<1> DEFINE before(u) == LedgerOf(rollup[u])
           after(u) == LedgerOf(rollup'[u])
           x == LedgerOf(new)
<1>3. \A u \in Tier : after(u) = IF u = t THEN x ELSE before(u)
  BY <1>2
<1> HIDE DEF before, after, x
<1>4. [u \in Tier |-> after(u)] = [[u \in Tier |-> before(u)] EXCEPT ![t] = x]
  BY <1>3
<1>5. [u \in Tier |-> LedgerOf(rollup'[u])] = [L EXCEPT ![t] = LedgerOf(new)]
  BY <1>4 DEF before, after, x
<1> QED
  BY <1>5 DEF Ledger!Set

\* The ledger of a list into whose bucket b n is folded, and of one without its bucket b.
Folded(list, b, n) ==
  [c \in Starts(list) \cup {b} |->
    IF c \notin Starts(list) THEN n
    ELSE IF c = b THEN LedgerOf(list)[c] + n ELSE LedgerOf(list)[c]]
Without(list, b) == [c \in Starts(list) \ {b} |-> LedgerOf(list)[c]]

\* A bucket that is added, or grows, is folded into the ledger.
LEMMA FoldsIs ==
  ASSUME ListsType, NEW t \in Tier, NEW new, rollup' = [rollup EXCEPT ![t] = new],
         NEW b \in 0 .. MaxTime, NEW n \in 0 .. MaxCount,
         DOMAIN LedgerOf(rollup[t]) = Starts(rollup[t]),
         \A c \in Starts(rollup[t]) : c <= b,
         LedgerOf(new) = Folded(rollup[t], b, n)
  PROVE  LedgerNext
<1> DEFINE L == [u \in Tier |-> LedgerOf(rollup[u])]
<1>1. L[t] = LedgerOf(rollup[t]) /\ DOMAIN L[t] = Starts(rollup[t])
  OBVIOUS
<1>2. Ledger!Newest(t, b)
  BY <1>1 DEF Ledger!Newest
<1>3. Ledger!Set(t, [c \in DOMAIN L[t] \cup {b} |->
        IF c \notin DOMAIN L[t] THEN n ELSE IF c = b THEN L[t][c] + n ELSE L[t][c]])
  BY <1>1, LedgerMoves DEF Folded
<1>4. Ledger!Fold(t, b, n)
  BY <1>2, <1>3 DEF Ledger!Fold
<1> QED
  BY <1>4 DEF LedgerNext

LEMMA ForgetsIs ==
  ASSUME ListsType, NEW t \in Tier, NEW new, rollup' = [rollup EXCEPT ![t] = new],
         NEW b \in 0 .. MaxTime, b \in Starts(rollup[t]),
         DOMAIN LedgerOf(rollup[t]) = Starts(rollup[t]),
         \A c \in Starts(rollup[t]) : b <= c, Cardinality(Starts(rollup[t])) > Keep(t),
         LedgerOf(new) = Without(rollup[t], b)
  PROVE  LedgerNext
<1> DEFINE L == [u \in Tier |-> LedgerOf(rollup[u])]
<1>1. L[t] = LedgerOf(rollup[t]) /\ DOMAIN L[t] = Starts(rollup[t])
  OBVIOUS
<1>2. Ledger!Oldest(t, b)
  BY <1>1 DEF Ledger!Oldest
<1>3. Ledger!Set(t, [c \in DOMAIN L[t] \ {b} |-> L[t][c]])
  BY <1>1, LedgerMoves DEF Without
<1>4. Ledger!Cardinality(DOMAIN L[t]) > Keep(t) /\ b \in DOMAIN L[t]
  <2>1. \A S : Ledger!Cardinality(S) = Cardinality(S)
    BY DEF Ledger!Cardinality, Cardinality
  <2> QED
    BY <1>1, <2>1
<1>5. Ledger!Forget(t, b)
  BY <1>2, <1>3, <1>4 DEF Ledger!Forget
<1> QED
  BY <1>5 DEF LedgerNext

LEMMA WipesIs ==
  ASSUME ListsType, NEW t \in Tier, NEW new, rollup' = [rollup EXCEPT ![t] = new], new = <<>>
  PROVE  LedgerNext
<1>1. Ledger!Wipe(t)
  BY LedgerMoves, LedgerEmpty DEF Ledger!Wipe
<1> QED
  BY <1>1 DEF LedgerNext

\* What a writer at a tier relies on.
LEMMA AtTier ==
  ASSUME TypeOK, OrderInv, NEW w \in Writer, writer[w].pc \in {"write", "trim"}
  PROVE  /\ WriterType /\ ListsType /\ writer[w] # Idle /\ writer[w] \in Appending
         /\ writer[w].tier \in Tier /\ writer[w].tier \in 0 .. Len(Tiers)
         /\ Every(writer[w].tier) \in Nat \ {0} /\ Keep(writer[w].tier) \in Nat \ {0}
         /\ rollup[writer[w].tier] \in Seq(Point)
         /\ Increasing(rollup[writer[w].tier], Every(writer[w].tier))
         /\ UpTo(rollup[writer[w].tier], stamped[w])
         /\ writer[w].point \in Point
         /\ writer[w].point.timestamp = stamped[w] /\ stamped[w] \in 0 .. MaxTime
         /\ writer[w].point.count \in 0 .. MaxCount
<1>1. WriterType /\ ListsType /\ ClockType /\ writer[w] # Idle
  BY TypeParts, PcIsBusy
<1>2. writer[w] \in Appending
  BY <1>1, AtCall
<1>3. writer[w].tier \in Tier /\ writer[w].tier \in 0 .. Len(Tiers) /\ writer[w].point \in Point
  BY <1>2, AppendingFields, TierFacts
<1>4. writer[w].point.timestamp = stamped[w] /\ writer[w].point.count <= MaxCount
  BY <1>1 DEF OrderInv, PointInv
<1>5. stamped[w] \in Nat /\ stamped[w] \in -1 .. now /\ now \in 0 .. MaxTime
  BY <1>1, <1>3, <1>4 DEF ClockType, Point
<1>6. MaxTime \in Nat /\ MaxCount \in Nat /\ writer[w].point.count \in Nat
  BY <1>3, TierFacts DEF Point
<1>7. stamped[w] \in 0 .. MaxTime /\ writer[w].point.count \in 0 .. MaxCount
  BY <1>4, <1>5, <1>6
<1> QED
  BY <1>1, <1>2, <1>3, <1>4, <1>7, TierFacts, IncreasingParts DEF OrderInv, Below, ListsType

LEMMA SetTailOrders ==
  ASSUME TypeOK, OneWriter, OrderInv, TailInv, NEW w \in Writer, SetTail(w)
  PROVE  Orders
<1> DEFINE s == writer[w]
           t == s.tier
           e == Every(t)
           list == rollup[t]
           p == Merge(s.tail[1], s.point)
<1>1. s.pc = "write" /\ s.tail # <<>> /\ stamped' = stamped
  BY DEF SetTail, TailIsOpen
<1>2. /\ WriterType /\ ListsType /\ s # Idle /\ s \in Appending
      /\ t \in Tier /\ t \in 0 .. Len(Tiers) /\ e \in Nat \ {0}
      /\ list \in Seq(Point) /\ Increasing(list, e) /\ UpTo(list, stamped[w])
      /\ s.point \in Point /\ s.point.timestamp = stamped[w] /\ stamped[w] \in 0 .. MaxTime
      /\ s.point.count \in 0 .. MaxCount
  BY <1>1, AtTier
<1>3. writer'[w].pc # "trim" /\ (writer'[w] = Idle \/ writer'[w].point = s.point)
  <2>1. CASE NextTier(w, t)
    BY <1>2, <2>1, NextTierPc, NextTierPoint
  <2>2. CASE Update(w, Idle)
    BY <1>2, <2>2 DEF Update, WriterType, Idle
  <2> QED
    BY <2>1, <2>2 DEF SetTail
<1>4. PointInv' /\ TrimDue'
  BY <1>1, <1>2, <1>3, PointKept, NotTrimming DEF OrderInv
<1>5. CASE rollup' = rollup
  BY <1>1, <1>4, <1>5, QuietOrders
<1>6. CASE list # <<>> /\ rollup' = [rollup EXCEPT ![t][Len(list)] = p]
  <2> DEFINE new == [list EXCEPT ![Len(list)] = p]
             last == list[Len(list)]
             b == last.timestamp
             n == s.point.count
  <2>1. s.tail = <<Last(list)>>
    BY <1>1, <1>6 DEF TailInv
  <2>2. s.tail[1] = last
    BY <2>1 DEF Last
  <2>3. Len(list) \in 1 .. Len(list)
    BY <1>2, <1>6
  <2>4. last \in Point /\ b \in Nat /\ last.count \in Nat /\ b % e = 0 /\ b <= stamped[w]
    BY <1>2, <2>3, PointsOf DEF Increasing, UpTo
  <2>5. p \in Point /\ p.timestamp = b /\ p.count = last.count + n
    BY <1>2, <2>2, <2>4, MergeType DEF Merge
  <2>6. rollup' = [rollup EXCEPT ![t] = new]
    BY <1>2, <1>6 DEF ListsType
  <2>7. new \in Seq(Point)
    BY <1>2, <1>6, <2>5, TotalReplaceLast
  <2> HIDE DEF p
  <2>8. Increasing(new, e) /\ UpTo(new, stamped[w])
    BY <1>2, <1>6, <2>5, IncreasingReplaceLast
  <2>9. /\ b \in Starts(list) /\ \A c \in Starts(list) : c <= b
        /\ LedgerOf(list)[b] = last.count
        /\ LedgerOf(new) = [c \in Starts(list) |-> IF c = b THEN p.count ELSE LedgerOf(list)[c]]
    <3> HIDE DEF new
    <3>1. /\ p.timestamp \in Starts(list) /\ \A c \in Starts(list) : c <= p.timestamp
          /\ LedgerOf(list)[p.timestamp] = list[Len(list)].count
          /\ LedgerOf([list EXCEPT ![Len(list)] = p]) =
               [c \in Starts(list) |-> IF c = p.timestamp THEN p.count ELSE LedgerOf(list)[c]]
      BY <1>2, <1>6, <2>5, LedgerReplaceLast
    <3> QED
      BY <2>5, <3>1 DEF new
  <2>10. DOMAIN LedgerOf(list) = Starts(list)
    BY <1>2, LedgerAt
  <2>11. b \in 0 .. MaxTime
    BY <1>2, <2>4, TierFacts
  <2> HIDE DEF new, last, b, n
  <2>12. LedgerOf(new) = Folded(list, b, n)
    <3> DEFINE X == Starts(list)
               L == LedgerOf(list)
    <3>1. X \cup {b} = X /\ L[b] + n = p.count
      BY <2>5, <2>9
    <3>2. LedgerOf(new) = [c \in X |-> IF c = b THEN p.count ELSE L[c]]
      BY <2>9
    <3> HIDE DEF X, L
    <3>3. LedgerOf(new) = [c \in X \cup {b} |-> IF c \notin X THEN n ELSE IF c = b THEN L[c] + n ELSE L[c]]
      BY <3>1, <3>2
    <3> QED
      BY <3>3 DEF X, L, Folded
  <2>13. LedgerNext
    <3>1. n \in 0 .. MaxCount
      BY <1>2 DEF n
    <3>2. ListsType /\ t \in Tier
      BY <1>2
    <3>3. \A c \in Starts(list) : c <= b
      BY <2>9
    <3> QED
      BY <2>6, <2>10, <2>11, <2>12, <3>1, <3>2, <3>3, FoldsIs
  <2>14. BucketsIncreasing' /\ Below'
    <3>1. \A v \in Writer : UpTo(new, stamped[v])
      BY <2>8 DEF OneWriter
    <3> QED
      BY <1>1, <1>2, <2>6, <2>7, <2>8, <3>1, OneListMoves DEF OrderInv
  <2> QED
    BY <1>4, <2>13, <2>14 DEF OrderInv, Orders
<1> QED
  BY <1>5, <1>6 DEF SetTail

LEMMA PushBucketOrders ==
  ASSUME TypeOK, OneWriter, OrderInv, TailInv, NEW w \in Writer, PushBucket(w)
  PROVE  Orders
<1> DEFINE s == writer[w]
           t == s.tier
           e == Every(t)
           list == rollup[t]
           b == bucketOf(s.point.timestamp, e)
           p == [s.point EXCEPT !.timestamp = bucketOf(@, Every(s.tier))]
           new == Append(list, p)
<1>1. s.pc = "write" /\ stamped' = stamped
  BY DEF PushBucket
<1>2. /\ WriterType /\ ListsType /\ s # Idle /\ s \in Appending
      /\ t \in Tier /\ t \in 0 .. Len(Tiers) /\ e \in Nat \ {0} /\ Keep(t) \in Nat
      /\ list \in Seq(Point) /\ Increasing(list, e) /\ UpTo(list, stamped[w])
      /\ s.point \in Point /\ s.point.timestamp = stamped[w] /\ stamped[w] \in 0 .. MaxTime
      /\ s.point.count \in 0 .. MaxCount
  BY <1>1, AtTier
<1>3. rollup' = [rollup EXCEPT ![t] = new]
  BY <1>2 DEF PushBucket, ListsType
<1>4. /\ b \in Nat /\ b <= stamped[w] /\ b % e = 0
      /\ \A m \in Nat : m % e = 0 /\ m <= stamped[w] => m <= b
  <2>1. stamped[w] \in Nat
    BY <1>2, TierFacts
  <2> DEFINE c == bucketOf(stamped[w], e)
  <2>2. /\ c \in Nat /\ c <= stamped[w] /\ c % e = 0
        /\ \A m \in Nat : m % e = 0 /\ m <= stamped[w] => m <= c
    BY <1>2, <2>1, BucketOfAligned
  <2>3. b = c
    BY <1>2
  <2> HIDE DEF b, c
  <2> QED
    BY <2>2, <2>3
<1>5. p \in Point /\ p.timestamp = b /\ p.count = s.point.count
  BY <1>2, <1>4 DEF Point
<1>6. list # <<>> => list[Len(list)].timestamp < b
  <2> SUFFICES ASSUME list # <<>> PROVE list[Len(list)].timestamp < b
    OBVIOUS
  <2> DEFINE m == list[Len(list)].timestamp
  <2>1. s.tail = <<Last(list)>>
    BY <1>1 DEF TailInv
  <2>2. s.tail # <<>> /\ s.tail[1].timestamp = m
    BY <2>1 DEF Last
  <2>3. Len(list) \in 1 .. Len(list)
    BY <1>2
  <2>4. m \in Nat /\ m % e = 0 /\ m <= stamped[w]
    BY <1>2, <2>3, PointsOf DEF Increasing, UpTo
  <2>5. m <= b /\ bucketOf(m, e) = m
    BY <1>2, <1>4, <2>4, BucketOfAligned
  <2>6. bucketOf(m, e) # b
    BY <2>2 DEF PushBucket, TailIsOpen
  <2> HIDE DEF m, b
  <2> QED
    BY <1>4, <2>4, <2>5, <2>6 DEF m
<1> HIDE DEF b, p
<1>7. new \in Seq(Point) /\ Increasing(new, e) /\ UpTo(new, stamped[w])
  <2>1. stamped[w] \in Int
    BY <1>2, TierFacts
  <2> QED
    BY <1>2, <1>4, <1>5, <1>6, <2>1, IncreasingAppend
<1>8. /\ b \notin Starts(list) /\ \A c \in Starts(list) : c <= b
      /\ LedgerOf(new) = [c \in Starts(list) \cup {b} |->
           IF c \notin Starts(list) THEN s.point.count ELSE LedgerOf(list)[c]]
  <2>1. /\ p.timestamp \notin Starts(list) /\ \A c \in Starts(list) : c <= p.timestamp
        /\ LedgerOf(Append(list, p)) = [c \in Starts(list) \cup {p.timestamp} |->
             IF c \notin Starts(list) THEN p.count ELSE LedgerOf(list)[c]]
    BY <1>2, <1>5, <1>7, LedgerAppend
  <2> QED
    BY <1>5, <2>1
<1>9. DOMAIN LedgerOf(list) = Starts(list)
  BY <1>2, LedgerAt
<1>10. BucketsIncreasing' /\ Below'
  <2>1. \A v \in Writer : UpTo(new, stamped[v])
    BY <1>7 DEF OneWriter
  <2> HIDE DEF new
  <2> QED
    BY <1>1, <1>2, <1>3, <1>7, <2>1, OneListMoves DEF OrderInv
<1>11. LedgerNext
  <2> DEFINE n == s.point.count
             X == Starts(list)
             L == LedgerOf(list)
  <2>1. b \in 0 .. MaxTime /\ n \in 0 .. MaxCount
    BY <1>2, <1>4, TierFacts
  <2>2. b \notin X /\ LedgerOf(new) = [c \in X \cup {b} |-> IF c \notin X THEN n ELSE L[c]]
    BY <1>8
  <2> HIDE DEF n, X, L, new
  <2>3. LedgerOf(new) = [c \in X \cup {b} |-> IF c \notin X THEN n ELSE IF c = b THEN L[c] + n ELSE L[c]]
    BY <2>2
  <2>4. LedgerOf(new) = Folded(list, b, s.point.count)
    BY <2>3 DEF X, L, n, Folded
  <2>5. s.point.count \in 0 .. MaxCount
    BY <1>2
  <2>6. ListsType /\ t \in Tier
    BY <1>2
  <2>7. \A c \in Starts(list) : c <= b
    BY <1>8
  <2> QED
    BY <1>3, <1>9, <2>1, <2>4, <2>5, <2>6, <2>7, FoldsIs
<1>12. PointInv' /\ TrimDue'
  <2>1. CASE Len(list) + 1 > Keep(t) /\ Update(w, [s EXCEPT !.pc = "trim"])
    <3> DEFINE r == [s EXCEPT !.pc = "trim"]
    <3>1. r.tier = t /\ r.point = s.point
      BY <1>2 DEF Appending
    <3> HIDE DEF r
    <3>2. writer'[w] = r
      BY <1>2, <2>1 DEF Update, WriterType, r
    <3>3. rollup'[t] = new /\ Len(new) = Len(list) + 1
      BY <1>2, <1>3 DEF ListsType
    <3>4. TrimDue'
      <4> SUFFICES ASSUME NEW v \in Writer
                   PROVE  Len(rollup'[writer'[v].tier]) > Keep(writer'[v].tier)
        BY DEF TrimDue
      <4>1. v = w
        BY DEF OneWriter
      <4> HIDE DEF new, list, t
      <4> QED
        BY <2>1, <3>1, <3>2, <3>3, <4>1
    <3> QED
      BY <1>1, <1>2, <3>1, <3>2, <3>4, PointKept DEF OrderInv
  <2>2. CASE NextTier(w, t)
    <3>1. writer'[w].pc # "trim" /\ (writer'[w] = Idle \/ writer'[w].point = s.point)
      BY <1>2, <2>2, NextTierPc, NextTierPoint
    <3> QED
      BY <1>1, <1>2, <3>1, PointKept, NotTrimming DEF OrderInv
  <2>3. \/ Len(list) + 1 > Keep(t) /\ Update(w, [s EXCEPT !.pc = "trim"])
        \/ NextTier(w, t)
    BY DEF PushBucket
  <2> QED
    BY <2>1, <2>2, <2>3
<1> QED
  BY <1>10, <1>11, <1>12 DEF OrderInv, Orders

LEMMA TrimTierOrders ==
  ASSUME TypeOK, OneWriter, OrderInv, NEW w \in Writer, TrimTier(w)
  PROVE  Orders
<1> DEFINE s == writer[w]
           t == s.tier
           e == Every(t)
           list == rollup[t]
           new == DropFirst(list)
<1>1. s.pc = "trim" /\ stamped' = stamped
  BY DEF TrimTier
<1>2. /\ WriterType /\ ListsType /\ s # Idle /\ s \in Appending
      /\ t \in Tier /\ t \in 0 .. Len(Tiers) /\ e \in Nat \ {0} /\ Keep(t) \in Nat
      /\ list \in Seq(Point) /\ Increasing(list, e) /\ UpTo(list, stamped[w])
      /\ stamped[w] \in 0 .. MaxTime
  BY <1>1, AtTier
<1>3. rollup' = [rollup EXCEPT ![t] = new]
  BY <1>2 DEF TrimTier, ListsType
<1>4. PointInv' /\ TrimDue'
  <2>1. writer'[w].pc # "trim" /\ (writer'[w] = Idle \/ writer'[w].point = s.point)
    BY <1>2, NextTierPc, NextTierPoint DEF TrimTier
  <2> QED
    BY <1>1, <1>2, <2>1, PointKept, NotTrimming DEF OrderInv
<1>5. new \in Seq(Point) /\ Increasing(new, e) /\ UpTo(new, stamped[w])
  <2>1. stamped[w] \in Int
    BY <1>2, TierFacts
  <2> QED
    BY <1>2, <2>1, IncreasingDropFirst, TotalDropFirst
<1>6. BucketsIncreasing' /\ Below'
  <2>1. \A v \in Writer : UpTo(new, stamped[v])
    BY <1>5 DEF OneWriter
  <2> HIDE DEF new
  <2> QED
    BY <1>1, <1>2, <1>3, <1>5, <2>1, OneListMoves DEF OrderInv
<1>7. [LedgerNext]_rollup
  <2>1. CASE list = <<>>
    <3>1. new = list
      BY <2>1 DEF DropFirst
    <3>2. rollup' = rollup
      BY <1>2, <1>3, <3>1 DEF ListsType
    <3> QED
      BY <3>2
  <2>2. CASE list # <<>>
    <3> DEFINE b == list[1].timestamp
    <3>1. Len(list) > Keep(t)
      BY <1>1, <2>2 DEF OrderInv, TrimDue
    <3>2. Cardinality(Starts(list)) = Len(list) /\ DOMAIN LedgerOf(list) = Starts(list)
      BY <1>2, LedgerSize, LedgerAt
    <3>3. /\ b \in Starts(list) /\ \A c \in Starts(list) : b <= c
          /\ LedgerOf(new) = Without(list, b)
      BY <1>2, <2>2, LedgerDropFirst DEF Without
    <3>4. b \in 0 .. MaxTime
      <4>1. 1 \in 1 .. Len(list)
        BY <1>2, <2>2
      <4>2. b \in Nat /\ b <= stamped[w]
        BY <1>2, <4>1, PointsOf DEF UpTo
      <4> HIDE DEF b
      <4> QED
        BY <1>2, <4>2, TierFacts
    <3> HIDE DEF b, new
    <3>5. Cardinality(Starts(list)) > Keep(t)
      BY <3>1, <3>2
    <3>6. LedgerNext
      BY <1>2, <1>3, <3>2, <3>3, <3>4, <3>5, ForgetsIs
    <3> QED
      BY <3>6
  <2> QED
    BY <2>1, <2>2
<1> QED
  BY <1>4, <1>6, <1>7 DEF OrderInv, Orders

LEMMA AbandonOrders ==
  ASSUME TypeOK, OneWriter, OrderInv, NEW w \in Writer, Abandon(w)
  PROVE  Orders
<1>1. writer'[w] = Idle /\ writer[w] # Idle /\ UNCHANGED <<rollup, stamped>> /\ Idle.pc # "trim"
  BY TypeParts DEF Abandon, Update, WriterType, Idle, lists
<1> QED
  BY <1>1, PointKept, NotTrimming, QuietOrders DEF OrderInv

LEMMA ClearOrders ==
  ASSUME TypeOK, OrderInv, Elapse \/ Clear \/ DeleteKey \/ UNCHANGED vars
  PROVE  Orders
<1>1. UNCHANGED <<writer, stamped>> /\ ListsType
  BY TypeParts DEF Elapse, Clear, DeleteKey, vars
<1>2. PointInv'
  BY <1>1 DEF PointInv, OrderInv
<1>3. CASE rollup' = rollup
  <2>1. TrimDue'
    BY <1>1, <1>3 DEF TrimDue, OrderInv
  <2> QED
    BY <1>1, <1>2, <1>3, <2>1, QuietOrders
<1>4. CASE clearing \in Tier /\ rollup' = [rollup EXCEPT ![clearing] = <<>>]
  <2> DEFINE new == <<>>
             t == clearing
  <2>1. new \in Seq(Point) /\ Increasing(new, Every(t)) /\ \A w \in Writer : UpTo(new, stamped[w])
    BY DEF Increasing, UpTo
  <2>2. rollup' = [rollup EXCEPT ![t] = new] /\ t \in Tier /\ new = <<>>
    BY <1>4
  <2> HIDE DEF new, t
  <2>3. BucketsIncreasing' /\ Below'
    BY <1>1, <2>1, <2>2, OneListMoves DEF OrderInv
  <2>4. LedgerNext
    BY <1>1, <2>2, WipesIs
  <2>5. TrimDue'
    <3> SUFFICES ASSUME NEW w \in Writer, writer[w].pc = "trim"
                 PROVE  \/ rollup'[writer[w].tier] = <<>>
                        \/ Len(rollup'[writer[w].tier]) > Keep(writer[w].tier)
      BY <1>1 DEF TrimDue
    <3>1. writer[w].tier \in Tier
      BY AtTier
    <3>2. rollup'[writer[w].tier] = <<>> \/ rollup'[writer[w].tier] = rollup[writer[w].tier]
      BY <1>1, <2>2, <3>1 DEF ListsType
    <3> QED
      BY <3>2 DEF OrderInv, TrimDue
  <2> QED
    BY <1>2, <2>3, <2>4, <2>5 DEF OrderInv, Orders
<1>5. rollup' = rollup \/ (clearing \in Tier /\ rollup' = [rollup EXCEPT ![clearing] = <<>>])
  <2>1. CASE DeleteKey
    <3>1. clearing \in -1 .. Len(Tiers)
      BY TypeParts DEF ClockType
    <3> QED
      BY <2>1, <3>1, TierFacts DEF DeleteKey
  <2> QED
    BY <2>1 DEF Elapse, Clear, vars, lists
<1> QED
  BY <1>3, <1>4, <1>5

LEMMA OrderStep ==
  ASSUME TypeOK, OneWriter, OrderInv, TailInv, [Next]_vars
  PROVE  OrderInv' /\ [LedgerNext]_rollup
<1>1. ASSUME NEW w \in Writer, Write(w)
      PROVE  Orders
  BY <1>1, StampOrders, RawOrders, SetTailOrders, PushBucketOrders, TrimTierOrders, AbandonOrders
     DEF Write
<1>2. Orders
  BY <1>1, ClearOrders DEF Next
<1> QED
  BY <1>2 DEF Orders

LEMMA OrderInit == Init => OrderInv /\ TailInv /\ RollupConserves /\ Ledger!Init
<1> SUFFICES ASSUME Init PROVE OrderInv /\ TailInv /\ RollupConserves /\ Ledger!Init
  OBVIOUS
<1>1. TailInv /\ PointInv /\ TrimDue
  BY DEF Init, TailInv, PointInv, TrimDue, Idle
<1>2. \A t \in Tier : rollup[t] = <<>> /\ Len(rollup[t]) = 0 /\ DOMAIN rollup[t] = {}
  BY DEF Init
<1>3. BucketsIncreasing /\ Below
  BY <1>2 DEF BucketsIncreasing, Below, UpTo
<1>4. RollupConserves
  BY TotalEmpty DEF Init, RollupConserves
<1>5. Ledger!Init
  BY <1>2, LedgerEmpty DEF Ledger!Init
<1> QED
  BY <1>1, <1>3, <1>4, <1>5 DEF OrderInv

\* With one writer the buckets of a tier are aligned and strictly increasing, whatever the clock does
\* between the points of its ticks: no bucket appears twice, and none before an earlier one.
THEOREM BucketsIncreasingHolds ==
  ASSUME OneWriter
  PROVE  Spec => []BucketsIncreasing
<1> DEFINE Inv == TypeOK /\ TailInv /\ RollupConserves /\ OrderInv
<1>1. Init => Inv
  BY TypeInit, OrderInit
<1>2. Inv /\ [Next]_vars => Inv'
  BY Step, OrderStep
<1>3. Inv => BucketsIncreasing
  BY DEF OrderInv
<1> HIDE DEF Inv
<1> QED
  BY <1>1, <1>2, <1>3, PTL DEF Spec

\* With one writer the tiers implement the ledger: a step folds a point into the newest bucket or a
\* newer one, forgets the oldest past the retention, wipes a tier, or leaves every bucket as it is.
\* Failures, restarts and clears between the calls are no exception.
THEOREM ImplementsLedgerHolds ==
  ASSUME OneWriter
  PROVE  Spec => ImplementsLedger
<1> DEFINE Inv == TypeOK /\ TailInv /\ RollupConserves /\ OrderInv
<1>1. Init => Inv /\ Ledger!Init
  BY TypeInit, OrderInit
<1>2. Inv /\ [Next]_vars => Inv' /\ [LedgerNext]_rollup
  BY Step, OrderStep
<1> HIDE DEF Inv
<1> QED
  BY <1>1, <1>2, PTL DEF Spec, ImplementsLedger

-----------------------------------------------------------------------------
(* Reading a window *)

\* A function that goes on to a larger number until it may halt, which it may at the cap.
LEMMA WideningExists ==
  ASSUME NEW cap \in Nat, NEW Halts, \A n \in Nat \ {0} : n >= cap => n \in Halts
  PROVE  \E w : w = [n \in Nat \ {0} |-> IF n \in Halts THEN n ELSE w[MinOf(n * 4, cap)]]
<1> DEFINE Num == Nat \ {0}
           Is(w, n) == w[n] = IF n \in Halts THEN n ELSE w[MinOf(n * 4, cap)]
           S == {k \in Nat : \E w : DOMAIN w = Num /\ \A n \in Num : n + k >= cap => Is(w, n)}
<1>1. ASSUME NEW n \in Num, n \notin Halts
      PROVE  MinOf(n * 4, cap) \in Num /\ MinOf(n * 4, cap) > n
  BY <1>1 DEF MinOf
<1>2. 0 \in S
  <2> DEFINE w == [n \in Num |-> n]
  <2>1. \A n \in Num : n + 0 >= cap => Is(w, n)
    OBVIOUS
  <2>2. DOMAIN w = Num
    OBVIOUS
  <2> HIDE DEF w, Is, Num
  <2> QED
    BY <2>1, <2>2
<1>3. ASSUME NEW k \in Nat, k \in S
      PROVE  k + 1 \in S
  <2>1. PICK w : DOMAIN w = Num /\ \A n \in Num : n + k >= cap => Is(w, n)
    BY <1>3
  <2> DEFINE v == [n \in Num |-> IF n + k >= cap THEN w[n]
                                 ELSE IF n \in Halts THEN n ELSE w[MinOf(n * 4, cap)]]
  <2>2. ASSUME NEW n \in Num, n + k >= cap
        PROVE  v[n] = w[n]
    BY <2>2
  <2>3. ASSUME NEW n \in Num, ~(n + k >= cap)
        PROVE  v[n] = IF n \in Halts THEN n ELSE w[MinOf(n * 4, cap)]
    BY <2>3
  <2>4. DOMAIN v = Num
    OBVIOUS
  <2> HIDE DEF v
  <2>5. ASSUME NEW n \in Num, n + (k + 1) >= cap
        PROVE  Is(v, n)
    <3>1. v[n] = IF n \in Halts THEN n ELSE w[MinOf(n * 4, cap)]
      <4>1. CASE n + k >= cap
        BY <2>1, <2>2, <4>1
      <4>2. CASE ~(n + k >= cap)
        BY <2>3, <4>2
      <4> QED
        BY <4>1, <4>2
    <3>2. ASSUME n \notin Halts
          PROVE  v[MinOf(n * 4, cap)] = w[MinOf(n * 4, cap)]
      <4> DEFINE m == MinOf(n * 4, cap)
      <4>1. m \in Num /\ m > n
        BY <1>1, <3>2
      <4> HIDE DEF m
      <4>2. m + k >= cap
        BY <2>5, <4>1
      <4>3. v[m] = w[m]
        BY <2>2, <4>1, <4>2
      <4> QED
        BY <4>3 DEF m
    <3> QED
      BY <3>1, <3>2
  <2> HIDE DEF Is, Num
  <2> QED
    BY <2>4, <2>5
<1>4. cap \in S
  <2> HIDE DEF S
  <2> QED
    BY <1>2, <1>3, SetInduction
<1>5. PICK w : DOMAIN w = Num /\ \A n \in Num : n + cap >= cap => Is(w, n)
  BY <1>4
<1>6. PICK h : h = [n \in Num |-> w[n]]
  OBVIOUS
<1>7. ASSUME NEW n \in Num
      PROVE  h[n] = IF n \in Halts THEN n ELSE h[MinOf(n * 4, cap)]
  <2>1. n + cap >= cap
    OBVIOUS
  <2>2. h[n] = IF n \in Halts THEN n ELSE w[MinOf(n * 4, cap)]
    BY <1>5, <1>6, <2>1
  <2>3. n \notin Halts => h[MinOf(n * 4, cap)] = w[MinOf(n * 4, cap)]
    BY <1>1, <1>6
  <2> QED
    BY <2>2, <2>3
<1>8. h = [n \in Num |-> IF n \in Halts THEN n ELSE h[MinOf(n * 4, cap)]]
  BY <1>6, <1>7
<1> QED
  BY <1>8

\* How many points may be enough of a list: there are no more, the first is not after `from`, or
\* it is the cap.
Enough(list, from, cap) ==
  {n \in Nat \ {0} : \/ Len(Slice(list, n)) < n
                     \/ Slice(list, n) # <<>> /\ Slice(list, n)[1].timestamp <= from
                     \/ n >= cap}

LEMMA WidenIs ==
  ASSUME NEW list, NEW from, NEW cap \in Nat
  PROVE  LET w == widen(list, from, cap)
         IN  \A n \in Nat \ {0} :
               w[n] = IF n \in Enough(list, from, cap) THEN n ELSE w[MinOf(n * 4, cap)]
<1> DEFINE E == Enough(list, from, cap)
           Is(g) == g = [n \in Nat \ {0} |->
                          LET slice == Slice(list, n)
                              exhausted == Len(slice) < n
                              reached == slice # <<>> /\ slice[1].timestamp <= from
                          IN  IF exhausted \/ reached \/ n >= cap THEN n
                              ELSE g[MinOf(n * 4, cap)]]
           a == CHOOSE g : Is(g)
<1>1. PICK h : h = [n \in Nat \ {0} |-> IF n \in E THEN n ELSE h[MinOf(n * 4, cap)]]
  <2>1. \A n \in Nat \ {0} : n >= cap => n \in E
    BY DEF Enough
  <2> HIDE DEF E
  <2> QED
    BY <2>1, WideningExists
<1>2. \A n \in Nat \ {0} : n \in E <=> \/ Len(Slice(list, n)) < n
                                       \/ Slice(list, n) # <<>> /\ Slice(list, n)[1].timestamp <= from
                                       \/ n >= cap
  BY DEF Enough
<1> HIDE DEF E
<1>3. Is(h)
  BY <1>1, <1>2
<1>4. Is(a)
  BY <1>3, Zenon
<1>5. \A n \in Nat \ {0} : a[n] = IF n \in E THEN n ELSE a[MinOf(n * 4, cap)]
  <2>1. a = [n \in Nat \ {0} |->
              LET slice == Slice(list, n)
                  exhausted == Len(slice) < n
                  reached == slice # <<>> /\ slice[1].timestamp <= from
              IN  IF exhausted \/ reached \/ n >= cap THEN n ELSE a[MinOf(n * 4, cap)]]
    BY <1>4, Zenon
  <2> HIDE DEF a
  <2> QED
    BY <1>2, <2>1
<1>6. widen(list, from, cap) = a
  BY DEF widen
<1> HIDE DEF a
<1> QED
  BY <1>5, <1>6 DEF E

\* The read ends with as many points as are enough, within the cap.
LEMMA WidenEnds ==
  ASSUME NEW list, NEW from, NEW cap \in Nat, NEW first \in 1 .. cap
  PROVE  LET m == widen(list, from, cap)[first]
         IN  m \in 1 .. cap /\ m \in Enough(list, from, cap)
<1> DEFINE w == widen(list, from, cap)
           E == Enough(list, from, cap)
           S == {k \in Nat : \A n \in 1 .. cap : n + k >= cap => w[n] \in 1 .. cap /\ w[n] \in E}
<1>1. \A n \in Nat \ {0} : w[n] = IF n \in E THEN n ELSE w[MinOf(n * 4, cap)]
  BY WidenIs
<1>2. \A n \in Nat \ {0} : n >= cap => n \in E
  BY DEF Enough
<1> HIDE DEF w, E
<1>3. 0 \in S
  BY <1>1, <1>2
<1>4. ASSUME NEW k \in Nat, k \in S
      PROVE  k + 1 \in S
  <2> SUFFICES ASSUME NEW n \in 1 .. cap, n + (k + 1) >= cap
               PROVE  w[n] \in 1 .. cap /\ w[n] \in E
    OBVIOUS
  <2>1. n \in Nat \ {0}
    OBVIOUS
  <2>2. CASE n \in E
    BY <1>1, <2>1, <2>2
  <2>3. CASE n \notin E
    <3> DEFINE m == MinOf(n * 4, cap)
    <3>1. m \in 1 .. cap /\ m > n
      BY <1>2, <2>1, <2>3 DEF MinOf
    <3>2. w[n] = w[m]
      BY <1>1, <2>1, <2>3
    <3> HIDE DEF m
    <3>3. m + k >= cap
      BY <3>1
    <3>4. w[m] \in 1 .. cap /\ w[m] \in E
      BY <1>4, <3>1, <3>3
    <3> QED
      BY <3>2, <3>4
  <2> QED
    BY <2>2, <2>3
<1>5. cap \in S
  <2> HIDE DEF S
  <2> QED
    BY <1>3, <1>4, SetInduction
<1>6. first + cap >= cap
  OBVIOUS
<1> QED
  BY <1>5, <1>6 DEF w, E

LEMMA FirstEstimate ==
  ASSUME NEW span \in Nat, NEW resolution \in Nat \ {0}, NEW cap \in Nat \ {0}
  PROVE  estimatePointsSince(span, resolution, cap) \in 1 .. cap
<1> DEFINE x == span + resolution - 1
           d == x \div resolution
<1>1. x \in Nat
  OBVIOUS
<1> HIDE DEF x
<1>2. d \in Nat
  BY <1>1
<1> HIDE DEF d
<1>3. MinOf(d + 2, cap) \in 1 .. cap
  BY <1>2 DEF MinOf
<1> QED
  BY <1>3 DEF estimatePointsSince, d, x

\* The newest c of a list are those before the newest m of them, and these.
LEMMA SliceSplits ==
  ASSUME NEW list \in Seq(Point), NEW c \in Nat \ {0}, NEW m \in 1 .. c, m <= Len(list)
  PROVE  LET n == Len(list)
             first == IF c >= n THEN 1 ELSE n - c + 1
             before == SubSeq(list, first, n - m)
         IN  /\ first \in 1 .. n - m + 1
             /\ Slice(list, m) = SubSeq(list, n - m + 1, n) /\ Slice(list, m) \in Seq(Point)
             /\ Slice(list, c) = before \o Slice(list, m)
<1> DEFINE n == Len(list)
           first == IF c >= n THEN 1 ELSE n - c + 1
           before == SubSeq(list, first, n - m)
<1>1. n \in Nat /\ m \in 1 .. n /\ SubSeq(list, 1, n) = list /\ \A i \in 1 .. n : list[i] \in Point
  BY SubSeqFull
<1>2. Slice(list, m) = SubSeq(list, n - m + 1, n)
  <2>1. \A x, y \in Nat : x <= y /\ x >= y => x = y /\ y - x + 1 = 1
    OBVIOUS
  <2>2. n \in Nat /\ m \in Nat /\ m <= n
    BY <1>1
  <2>3. m >= n => m = n /\ n - m + 1 = 1
    BY <2>1, <2>2
  <2> QED
    BY <1>1, <2>3 DEF Slice
<1>3. Slice(list, c) = SubSeq(list, first, n)
  BY <1>1 DEF Slice
<1>4. first \in 1 .. n - m + 1
  BY <1>1
<1> HIDE DEF n, first
<1>5. SubSeq(list, first, n - m) \o SubSeq(list, (n - m) + 1, n) = SubSeq(list, first, n)
  <2>1. first \in 1 .. Len(list) + 1 /\ n - m \in first - 1 .. Len(list) /\ n \in n - m .. Len(list)
    BY <1>1, <1>4 DEF n
  <2> QED
    BY <2>1, ConcatAdjacentSubSeq
<1>6. SubSeq(list, n - m + 1, n) \in Seq(Point)
  <2>1. n - m + 1 \in Int /\ n \in Int /\ \A i \in n - m + 1 .. n : list[i] \in Point
    BY <1>1
  <2> QED
    BY <2>1, SubSeqProperties
<1> QED
  BY <1>2, <1>3, <1>4, <1>5, <1>6 DEF n, first

\* The points before the first of a slice are earlier than it.
LEMMA EarlierOnes ==
  ASSUME NEW list \in Seq(Point), NEW e \in Nat \ {0}, Increasing(list, e),
         NEW k \in 1 .. Len(list), NEW first \in 1 .. k
  PROVE  LET before == SubSeq(list, first, k - 1)
         IN  /\ before \in Seq(Point)
             /\ \A p \in Range(before) : p \in Point /\ p.timestamp < list[k].timestamp
<1> DEFINE before == SubSeq(list, first, k - 1)
<1>1. Len(list) \in Nat /\ first \in Int /\ k - 1 \in Int /\ \A i \in 1 .. Len(list) : list[i] \in Point
  BY PointsOf
<1>2. \A i \in first .. k - 1 : list[i] \in Point
  BY <1>1
<1>3. /\ before \in Seq(Point) /\ Len(before) = IF first <= k - 1 THEN (k - 1) - first + 1 ELSE 0
      /\ \A i \in 1 .. (k - 1) - first + 1 : before[i] = list[first + i - 1]
  BY <1>1, <1>2, SubSeqProperties
<1> HIDE DEF before
<1>4. ASSUME NEW p \in Range(before)
      PROVE  p \in Point /\ p.timestamp < list[k].timestamp
  <2>1. PICK i \in 1 .. Len(before) : p = before[i]
    BY <1>3, RangeEquality
  <2>2. i \in 1 .. (k - 1) - first + 1
    BY <1>1, <1>3, <2>1
  <2> DEFINE j == first + i - 1
  <2>3. j \in 1 .. Len(list) /\ j < k /\ p = list[j]
    BY <1>1, <1>3, <2>1, <2>2
  <2> HIDE DEF j
  <2> QED
    BY <1>1, <2>3, IncreasingIsStrict
<1> QED
  BY <1>3, <1>4 DEF before

\* As many points as are enough have all the points of the window that the cap allows.
LEMMA EnoughIsWhole ==
  ASSUME NEW list \in Seq(Point), NEW e \in Nat \ {0}, Increasing(list, e), NEW from \in Nat,
         NEW cap \in Nat \ {0}, NEW m \in 1 .. cap, m \in Enough(list, from, cap)
  PROVE  Among(Slice(list, m), NotBefore(from)) = Among(Slice(list, cap), NotBefore(from))
<1> DEFINE n == Len(list)
           F == NotBefore(from)
<1>1. n \in Nat
  OBVIOUS
<1>2. CASE m = cap
  BY <1>2
<1>3. CASE m > n
  BY <1>1, <1>3 DEF Slice
<1>4. CASE m # cap /\ m <= n
  <2> DEFINE first == IF cap >= n THEN 1 ELSE n - cap + 1
             k == n - m + 1
             before == SubSeq(list, first, n - m)
             slice == Slice(list, m)
  <2>1. /\ first \in 1 .. k /\ slice = SubSeq(list, k, n) /\ slice \in Seq(Point)
        /\ Slice(list, cap) = before \o slice
    BY <1>4, SliceSplits
  <2>2. k \in 1 .. n /\ n - m = k - 1
    BY <1>1, <1>4
  <2>3. Len(slice) = m /\ slice[1] = list[k]
    <3>1. k \in Int /\ n \in Int /\ \A i \in k .. n : list[i] \in Point
      BY <1>1, <2>2
    <3>2. /\ Len(SubSeq(list, k, n)) = IF k <= n THEN n - k + 1 ELSE 0
          /\ \A i \in 1 .. n - k + 1 : SubSeq(list, k, n)[i] = list[k + i - 1]
      BY <3>1, SubSeqProperties
    <3>3. n - k + 1 = m /\ 1 \in 1 .. n - k + 1 /\ k + 1 - 1 = k /\ k <= n
      BY <1>1, <1>4
    <3> QED
      BY <2>1, <3>2, <3>3
  <2>4. list[k].timestamp <= from
    BY <1>4, <2>3 DEF Enough
  <2> HIDE DEF first, slice, n
  <2>5. /\ before \in Seq(Point)
        /\ \A p \in Range(before) : p \in Point /\ p.timestamp < list[k].timestamp
    <3> HIDE DEF k
    <3> QED
      BY <2>1, <2>2, EarlierOnes DEF n
  <2> HIDE DEF before
  <2>6. Range(before) \cap F = {}
    <3>1. ASSUME NEW p \in Range(before), p \in F PROVE FALSE
      <4>1. p.timestamp \in Nat /\ list[k].timestamp \in Nat /\ p.timestamp < list[k].timestamp
        BY <2>2, <2>5, PointsOf DEF Point, n
      <4>2. p.timestamp >= from
        BY <3>1 DEF NotBefore
      <4> QED
        BY <2>4, <4>1, <4>2
    <3> QED
      BY <3>1
  <2>7. Among(before, F) = <<>>
    BY <2>5, <2>6, AmongNone
  <2>8. Among(before \o slice, F) = Among(before, F) \o Among(slice, F)
    BY <2>1, <2>5, AmongConcat
  <2>9. Among(slice, F) \in Seq(Point)
    BY <2>1, AmongType
  <2>10. <<>> \o Among(slice, F) = Among(slice, F)
    BY <2>9, ConcatEmptySeq
  <2> QED
    BY <2>1, <2>7, <2>8, <2>10 DEF slice
<1> QED
  BY <1>1, <1>2, <1>3, <1>4

LEMMA SinceIsWhole ==
  ASSUME NEW list \in Seq(Point), NEW e \in Nat \ {0}, Increasing(list, e), NEW from \in Nat,
         now \in Nat, NEW resolution \in Nat \ {0}, NEW cap \in Nat \ {0}
  PROVE  since(list, from, resolution, cap) = Among(Slice(list, cap), NotBefore(from))
<1> DEFINE span == IF now > from THEN now - from ELSE 0
           first == estimatePointsSince(span, resolution, cap)
           m == widen(list, from, cap)[first]
<1>1. span \in Nat
  OBVIOUS
<1> HIDE DEF span
<1>2. first \in 1 .. cap
  BY <1>1, FirstEstimate
<1> HIDE DEF first
<1>3. m \in 1 .. cap /\ m \in Enough(list, from, cap)
  BY <1>2, WidenEnds
<1>4. since(list, from, resolution, cap) = Among(Slice(list, m), NotBefore(from))
  BY DEF since, m, first, span
<1> HIDE DEF m
<1> QED
  BY <1>3, <1>4, EnoughIsWhole

\* The raw points are in the order of their times, and a point about to be pushed is after them.
RawInv ==
  /\ Increasing(raw, 1)
  /\ \A w \in Writer : UpTo(raw, IF writer[w].pc = "push" THEN stamped[w] - 1 ELSE stamped[w])

LEMMA StampedType ==
  ASSUME ClockType, NEW w \in Writer
  PROVE  stamped[w] \in Int /\ stamped[w] <= now /\ now \in Nat /\ stamped[w] >= -1
  BY TierFacts DEF ClockType

LEMMA RawStep ==
  ASSUME TypeOK, OneWriter, PointInv, RawInv, [Next]_vars
  PROVE  RawInv'
<1>0. WriterType /\ ListsType /\ ClockType /\ raw \in Seq(Point)
  BY TypeParts DEF ListsType
<1>1. ASSUME NEW w \in Writer
      PROVE  /\ \A v \in Writer : v = w
             /\ UpTo(raw, stamped[w]) /\ (writer[w].pc = "push" => UpTo(raw, stamped[w] - 1))
             /\ stamped[w] \in Int
  <2>1. \A i \in 1 .. Len(raw) : raw[i].timestamp \in Nat
    BY <1>0, PointsOf
  <2>2. stamped[w] \in Int
    BY <1>0, StampedType
  <2> QED
    BY <2>1, <2>2 DEF OneWriter, RawInv, UpTo
<1>2. ASSUME NEW w \in Writer, Stamp(w)
      PROVE  RawInv'
  <2>1. stamped' = [stamped EXCEPT ![w] = now] /\ stamped[w] < now /\ raw' = raw
    BY <1>2 DEF Stamp, lists
  <2>2. stamped'[w] = now /\ now \in Nat
    BY <1>0, <2>1, StampedType DEF ClockType
  <2>3. \A i \in 1 .. Len(raw) : raw[i].timestamp \in Nat
    BY <1>0, PointsOf
  <2>4. UpTo(raw, now - 1) /\ UpTo(raw, now)
    BY <1>1, <2>1, <2>2, <2>3 DEF UpTo
  <2> QED
    BY <1>1, <2>1, <2>2, <2>4 DEF RawInv
<1>3. ASSUME NEW w \in Writer, PushRaw(w)
      PROVE  RawInv'
  <2> DEFINE s == writer[w]
             p == s.point
             r == [s EXCEPT !.pc = "trimRaw", !.long = Len(raw') > Raw]
  <2>1. s.pc = "push" /\ raw' = Append(raw, p) /\ Update(w, r) /\ stamped' = stamped
    BY <1>3 DEF PushRaw
  <2>2. s \in Appending /\ s # Idle
    BY <1>0, <2>1, PcIsBusy, AtCall
  <2>3. p \in Point /\ p.timestamp = stamped[w] /\ p.timestamp \in Nat
    BY <2>2, AppendingFields DEF PointInv, Point
  <2>4. r.pc = "trimRaw"
    BY <2>2 DEF Appending
  <2> HIDE DEF r
  <2>5. writer'[w].pc = "trimRaw"
    BY <1>0, <2>1, <2>4 DEF Update, WriterType
  <2> HIDE DEF p
  <2>6. p.timestamp % 1 = 0 /\ p.timestamp <= stamped[w]
    BY <1>1, <2>3
  <2>7. ASSUME raw # <<>>
        PROVE  raw[Len(raw)].timestamp < p.timestamp
    <3>1. Len(raw) \in 1 .. Len(raw) /\ raw[Len(raw)].timestamp \in Nat
      BY <1>0, <2>7, PointsOf, EmptySeq
    <3>2. raw[Len(raw)].timestamp <= stamped[w] - 1
      BY <1>1, <2>1, <3>1 DEF UpTo
    <3> QED
      BY <1>1, <2>3, <3>1, <3>2
  <2>8. Increasing(Append(raw, p), 1) /\ UpTo(Append(raw, p), stamped[w])
    <3>1. 1 \in Nat \ {0} /\ Increasing(raw, 1) /\ UpTo(raw, stamped[w]) /\ stamped[w] \in Int
      BY <1>1 DEF RawInv
    <3> QED
      BY <1>0, <2>3, <2>6, <2>7, <3>1, IncreasingAppend
  <2> QED
    BY <1>1, <2>1, <2>5, <2>8 DEF RawInv
<1>4. ASSUME NEW w \in Writer, TrimRaw(w)
      PROVE  RawInv'
  <2>1. (raw' = DropFirst(raw) \/ raw' = raw) /\ NextTier(w, 0) /\ stamped' = stamped
        /\ writer[w] \in Appending
    BY <1>0, <1>4, PcIsBusy, AtCall DEF TrimRaw
  <2>2. Increasing(DropFirst(raw), 1) /\ UpTo(DropFirst(raw), stamped[w])
    <3>1. 1 \in Nat \ {0} /\ Increasing(raw, 1) /\ UpTo(raw, stamped[w]) /\ stamped[w] \in Int
      BY <1>1 DEF RawInv
    <3> QED
      BY <1>0, <3>1, IncreasingDropFirst
  <2>3. writer'[w].pc # "push"
    BY <1>0, <2>1, NextTierPc, TierFacts
  <2> QED
    BY <1>1, <2>1, <2>2, <2>3 DEF RawInv
<1>5. ASSUME NEW w \in Writer, raw' = raw, stamped' = stamped, writer'[w].pc # "push"
      PROVE  RawInv'
  BY <1>1, <1>5 DEF RawInv
<1>6. ASSUME NEW w \in Writer, ReadTail(w)
      PROVE  writer'[w].pc # "push"
  <2> DEFINE s == writer[w]
             list == rollup[s.tier]
             r == [s EXCEPT !.pc = "write", !.tail = IF list = <<>> THEN <<>> ELSE <<Last(list)>>]
  <2>1. s \in Appending /\ Update(w, r)
    BY <1>0, <1>6, PcIsBusy, AtCall DEF ReadTail
  <2>2. r.pc = "write"
    BY <2>1 DEF Appending
  <2> HIDE DEF r
  <2> QED
    BY <1>0, <2>1, <2>2 DEF Update, WriterType
<1>7. ASSUME NEW w \in Writer, SetTail(w) \/ TrimTier(w)
      PROVE  writer'[w].pc # "push"
  <2>1. writer[w] \in Appending /\ writer[w].tier \in 0 .. Len(Tiers)
    BY <1>0, <1>7, PcIsBusy, AtCall, AppendingFields DEF SetTail, TrimTier
  <2>2. NextTier(w, writer[w].tier) \/ Update(w, Idle)
    BY <1>7 DEF SetTail, TrimTier
  <2> QED
    BY <1>0, <2>1, <2>2, NextTierPc DEF Update, WriterType, Idle
<1>8. ASSUME NEW w \in Writer, PushBucket(w)
      PROVE  writer'[w].pc # "push"
  <2> DEFINE s == writer[w]
             r == [s EXCEPT !.pc = "trim"]
  <2>1. s \in Appending /\ s.tier \in 0 .. Len(Tiers)
    BY <1>0, <1>8, PcIsBusy, AtCall, AppendingFields DEF PushBucket
  <2>2. NextTier(w, s.tier) \/ Update(w, r)
    BY <1>8 DEF PushBucket
  <2>3. r.pc = "trim"
    BY <2>1 DEF Appending
  <2> HIDE DEF r
  <2> QED
    BY <1>0, <2>1, <2>2, <2>3, NextTierPc DEF Update, WriterType
<1>9. ASSUME NEW w \in Writer, Abandon(w)
      PROVE  writer'[w].pc # "push"
  BY <1>0, <1>9 DEF Abandon, Update, WriterType, Idle
<1>10. ASSUME NEW w \in Writer, Write(w)
       PROVE  RawInv'
  <2>1. CASE ReadTail(w) \/ SetTail(w) \/ PushBucket(w) \/ TrimTier(w) \/ Abandon(w)
    <3>1. raw' = raw /\ stamped' = stamped
      BY <2>1 DEF ReadTail, SetTail, PushBucket, TrimTier, Abandon, lists
    <3> QED
      BY <1>5, <1>6, <1>7, <1>8, <1>9, <2>1, <3>1
  <2> QED
    BY <1>2, <1>3, <1>4, <1>10, <2>1 DEF Write
<1>11. CASE Elapse \/ Clear \/ DeleteKey \/ UNCHANGED vars
  <2>1. stamped' = stamped /\ writer' = writer /\ (raw' = raw \/ raw' = <<>>)
    BY <1>11 DEF Elapse, Clear, DeleteKey, vars, lists
  <2>2. Increasing(<<>>, 1) /\ \A top : UpTo(<<>>, top)
    BY DEF Increasing, UpTo
  <2> QED
    BY <2>1, <2>2 DEF RawInv
<1> QED
  BY <1>10, <1>11 DEF Next

\* With one writer a read of a window has every stored point of it, of the newest that the cap of
\* the list allows, whatever the estimate it starts from: dense lists, sparse ones and lists of
\* another interval included (TieredSeries.since).
THEOREM WindowIsCompleteHolds ==
  ASSUME OneWriter
  PROVE  Spec => []WindowIsComplete
<1> DEFINE Inv == TypeOK /\ TailInv /\ RollupConserves /\ OrderInv /\ RawInv
<1>1. Init => Inv
  <2>1. Init => RawInv
    BY DEF Init, RawInv, Increasing, UpTo
  <2> QED
    BY <2>1, TypeInit, OrderInit
<1>2. Inv /\ [Next]_vars => Inv'
  BY Step, OrderStep, RawStep DEF OrderInv
<1>3. Inv => WindowIsComplete
  <2> SUFFICES ASSUME TypeOK, OrderInv, RawInv, NEW from \in 0 .. now
               PROVE  /\ since(raw, from, Interval, Raw) = Among(Slice(raw, Raw), NotBefore(from))
                      /\ \A t \in Tier : since(rollup[t], from, Every(t), Keep(t)) =
                           Among(Slice(rollup[t], Keep(t)), NotBefore(from))
    BY DEF WindowIsComplete
  <2>1. ListsType /\ now \in Nat /\ from \in Nat
    BY TypeParts, TierFacts DEF ClockType
  <2>2. since(raw, from, Interval, Raw) = Among(Slice(raw, Raw), NotBefore(from))
    <3>1. raw \in Seq(Point) /\ Increasing(raw, 1) /\ 1 \in Nat \ {0}
      BY <2>1 DEF ListsType, RawInv
    <3>2. Interval \in Nat \ {0} /\ Raw \in Nat \ {0}
      BY TieredSeriesAssumption DEF TieredSeriesAssumption
    <3> QED
      BY <2>1, <3>1, <3>2, SinceIsWhole
  <2>3. ASSUME NEW t \in Tier
        PROVE  since(rollup[t], from, Every(t), Keep(t)) =
                 Among(Slice(rollup[t], Keep(t)), NotBefore(from))
    <3>1. rollup[t] \in Seq(Point) /\ Increasing(rollup[t], Every(t))
      BY <2>1, IncreasingParts DEF ListsType, OrderInv
    <3>2. Every(t) \in Nat \ {0} /\ Keep(t) \in Nat \ {0}
      BY TierFacts
    <3> QED
      BY <2>1, <3>1, <3>2, SinceIsWhole
  <2> QED
    BY <2>2, <2>3
<1> HIDE DEF Inv
<1> QED
  BY <1>1, <1>2, <1>3, PTL DEF Spec
=============================================================================
