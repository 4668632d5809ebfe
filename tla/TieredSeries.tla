---------------------------- MODULE TieredSeries ----------------------------
(***************************************************************************)
(* The tiered retention of one series (packages/root/src/metrics/          *)
(* tiered-series.ts): a raw list of points, and coarser lists each point   *)
(* is folded into as it is written.  Every Redis call of append is a step, *)
(* so that writers (the collectors of several monitor processes), failed   *)
(* calls, restarts and the clear mutation fall between any two of them.    *)
(*                                                                         *)
(* Abstracted: a point carries its timestamp and one counter; merge adds   *)
(* the counters, as every field of a point that counts events does.  Time  *)
(* advances in units of the finest schedule.                               *)
(***************************************************************************)
EXTENDS Integers, Sequences, FiniteSets, SequencesExt, Sums

CONSTANTS
  Writer,     \* processes that append to the series
  Raw,        \* retention.raw
  Tiers,      \* retention.rollups, finest first: a sequence of [every, keep]
  Interval,   \* the collect interval now configured, which sizes the reads
  MaxTime,    \* bound: the clock
  MaxCount,   \* bound: what one point counts
  MaxFailures,\* bound: failed calls and restarts during an append
  MaxClears   \* bound: clear mutations

ASSUME TieredSeriesAssumption ==
  /\ IsFiniteSet(Writer)
  /\ Raw \in Nat \ {0} /\ Interval \in Nat \ {0}
  /\ Tiers \in Seq([every : Nat \ {0}, keep : Nat \ {0}])
  /\ {MaxTime, MaxCount, MaxFailures, MaxClears} \subseteq Nat

Tier == DOMAIN Tiers
Every(t) == Tiers[t].every
Keep(t) == Tiers[t].keep
Point == [timestamp : Nat, count : Nat]

VARIABLES
  now,       \* the clock points are stamped with
  raw,       \* the raw list
  rollup,    \* the list of each tier
  writer,    \* the append each writer is in
  stamped,   \* when each writer last stamped a point, -1 before
  clearing,  \* the key a clear deletes next: 0 the raw list, then each tier; -1 none
  failures, clears,  \* what is left of the bounds
  folded,    \* history: what was folded into each tier since it was last cleared
  popped     \* history: what left each tier by its retention

lists == <<raw, rollup>>
history == <<folded, popped>>
vars == <<now, raw, rollup, writer, stamped, clearing, failures, clears, folded, popped>>

\* The definitions marked WRONG are bugs this code could have had: each is put in place of the
\* definition after it to see that a property notices.

\* WRONG: the bucket keeps the point's own time.
bucketOfUnaligned(timestamp, every) == timestamp

bucketOf(timestamp, every) == (timestamp \div every) * every

Idle == [pc |-> "idle"]
Update(w, s) == writer' = [writer EXCEPT ![w] = s]

-----------------------------------------------------------------------------

Elapse ==
  /\ now < MaxTime
  /\ now' = now + 1
  /\ UNCHANGED <<lists, writer, clearing, failures, clears, history, stamped>>

\* A tick stamps a point; its append starts then, or later if the counts take long to read.
\* A writer is a chain of ticks that do not overlap: two replicas, or the overlapping ticks of
\* one process, are two writers.
Stamp(w) ==
  /\ writer[w] = Idle /\ stamped[w] < now
  /\ stamped' = [stamped EXCEPT ![w] = now]
  /\ \E n \in 0 .. MaxCount :
       Update(w, [pc |-> "push", tier |-> 0, point |-> [timestamp |-> now, count |-> n],
                  tail |-> <<>>, long |-> FALSE])
  /\ UNCHANGED <<now, lists, clearing, failures, clears, history>>

\* RPUSH of the raw point; the reply's length decides whether the pipeline will trim.
PushRaw(w) ==
  /\ writer[w].pc = "push"
  /\ raw' = Append(raw, writer[w].point)
  /\ Update(w, [writer[w] EXCEPT !.pc = "trimRaw", !.long = Len(raw') > Raw])
  /\ UNCHANGED <<now, rollup, clearing, failures, clears, history, stamped>>

\* WRONG: one tier too many.
NextTierPastLast(w, t) ==
  Update(w, IF t <= Len(Tiers) THEN [writer[w] EXCEPT !.pc = "read", !.tier = t + 1] ELSE Idle)

\* The next tier to fold into after tier t, if there is one.
NextTier(w, t) ==
  Update(w, IF t + 1 \in Tier THEN [writer[w] EXCEPT !.pc = "read", !.tier = t + 1] ELSE Idle)

\* WRONG: the LPOP is never executed.
DropNone(list) == list

\* LPOP.
DropFirst(list) == IF list = <<>> THEN <<>> ELSE Tail(list)

TrimRaw(w) ==
  /\ writer[w].pc = "trimRaw"
  /\ raw' = IF writer[w].long THEN DropFirst(raw) ELSE raw
  /\ NextTier(w, 0)
  /\ UNCHANGED <<now, rollup, clearing, failures, clears, history, stamped>>

\* LRANGE -1 -1: the tail of the tier, if any.
ReadTail(w) ==
  LET list == rollup[writer[w].tier] IN
  /\ writer[w].pc = "read"
  /\ Update(w, [writer[w] EXCEPT !.pc = "write",
                  !.tail = IF list = <<>> THEN <<>> ELSE <<Last(list)>>])
  /\ UNCHANGED <<now, lists, clearing, failures, clears, history, stamped>>

\* Whether the tail that was read is the bucket the point belongs to.
TailIsOpen(w) ==
  LET s == writer[w] IN
  /\ s.tail # <<>>
  /\ bucketOf(s.tail[1].timestamp, Every(s.tier)) = bucketOf(s.point.timestamp, Every(s.tier))

\* WRONG: a counter is taken for a gauge.
MergeNewest(base, next) == [timestamp |-> base.timestamp, count |-> next.count]

\* WRONG: the bucket takes the time of the point.
MergeRestamped(base, next) == [timestamp |-> next.timestamp, count |-> base.count + next.count]

\* The bucket keeps its start, and its counters add up.
Merge(base, next) == [timestamp |-> base.timestamp, count |-> base.count + next.count]

CountFolded(w) == folded' = [folded EXCEPT ![writer[w].tier] = @ + writer[w].point.count]

\* LSET -1: the merged bucket replaces whatever is the tail now; an error without the key.
SetTail(w) ==
  LET s == writer[w]
      list == rollup[s.tier]
  IN  /\ s.pc = "write" /\ TailIsOpen(w)
      /\ \/ /\ list # <<>>
            /\ rollup' = [rollup EXCEPT ![s.tier][Len(list)] = Merge(s.tail[1], s.point)]
            /\ CountFolded(w)
            /\ NextTier(w, s.tier)
         \/ /\ list = <<>>
            /\ Update(w, Idle)
            /\ UNCHANGED <<rollup, folded>>
      /\ UNCHANGED <<now, raw, clearing, failures, clears, popped, stamped>>

\* RPUSH of a new bucket; the reply's length decides whether an LPOP follows.
PushBucket(w) ==
  LET s == writer[w]
      bucket == [s.point EXCEPT !.timestamp = bucketOf(@, Every(s.tier))]
  IN  /\ s.pc = "write" /\ ~TailIsOpen(w)
      /\ rollup' = [rollup EXCEPT ![s.tier] = Append(@, bucket)]
      /\ CountFolded(w)
      /\ IF Len(rollup[s.tier]) + 1 > Keep(s.tier) THEN Update(w, [s EXCEPT !.pc = "trim"])
         ELSE NextTier(w, s.tier)
      /\ UNCHANGED <<now, raw, clearing, failures, clears, popped, stamped>>

TrimTier(w) ==
  LET t == writer[w].tier IN
  /\ writer[w].pc = "trim"
  /\ rollup' = [rollup EXCEPT ![t] = DropFirst(@)]
  /\ popped' = [popped EXCEPT ![t] = @ + IF rollup[t] = <<>> THEN 0 ELSE Head(rollup[t]).count]
  /\ NextTier(w, t)
  /\ UNCHANGED <<now, raw, clearing, failures, clears, folded, stamped>>

\* A call throws, or the process restarts: the append ends where it is.
Abandon(w) ==
  /\ writer[w] # Idle /\ failures > 0
  /\ failures' = failures - 1
  /\ Update(w, Idle)
  /\ UNCHANGED <<now, lists, clearing, clears, history, stamped>>

\* The clear mutation: a pipeline of one DEL per key, not a transaction.
Clear ==
  /\ clearing = -1 /\ clears > 0
  /\ clears' = clears - 1
  /\ clearing' = 0
  /\ UNCHANGED <<now, lists, writer, failures, history, stamped>>

DeleteKey ==
  /\ clearing >= 0
  /\ IF clearing = 0
     THEN raw' = <<>> /\ UNCHANGED <<rollup, history>>
     ELSE /\ rollup' = [rollup EXCEPT ![clearing] = <<>>]
          /\ folded' = [folded EXCEPT ![clearing] = 0]
          /\ popped' = [popped EXCEPT ![clearing] = 0]
          /\ UNCHANGED raw
  /\ clearing' = IF clearing < Len(Tiers) THEN clearing + 1 ELSE -1
  /\ UNCHANGED <<now, writer, failures, clears, stamped>>

-----------------------------------------------------------------------------

Init ==
  /\ now = 0
  /\ raw = <<>>
  /\ rollup = [t \in Tier |-> <<>>]
  /\ writer = [w \in Writer |-> Idle]
  /\ stamped = [w \in Writer |-> -1]
  /\ clearing = -1
  /\ failures = MaxFailures /\ clears = MaxClears
  /\ folded = [t \in Tier |-> 0] /\ popped = [t \in Tier |-> 0]

Write(w) ==
  \/ Stamp(w) \/ PushRaw(w) \/ TrimRaw(w) \/ ReadTail(w) \/ SetTail(w) \/ PushBucket(w)
  \/ TrimTier(w) \/ Abandon(w)

Next == Elapse \/ (\E w \in Writer : Write(w)) \/ Clear \/ DeleteKey
Spec == Init /\ [][Next]_vars

-----------------------------------------------------------------------------
(* Reads: the tail slice of `since`, widened until it covers the window.    *)

\* LRANGE -n -1.
Slice(list, n) == IF n >= Len(list) THEN list ELSE SubSeq(list, Len(list) - n + 1, Len(list))
MinOf(a, b) == IF a < b THEN a ELSE b

estimatePointsSince(span, resolution, cap) ==
  MinOf((span + resolution - 1) \div resolution + 2, cap)

\* WRONG: the first estimate is trusted.
widenNever(list, from, cap) == [n \in Nat \ {0} |-> n]

\* How many points the read ends up asking for.
widen(list, from, cap) ==
  LET w[n \in Nat \ {0}] ==
        LET slice == Slice(list, n)
            exhausted == Len(slice) < n
            reached == slice # <<>> /\ slice[1].timestamp <= from
        IN  IF exhausted \/ reached \/ n >= cap THEN n ELSE w[MinOf(n * 4, cap)]
  IN  w

NotBefore(from) == {p \in Point : p.timestamp >= from}

\* The points of a list a read since `from` returns, at time `now`.
since(list, from, resolution, cap) ==
  LET first == estimatePointsSince(IF now > from THEN now - from ELSE 0, resolution, cap)
      slice == Slice(list, widen(list, from, cap)[first])
  IN  Among(slice, NotBefore(from))

-----------------------------------------------------------------------------

\* An append in progress; it is at a tier once the raw list is done.
Appending ==
  {s \in [pc : {"push", "trimRaw", "read", "write", "trim"}, tier : 0 .. Len(Tiers), point : Point,
         tail : Seq(Point), long : BOOLEAN] : s.pc \in {"read", "write", "trim"} <=> s.tier # 0}

\* Every variable stays in its type.
TypeOK ==
  /\ now \in 0 .. MaxTime
  /\ raw \in Seq(Point)
  /\ rollup \in [Tier -> Seq(Point)]
  /\ writer \in [Writer -> Appending \cup {Idle}]
  /\ stamped \in [Writer -> -1 .. now]
  /\ clearing \in -1 .. Len(Tiers)
  /\ failures \in Nat /\ clears \in Nat
  /\ folded \in [Tier -> Nat] /\ popped \in [Tier -> Nat]

Total(list) == SumTo(Len(list), [i \in 1 .. Len(list) |-> list[i].count])

\* Each tier holds exactly what was folded into it, but for what its retention dropped: no
\* crossing of reads and writes loses or doubles a count.
RollupConserves == \A t \in Tier : Total(rollup[t]) + popped[t] = folded[t]

\* The buckets of a tier are aligned and strictly increasing: no bucket appears twice.
BucketsIncreasing ==
  \A t \in Tier : \A i \in DOMAIN rollup[t] :
    /\ rollup[t][i].timestamp % Every(t) = 0
    /\ i > 1 => rollup[t][i - 1].timestamp < rollup[t][i].timestamp

Trimming(t) == {w \in Writer : writer[w].pc = "trim" /\ writer[w].tier = t}

\* A list is over its retention only while its writers are about to trim it, or by one point
\* per append that failed before its trim: nothing else ever makes it outgrow its cap.
LengthBounded ==
  LET lost == MaxFailures - failures
      trimming == {w \in Writer : writer[w].pc = "trimRaw" /\ writer[w].long}
  IN  /\ Len(raw) <= Raw + Cardinality(trimming) + lost
      /\ \A t \in Tier : Len(rollup[t]) <= Keep(t) + Cardinality(Trimming(t)) + lost

\* A read since `from` returns every stored point of the window (of the newest `cap` points):
\* the estimate never truncates it, however dense or sparse the list is.
WindowIsComplete ==
  \A from \in 0 .. now :
    /\ since(raw, from, Interval, Raw) = Among(Slice(raw, Raw), NotBefore(from))
    /\ \A t \in Tier : since(rollup[t], from, Every(t), Keep(t)) =
         Among(Slice(rollup[t], Keep(t)), NotBefore(from))

\* The lists as a ledger from bucket start to total.
LedgerOf(list) ==
  [b \in {list[i].timestamp : i \in DOMAIN list} |->
     list[CHOOSE i \in DOMAIN list : list[i].timestamp = b].count]
Ledger == INSTANCE RollupLedger WITH ledger <- [t \in Tier |-> LedgerOf(rollup[t])]

LedgerNext ==
  \E t \in Tier :
    \/ \E b \in 0 .. MaxTime, n \in 0 .. MaxCount : Ledger!Fold(t, b, n)
    \/ \E b \in 0 .. MaxTime : Ledger!Forget(t, b)
    \/ Ledger!Wipe(t)

\* The tiers implement the ledger: only the open bucket grows, closed buckets are immutable
\* and only the oldest past the retention is dropped, restarts and failures included.
ImplementsLedger == Ledger!Init /\ [][LedgerNext]_rollup
=============================================================================
