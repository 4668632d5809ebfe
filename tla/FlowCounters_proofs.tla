-------------------------- MODULE FlowCounters_proofs --------------------------
(* Theorems about the traces of a flow and what is counted of its jobs, for any queues, steps, *)
(* limits and bounds.                                                                          *)
EXTENDS FlowCounters, Sums_proofs, SequenceTheorems

TraceRecord == [id : Nat, hop : Nat, parent : Nat]

\* The jobs are a sequence of records with a trace, whatever else these hold.
JobsHaveTraces ==
  /\ \E S : jobs \in Seq(S)
  /\ \A i \in DOMAIN jobs : "trace" \in DOMAIN jobs[i] /\ jobs[i].trace \in TraceRecord

\* A trace has the id it was opened with: one given out by then.
OpenedBefore == \A i \in DOMAIN jobs : Traced(i) => jobs[i].trace.id \in 1 .. i

TraceInv == JobsHaveTraces /\ OpenedBefore /\ HopsFollow

\* Where the invariant reads the jobs, in a later state or a former.
SameTraces ==
  /\ \E S : jobs' \in Seq(S)
  /\ DOMAIN jobs' = DOMAIN jobs
  /\ \A i \in DOMAIN jobs : "trace" \in DOMAIN jobs'[i] /\ jobs'[i].trace = jobs[i].trace

LEMMA LimitsType == MaxHop \in Nat /\ MaxJobs \in Nat
  BY FlowCountersAssumption DEF FlowCountersAssumption

\* The trace of a job that follows another.
LEMMA TraceFields ==
  ASSUME NEW t \in TraceRecord, NEW parent \in Nat
  PROVE  LET n == [t EXCEPT !.hop = @ + 1, !.parent = parent]
         IN  n \in TraceRecord /\ n.id = t.id /\ n.hop = t.hop + 1 /\ n.parent = parent
<1> DEFINE m == [t EXCEPT !.hop = t.hop + 1]
           n == [m EXCEPT !.parent = parent]
<1>1. m \in TraceRecord /\ m.id = t.id /\ m.hop = t.hop + 1
  BY DEF TraceRecord
<1>2. n \in TraceRecord /\ n.id = m.id /\ n.hop = m.hop /\ n.parent = parent
  BY <1>1 DEF TraceRecord
<1>3. [t EXCEPT !.hop = @ + 1, !.parent = parent] = n
  BY DEF TraceRecord
<1> QED
  BY <1>1, <1>2, <1>3

LEMMA InitTraces == Init => TraceInv
<1> SUFFICES ASSUME Init PROVE TraceInv
  OBVIOUS
<1>1. jobs = <<>> /\ jobs \in Seq({})
  BY EmptySeq DEF Init
<1>2. DOMAIN jobs = {}
  BY <1>1
<1> QED
  BY <1>1, <1>2 DEF TraceInv, JobsHaveTraces, OpenedBefore, HopsFollow

\* A step that leaves the traces alone keeps the invariant.
LEMMA SameTracesKeep ==
  ASSUME TraceInv, SameTraces
  PROVE  TraceInv'
<1>1. JobsHaveTraces'
  BY DEF TraceInv, JobsHaveTraces, SameTraces
<1>2. \A i \in DOMAIN jobs : Traced(i)' = Traced(i)
  BY DEF SameTraces, Traced
<1>3. OpenedBefore'
  BY <1>2 DEF TraceInv, OpenedBefore, SameTraces
<1>4. HopsFollow'
  <2>1. DOMAIN jobs = 1 .. Len(jobs) /\ Len(jobs) \in Nat
    BY LenProperties DEF TraceInv, JobsHaveTraces
  <2>2. \A i \in DOMAIN jobs : \A k \in 1 .. i - 1 : k \in DOMAIN jobs
    BY <2>1
  <2>3. \A i \in DOMAIN jobs : jobs'[i].trace = jobs[i].trace
    BY DEF SameTraces
  <2>4. DOMAIN jobs' = DOMAIN jobs
    BY DEF SameTraces
  <2> QED
    BY <2>2, <2>3, <2>4 DEF TraceInv, HopsFollow
<1> QED
  BY <1>1, <1>3, <1>4 DEF TraceInv

\* What the trace of a new job must be.
Follows(trace) ==
  LET n == Len(jobs) + 1
  IN  /\ trace.id # 0 => trace.id \in 1 .. n
      /\ trace.hop <= MaxHop
      /\ trace.hop > 0 => \E k \in 1 .. n - 1 : /\ jobs[k].trace.id = trace.id
                                               /\ jobs[k].trace.hop = trace.hop - 1
                                               /\ trace.parent \in {0, k}

LEMMA AddKeepsTraces ==
  ASSUME TraceInv, NEW kind, NEW trace \in TraceRecord, Follows(trace), Add(kind, trace)
  PROVE  TraceInv'
<1> DEFINE r == [kind |-> kind, trace |-> trace, status |-> "queued", ends |-> FALSE, point |-> 0,
                 found |-> "live"]
           n == Len(jobs) + 1
<1>1. PICK S : jobs \in Seq(S)
  BY DEF TraceInv, JobsHaveTraces
<1>2. jobs \in Seq(S \cup {r})
  BY <1>1, SeqMonotonic
<1>3. jobs' = Append(jobs, r)
  BY DEF Add
<1>4. "trace" \in DOMAIN r /\ r.trace = trace
  OBVIOUS
<1> HIDE DEF r
<1>5. Len(jobs) \in Nat /\ DOMAIN jobs = 1 .. Len(jobs)
  BY <1>1, LenProperties
<1>6. /\ jobs' \in Seq(S \cup {r}) /\ DOMAIN jobs' = 1 .. n
      /\ \A i \in DOMAIN jobs : jobs'[i] = jobs[i]
      /\ jobs'[n] = r
  BY <1>2, <1>3, <1>5, AppendProperties, LenProperties
<1>7. \A i \in DOMAIN jobs' : i = n \/ i \in DOMAIN jobs
  BY <1>5, <1>6
<1>8. JobsHaveTraces'
  BY <1>4, <1>6, <1>7 DEF TraceInv, JobsHaveTraces
<1>9. OpenedBefore'
  BY <1>4, <1>6, <1>7 DEF TraceInv, OpenedBefore, Follows, Traced
<1>10. HopsFollow'
  <2> SUFFICES ASSUME NEW i \in DOMAIN jobs'
               PROVE  LET t == jobs'[i].trace IN
                        /\ t.hop <= MaxHop
                        /\ t.hop > 0 => \E k \in 1 .. i - 1 : /\ jobs'[k].trace.id = t.id
                                                             /\ jobs'[k].trace.hop = t.hop - 1
                                                             /\ t.parent \in {0, k}
    BY DEF HopsFollow
  <2>1. \A k \in 1 .. i - 1 : jobs'[k] = jobs[k]
    BY <1>5, <1>6
  <2>2. CASE i = n
    BY <2>1, <2>2, <1>4, <1>6 DEF Follows
  <2>3. CASE i \in DOMAIN jobs
    <3>1. jobs'[i] = jobs[i]
      BY <2>3, <1>6
    <3> QED
      BY <2>1, <2>3, <3>1 DEF TraceInv, HopsFollow
  <2> QED
    BY <2>2, <2>3, <1>7
<1> QED
  BY <1>8, <1>9, <1>10 DEF TraceInv

LEMMA NoTraceFollows == NoTrace \in TraceRecord /\ Follows(NoTrace)
  BY LimitsType DEF NoTrace, TraceRecord, Follows

LEMMA NewTraceFollows ==
  ASSUME TraceInv, NEW id \in KnownIds \cup {FreshId}, NEW parent \in Nat
  PROVE  NewTrace(id, parent) \in TraceRecord /\ Follows(NewTrace(id, parent))
<1>1. Len(jobs) \in Nat /\ DOMAIN jobs = 1 .. Len(jobs)
  BY LenProperties DEF TraceInv, JobsHaveTraces
<1>2. id \in 1 .. Len(jobs) + 1
  <2>1. CASE id = FreshId
    BY <1>1, <2>1 DEF FreshId
  <2>2. CASE id \in KnownIds
    <3>1. PICK i \in DOMAIN jobs : id = jobs[i].trace.id /\ id # 0
      BY <2>2 DEF KnownIds
    <3>2. id \in 1 .. i /\ i \in 1 .. Len(jobs)
      BY <1>1, <3>1 DEF TraceInv, OpenedBefore, Traced
    <3> QED
      BY <1>1, <3>2
  <2> QED
    BY <2>1, <2>2
<1>3. NewTrace(id, parent) \in TraceRecord
  BY <1>1, <1>2 DEF NewTrace, TraceRecord
<1>4. Follows(NewTrace(id, parent))
  BY <1>1, <1>2, LimitsType DEF NewTrace, Follows
<1> QED
  BY <1>3, <1>4

LEMMA NextTraceFollows ==
  ASSUME TraceInv, NEW i \in DOMAIN jobs, Traced(i), NEW parent \in {i, 0}
  PROVE  NextTrace(i, parent) \in TraceRecord /\ Follows(NextTrace(i, parent))
<1>1. Len(jobs) \in Nat /\ DOMAIN jobs = 1 .. Len(jobs)
  BY LenProperties DEF TraceInv, JobsHaveTraces
<1>2. CASE AtHopLimit(jobs[i].trace)
  BY <1>2, NoTraceFollows DEF NextTrace
<1>3. CASE ~AtHopLimit(jobs[i].trace)
  <2> DEFINE t == jobs[i].trace
             n == [t EXCEPT !.hop = @ + 1, !.parent = parent]
  <2>1. t \in TraceRecord /\ t.id \in 1 .. i /\ parent \in Nat
    BY <1>1 DEF TraceInv, JobsHaveTraces, OpenedBefore, Traced
  <2>2. NextTrace(i, parent) = n
    BY <1>3 DEF NextTrace
  <2>3. t.hop \in Nat /\ t.hop < MaxHop
    BY <1>3, <2>1, LimitsType DEF AtHopLimit, TraceRecord
  <2>4. n \in TraceRecord /\ n.id = t.id /\ n.hop = t.hop + 1 /\ n.parent = parent
    <3> HIDE DEF t
    <3> QED
      BY <2>1, TraceFields
  <2> HIDE DEF n
  <2>5. Follows(n)
    <3>1. n.id \in 1 .. Len(jobs) + 1
      BY <1>1, <2>1, <2>4
    <3>2. n.hop <= MaxHop
      BY <2>3, <2>4, LimitsType
    <3>3. /\ i \in 1 .. (Len(jobs) + 1) - 1 /\ jobs[i].trace.id = n.id
          /\ jobs[i].trace.hop = n.hop - 1 /\ n.parent \in {0, i}
      BY <1>1, <2>3, <2>4
    <3> QED
      BY <3>1, <3>2, <3>3 DEF Follows
  <2> QED
    BY <2>2, <2>4, <2>5
<1> QED
  BY <1>2, <1>3

\* An event changes what is known of a job, never the trace in its data.
LEMMA UpdateKeepsTraces ==
  ASSUME TraceInv, NEW i \in DOMAIN jobs, NEW r, jobs' = [jobs EXCEPT ![i] = r],
         "trace" \in DOMAIN r, r.trace = jobs[i].trace
  PROVE  SameTraces
<1>1. PICK S : jobs \in Seq(S)
  BY DEF TraceInv, JobsHaveTraces
<1>2. jobs \in Seq(S \cup {r}) /\ DOMAIN jobs = 1 .. Len(jobs)
  BY <1>1, SeqMonotonic, LenProperties
<1>3. jobs' \in Seq(S \cup {r})
  BY <1>2, ExceptSeq
<1> QED
  BY <1>3 DEF SameTraces, TraceInv, JobsHaveTraces

LEMMA NextKeepsTraces ==
  ASSUME TraceInv, [Next]_vars
  PROVE  TraceInv'
<1>1. ASSUME NEW i \in DOMAIN jobs
      PROVE  "trace" \in DOMAIN jobs[i] /\ i \in Nat
  BY <1>1, LenProperties DEF TraceInv, JobsHaveTraces
<1>2. ASSUME NEW kind \in Kind, Start(kind)
      PROVE  TraceInv'
  <2>1. CASE Add(kind, NoTrace)
    BY <2>1, AddKeepsTraces, NoTraceFollows
  <2>2. CASE ~Add(kind, NoTrace)
    <3>1. PICK id \in KnownIds \cup {FreshId}, parent \in {0} \cup (Origins \cap DOMAIN jobs) :
            Add(kind, NewTrace(id, parent))
      BY <1>2, <2>2 DEF Start
    <3>2. parent \in Nat
      BY <1>1
    <3> QED
      BY <3>1, <3>2, AddKeepsTraces, NewTraceFollows
  <2> QED
    BY <2>1, <2>2
<1>3. ASSUME NEW kind \in Kind, NEW i \in DOMAIN jobs, Child(i, kind)
      PROVE  TraceInv'
  <2>1. CASE Add(kind, NoTrace)
    BY <2>1, AddKeepsTraces, NoTraceFollows
  <2>2. CASE ~Add(kind, NoTrace)
    <3>1. PICK parent \in {i, 0} :
            Add(kind, IF Traced(i) THEN NextTrace(i, parent) ELSE NewTrace(FreshId, parent))
      BY <1>3, <2>2 DEF Child
    <3>2. parent \in Nat
      BY <1>1
    <3>3. CASE Traced(i)
      BY <3>1, <3>3, AddKeepsTraces, NextTraceFollows
    <3>4. CASE ~Traced(i)
      BY <3>1, <3>2, <3>4, AddKeepsTraces, NewTraceFollows
    <3> QED
      BY <3>3, <3>4
  <2> QED
    BY <2>1, <2>2
<1>4. ASSUME NEW i \in DOMAIN jobs, NEW completed \in BOOLEAN, Ingest(i, completed)
      PROVE  TraceInv'
  <2> DEFINE r == [jobs[i] EXCEPT !.status = IF Waits(i) THEN "waits" ELSE "counted",
                                  !.ends = Ends(i, completed), !.point = Accumulator]
  <2>1. jobs' = [jobs EXCEPT ![i] = r]
    BY <1>4 DEF Ingest
  <2>2. "trace" \in DOMAIN r /\ r.trace = jobs[i].trace
    BY <1>1
  <2> HIDE DEF r
  <2> QED
    BY <2>1, <2>2, UpdateKeepsTraces, SameTracesKeep
<1>5. ASSUME NEW i \in DOMAIN jobs, Ignore(i)
      PROVE  TraceInv'
  <2> DEFINE r == [jobs[i] EXCEPT !.status = "ignored"]
  <2>1. jobs' = [jobs EXCEPT ![i] = r]
    BY <1>5 DEF Ignore
  <2>2. "trace" \in DOMAIN r /\ r.trace = jobs[i].trace
    BY <1>1
  <2> HIDE DEF r
  <2> QED
    BY <2>1, <2>2, UpdateKeepsTraces, SameTracesKeep
<1>6. ASSUME NEW i \in DOMAIN jobs, Lose(i)
      PROVE  TraceInv'
  <2> DEFINE r == [jobs[i] EXCEPT !.status = "lost", !.point = Accumulator]
  <2>1. jobs' = [jobs EXCEPT ![i] = r]
    BY <1>6 DEF Lose
  <2>2. "trace" \in DOMAIN r /\ r.trace = jobs[i].trace
    BY <1>1
  <2> HIDE DEF r
  <2> QED
    BY <2>1, <2>2, UpdateKeepsTraces, SameTracesKeep
<1>7. ASSUME NEW i \in DOMAIN jobs, Resolved(i)
      PROVE  TraceInv'
  <2> DEFINE r == [jobs[i] EXCEPT !.status = "counted",
                                  !.found = points[jobs[i].point].stage]
  <2>1. jobs' = [jobs EXCEPT ![i] = r]
    BY <1>7 DEF Resolved
  <2>2. "trace" \in DOMAIN r /\ r.trace = jobs[i].trace
    BY <1>1
  <2> HIDE DEF r
  <2> QED
    BY <2>1, <2>2, UpdateKeepsTraces, SameTracesKeep
<1>8. ASSUME UNCHANGED jobs
      PROVE  TraceInv'
  <2>1. SameTraces
    BY <1>8 DEF SameTraces, TraceInv, JobsHaveTraces
  <2> QED
    BY <2>1, SameTracesKeep
<1>9. CASE Drain \/ \E g \in DOMAIN points : PushRaw(g) \/ Fold(g)
  BY <1>8, <1>9 DEF Drain, PushRaw, Fold
<1>10. CASE UNCHANGED vars
  BY <1>8, <1>10 DEF vars
<1> QED
  BY <1>2, <1>3, <1>4, <1>5, <1>6, <1>7, <1>9, <1>10 DEF Next

\* No trace goes past MaxHop hops, and a job at a later hop than the first was enqueued after one
\* of its trace a hop before, its parent when it names one (withTrace, continueTrace): whatever
\* ids the traces are opened with, and whatever becomes of the events.
THEOREM HopsFollowHolds == Spec => []HopsFollow
<1>1. TraceInv => HopsFollow
  BY DEF TraceInv
<1> QED
  BY <1>1, InitTraces, NextKeepsTraces, PTL DEF Spec

-----------------------------------------------------------------------------

Steps == {Resolve(k[1], k[2]) : k \in Kind}
Edge == ((Steps \cup {Unknown}) \X Steps) \cup {Other}

\* The edges of a point leave room for the others.
Within(D) ==
  IsFiniteSet(D) /\ Cardinality(D) <= (IF Other \in D THEN MaxEdges ELSE MaxEdges - 1)
EdgeMap == {f \in UNION {[D -> Nat] : D \in SUBSET Edge} : Within(DOMAIN f)}

Occurrences(edges) == UNION {{e} \X (1 .. edges[e]) : e \in DOMAIN edges}

LEMMA EdgeMapIs ==
  ASSUME NEW f
  PROVE  f \in EdgeMap <=> DOMAIN f \subseteq Edge /\ f \in [DOMAIN f -> Nat] /\ Within(DOMAIN f)
  BY DEF EdgeMap

\* The counts with k counted n times more.
CountsMore(f, g, k, n) ==
  /\ f \in [DOMAIN f -> Nat] /\ DOMAIN g = DOMAIN f \cup {k}
  /\ \A e \in DOMAIN f : e # k => g[e] = f[e]
  /\ g[k] = (IF k \in DOMAIN f THEN f[k] ELSE 0) + n

\* An edge counted n times more occurs n times more.
LEMMA OccursMore ==
  ASSUME NEW f, NEW g, NEW k, NEW n \in Nat, IsFiniteSet(Occurrences(f)), CountsMore(f, g, k, n)
  PROVE  /\ IsFiniteSet(Occurrences(g))
         /\ Cardinality(Occurrences(g)) = Cardinality(Occurrences(f)) + n
<1> DEFINE old == IF k \in DOMAIN f THEN f[k] ELSE 0
<1>0. /\ old \in Nat /\ f \in [DOMAIN f -> Nat] /\ DOMAIN g = DOMAIN f \cup {k}
      /\ \A e \in DOMAIN f : e # k => g[e] = f[e]
      /\ g[k] = old + n /\ (k \in DOMAIN f => f[k] = old) /\ (k \notin DOMAIN f => old = 0)
  BY DEF CountsMore
<1> HIDE DEF old
<1> USE <1>0
<1> DEFINE F == Occurrences(f)
           I == old + 1 .. old + n
           A == {k} \X I
<1>1. IsFiniteSet(A) /\ Cardinality(A) = n
  <2>1. IsFiniteSet(I) /\ Cardinality(I) = n
    <3>1. old + 1 \in Int /\ old + n \in Int
      OBVIOUS
    <3>2. IsFiniteSet(I) /\ Cardinality(I) = IF old + 1 > old + n THEN 0 ELSE (old + n) - (old + 1) + 1
      BY <3>1, FS_Interval
    <3>3. (IF old + 1 > old + n THEN 0 ELSE (old + n) - (old + 1) + 1) = n
      OBVIOUS
    <3> QED
      BY <3>2, <3>3
  <2>2. IsFiniteSet({k}) /\ Cardinality({k}) = 1
    BY FS_Singleton
  <2> HIDE DEF I
  <2>3. IsFiniteSet(A) /\ Cardinality(A) = Cardinality({k}) * Cardinality(I)
    BY <2>1, <2>2, FS_Product
  <2> QED
    BY <2>1, <2>2, <2>3
<1>2. Occurrences(g) = F \cup A
  <2>1. ASSUME NEW x \in Occurrences(g)
        PROVE  x \in F \cup A
    <3>1. PICK e \in DOMAIN g : x \in {e} \X (1 .. g[e])
      BY DEF Occurrences
    <3>2. CASE e # k
      <4>1. e \in DOMAIN f /\ g[e] = f[e]
        BY <3>2
      <4> QED
        BY <3>1, <4>1 DEF Occurrences
    <3>3. CASE e = k
      <4>1. PICK i \in 1 .. old + n : x = <<k, i>>
        BY <3>1, <3>3
      <4>2. CASE i <= old
        <5>1. k \in DOMAIN f /\ i \in 1 .. f[k]
          BY <4>2
        <5> QED
          BY <4>1, <5>1 DEF Occurrences
      <4>3. CASE ~(i <= old)
        BY <4>1, <4>3
      <4> QED
        BY <4>2, <4>3
    <3> QED
      BY <3>2, <3>3
  <2>2. ASSUME NEW x \in F
        PROVE  x \in Occurrences(g)
    <3>1. PICK e \in DOMAIN f : x \in {e} \X (1 .. f[e])
      BY DEF Occurrences
    <3>2. e \in DOMAIN g /\ 1 .. f[e] \subseteq 1 .. g[e]
      BY <3>1
    <3> QED
      BY <3>1, <3>2 DEF Occurrences
  <2>3. ASSUME NEW x \in A
        PROVE  x \in Occurrences(g)
    <3>1. x \in {k} \X (1 .. g[k]) /\ k \in DOMAIN g
      OBVIOUS
    <3> QED
      BY <3>1 DEF Occurrences
  <2> QED
    BY <2>1, <2>2, <2>3
<1>3. F \cap A = {}
  <2> SUFFICES ASSUME NEW x \in F, x \in A PROVE FALSE
    OBVIOUS
  <2>1. PICK e \in DOMAIN f : x \in {e} \X (1 .. f[e])
    BY DEF Occurrences
  <2>2. PICK i \in I : x = <<k, i>>
    OBVIOUS
  <2>3. e = k /\ i \in 1 .. f[k]
    BY <2>1, <2>2
  <2> QED
    BY <2>2, <2>3
<1> HIDE DEF F, A
<1>4. IsFiniteSet(F \cup A) /\ Cardinality(F \cup A) = Cardinality(F) + Cardinality(A) - Cardinality(F \cap A)
  BY <1>1, FS_Union DEF F
<1>5. Cardinality(F \cap A) = 0
  BY <1>3, FS_EmptySet
<1>6. Cardinality(F) \in Nat
  BY FS_CardinalityType DEF F
<1> QED
  BY <1>1, <1>2, <1>4, <1>5, <1>6 DEF F

\* What has been added of the edges, m at a time.
Part(edges, order, m) == [e \in {order[i] : i \in 1 .. m} |-> edges[e]]

LEMMA PartMore ==
  ASSUME NEW edges \in EdgeMap, NEW order, NEW N \in Nat, NEW m \in Nat, m < N,
         order \in [1 .. N -> DOMAIN edges],
         \A i, k \in 1 .. N : order[i] = order[k] => i = k,
         IsFiniteSet(Occurrences(Part(edges, order, m)))
  PROVE  /\ IsFiniteSet(Occurrences(Part(edges, order, m + 1)))
         /\ Cardinality(Occurrences(Part(edges, order, m + 1)))
              = Cardinality(Occurrences(Part(edges, order, m))) + edges[order[m + 1]]
         /\ edges[order[m + 1]] \in Nat
<1> DEFINE f == Part(edges, order, m)
           g == Part(edges, order, m + 1)
           k == order[m + 1]
           n == edges[k]
<1>1. edges \in [DOMAIN edges -> Nat]
  BY EdgeMapIs
<1>2. m + 1 \in 1 .. N /\ \A i \in 1 .. m : i \in 1 .. N /\ i # m + 1
  OBVIOUS
<1>3. k \in DOMAIN edges /\ n \in Nat /\ \A i \in 1 .. m : order[i] \in DOMAIN edges /\ order[i] # k
  BY <1>1, <1>2
<1>4. DOMAIN f = {order[i] : i \in 1 .. m} /\ \A e \in DOMAIN f : f[e] = edges[e]
  BY DEF Part
<1>5. DOMAIN g = {order[i] : i \in 1 .. m + 1} /\ \A e \in DOMAIN g : g[e] = edges[e]
  BY DEF Part
<1>6. f \in [DOMAIN f -> Nat]
  <2>1. \A e \in DOMAIN f : f[e] \in Nat
    BY <1>1, <1>3, <1>4
  <2> QED
    BY <2>1 DEF Part
<1>7. k \notin DOMAIN f /\ k \in DOMAIN g
  BY <1>2, <1>3, <1>4, <1>5
<1>8. DOMAIN g = DOMAIN f \cup {k}
  <2>1. 1 .. m + 1 = (1 .. m) \cup {m + 1}
    OBVIOUS
  <2> QED
    BY <1>4, <1>5, <2>1
<1> HIDE DEF f, g, k, n
<1>9. g[k] = 0 + n /\ \A e \in DOMAIN f : g[e] = f[e]
  BY <1>3, <1>4, <1>5, <1>7, <1>8 DEF n
<1>10. IsFiniteSet(Occurrences(g)) /\ Cardinality(Occurrences(g)) = Cardinality(Occurrences(f)) + n
  <2>1. CountsMore(f, g, k, n)
    BY <1>3, <1>6, <1>7, <1>8, <1>9 DEF CountsMore
  <2>2. IsFiniteSet(Occurrences(f))
    BY DEF f
  <2> QED
    BY <1>3, <2>1, <2>2, OccursMore
<1> QED
  BY <1>3, <1>10 DEF f, g, k, n

LEMMA PartNone ==
  ASSUME NEW edges, NEW order
  PROVE  Occurrences(Part(edges, order, 0)) = {}
<1>1. DOMAIN Part(edges, order, 0) = {}
  BY DEF Part
<1> QED
  BY <1>1 DEF Occurrences

LEMMA PartAll ==
  ASSUME NEW edges \in EdgeMap
  PROVE  LET N == Cardinality(DOMAIN edges)
             order == Enumeration(DOMAIN edges)
         IN  /\ N \in Nat /\ order \in [1 .. N -> DOMAIN edges]
             /\ \A i, k \in 1 .. N : order[i] = order[k] => i = k
             /\ Part(edges, order, N) = edges
<1> DEFINE N == Cardinality(DOMAIN edges)
           order == Enumeration(DOMAIN edges)
<1>1. IsFiniteSet(DOMAIN edges) /\ edges \in [DOMAIN edges -> Nat]
  BY EdgeMapIs DEF Within
<1>2. /\ N \in Nat /\ order \in [1 .. N -> DOMAIN edges]
      /\ \A i, k \in 1 .. N : order[i] = order[k] => i = k
      /\ \A y \in DOMAIN edges : \E i \in 1 .. N : order[i] = y
  BY <1>1, EnumerationIsOne
<1> HIDE DEF N, order
<1>3. {order[i] : i \in 1 .. N} = DOMAIN edges
  <2>1. \A i \in 1 .. N : order[i] \in DOMAIN edges
    BY <1>2
  <2>2. \A y \in DOMAIN edges : y \in {order[i] : i \in 1 .. N}
    BY <1>2
  <2> QED
    BY <2>1, <2>2
<1>4. Part(edges, order, N) = edges
  BY <1>1, <1>3 DEF Part
<1> QED
  BY <1>2, <1>4 DEF N, order

LEMMA EdgeCountType ==
  ASSUME NEW edges \in EdgeMap
  PROVE  IsFiniteSet(Occurrences(edges)) /\ EdgeCount(edges) \in Nat
         /\ EdgeCount(edges) = Cardinality(Occurrences(edges))
<1> DEFINE N == Cardinality(DOMAIN edges)
           order == Enumeration(DOMAIN edges)
           S == {m \in Nat : m <= N => IsFiniteSet(Occurrences(Part(edges, order, m)))}
<1>1. /\ N \in Nat /\ order \in [1 .. N -> DOMAIN edges]
      /\ \A i, k \in 1 .. N : order[i] = order[k] => i = k
      /\ Part(edges, order, N) = edges
  BY PartAll
<1> HIDE DEF N, order
<1>2. 0 \in S
  BY PartNone, FS_EmptySet
<1>3. ASSUME NEW m \in Nat, m \in S
      PROVE  m + 1 \in S
  <2> SUFFICES ASSUME m + 1 <= N PROVE IsFiniteSet(Occurrences(Part(edges, order, m + 1)))
    OBVIOUS
  <2>1. m < N /\ IsFiniteSet(Occurrences(Part(edges, order, m)))
    BY <1>1, <1>3
  <2> QED
    BY <1>1, <2>1, PartMore
<1> HIDE DEF S
<1>4. N \in S
  BY <1>1, <1>2, <1>3, SetInduction
<1>5. IsFiniteSet(Occurrences(edges))
  BY <1>1, <1>4 DEF S
<1>6. EdgeCount(edges) = Cardinality(Occurrences(edges))
  BY DEF EdgeCount, Occurrences
<1> QED
  BY <1>5, <1>6, FS_CardinalityType

\* An edge added n times is counted n times more, as itself or with the others.
LEMMA AddEdgeCounts ==
  ASSUME NEW f \in EdgeMap, NEW edge \in Edge, NEW n \in Nat
  PROVE  /\ AddEdge(f, edge, n) \in EdgeMap
         /\ EdgeCount(AddEdge(f, edge, n)) = EdgeCount(f) + n
<1> DEFINE D == DOMAIN f
           key == IF edge \in D \/ Room(f) THEN edge ELSE Other
           g == AddEdge(f, edge, n)
<1>1. f \in [D -> Nat] /\ D \subseteq Edge /\ Within(D)
  BY EdgeMapIs
<1>2. MaxEdges \in Nat \ {0}
  BY FlowCountersAssumption DEF FlowCountersAssumption
<1>3. key \in Edge
  BY DEF Edge
<1>4. Within(D \cup {key})
  <2>1. CASE key \in D
    <3>1. D \cup {key} = D
      BY <2>1
    <3> QED
      BY <1>1, <3>1
  <2>2. CASE key \notin D
    <3>1. /\ IsFiniteSet(D \cup {key}) /\ Cardinality(D \cup {key}) = Cardinality(D) + 1
          /\ Cardinality(D) \in Nat
      BY <1>1, <2>2, FS_AddElement, FS_CardinalityType DEF Within
    <3>2. CASE edge \notin D /\ Room(f)
      <4>1. Cardinality(D) < (IF Other \in D THEN MaxEdges ELSE MaxEdges - 1)
        BY <3>2 DEF Room
      <4> QED
        BY <1>2, <3>1, <4>1 DEF Within
    <3>3. CASE key = Other /\ Other \notin D
      <4>1. Cardinality(D) <= MaxEdges - 1
        BY <1>1, <3>3 DEF Within
      <4> QED
        BY <1>2, <3>1, <3>3, <4>1 DEF Within
    <3> QED
      BY <2>2, <3>2, <3>3
  <2> QED
    BY <2>1, <2>2
<1>5. g = [e \in D \cup {key} |->
             (IF e \in D THEN f[e] ELSE 0) + (IF e = key THEN n ELSE 0)]
  BY DEF AddEdge
<1> HIDE DEF key, g
<1>6. DOMAIN g = D \cup {key} /\ \A e \in D \cup {key} : g[e] \in Nat
  BY <1>1, <1>5
<1>7. g \in [DOMAIN g -> Nat]
  BY <1>5, <1>6
<1>8. g \in EdgeMap
  BY <1>1, <1>3, <1>4, <1>6, <1>7, EdgeMapIs
<1>9. CountsMore(f, g, key, n)
  <2>1. \A e \in D : e # key => g[e] = f[e]
    BY <1>1, <1>5
  <2>2. g[key] = (IF key \in D THEN f[key] ELSE 0) + n
    BY <1>1, <1>5
  <2> QED
    BY <1>1, <1>6, <2>1, <2>2 DEF CountsMore
<1>10. IsFiniteSet(Occurrences(f))
  BY EdgeCountType
<1>11. Cardinality(Occurrences(g)) = Cardinality(Occurrences(f)) + n
  BY <1>9, <1>10, OccursMore
<1>12. EdgeCount(g) = EdgeCount(f) + n
  BY <1>8, <1>11, EdgeCountType
<1> QED
  BY <1>8, <1>12 DEF g

-----------------------------------------------------------------------------

\* The edges after each of N additions.
AreMerged(s, a, b, order, N) ==
  /\ s \in [0 .. N -> EdgeMap] /\ s[0] = a
  /\ \A i \in 1 .. N : s[i] = AddEdge(s[i - 1], order[i], b[order[i]])

LEMMA MergedExist ==
  ASSUME NEW a \in EdgeMap, NEW b \in EdgeMap, NEW order, NEW N \in Nat,
         order \in [1 .. N -> DOMAIN b]
  PROVE  \E s : AreMerged(s, a, b, order, N)
<1> DEFINE S == {m \in Nat : m <= N => \E s : AreMerged(s, a, b, order, m)}
<1>1. 0 \in S
  <2>1. AreMerged([i \in 0 .. 0 |-> a], a, b, order, 0)
    BY DEF AreMerged
  <2> QED
    BY <2>1
<1>2. ASSUME NEW m \in Nat, m \in S
      PROVE  m + 1 \in S
  <2> SUFFICES ASSUME m + 1 <= N PROVE \E s : AreMerged(s, a, b, order, m + 1)
    OBVIOUS
  <2>1. PICK s : AreMerged(s, a, b, order, m)
    BY <1>2
  <2> DEFINE last == AddEdge(s[m], order[m + 1], b[order[m + 1]])
             t == [i \in 0 .. m + 1 |-> IF i = m + 1 THEN last ELSE s[i]]
  <2>2. last \in EdgeMap
    <3>1. s[m] \in EdgeMap /\ order[m + 1] \in DOMAIN b
      BY <2>1 DEF AreMerged
    <3>2. order[m + 1] \in Edge /\ b[order[m + 1]] \in Nat
      BY <3>1, EdgeMapIs
    <3> QED
      BY <3>1, <3>2, AddEdgeCounts
  <2>3. s \in [0 .. m -> EdgeMap] /\ s[0] = a
        /\ \A l \in 1 .. m : s[l] = AddEdge(s[l - 1], order[l], b[order[l]])
    BY <2>1 DEF AreMerged
  <2>4. t \in [0 .. m + 1 -> EdgeMap] /\ t[0] = a
    <3> HIDE DEF last
    <3> QED
      BY <2>2, <2>3
  <2>5. ASSUME NEW i \in 1 .. m + 1
        PROVE  t[i] = AddEdge(t[i - 1], order[i], b[order[i]])
    <3>1. CASE i = m + 1
      <4>1. t[i] = last /\ t[i - 1] = s[m]
        <5> HIDE DEF last
        <5> QED
          BY <3>1
      <4> QED
        BY <3>1, <4>1
    <3>2. CASE i \in 1 .. m
      <4>1. t[i] = s[i] /\ t[i - 1] = s[i - 1]
        <5> HIDE DEF last
        <5> QED
          BY <3>2
      <4> HIDE DEF t
      <4> QED
        BY <2>3, <3>2, <4>1
    <3> QED
      BY <3>1, <3>2
  <2> HIDE DEF t
  <2>6. AreMerged(t, a, b, order, m + 1)
    BY <2>4, <2>5 DEF AreMerged
  <2> QED
    BY <2>6
<1> HIDE DEF S
<1>3. N \in S
  BY <1>1, <1>2, SetInduction
<1> QED
  BY <1>3 DEF S

LEMMA EdgesAfterAre ==
  ASSUME NEW a \in EdgeMap, NEW b \in EdgeMap, NEW order,
         order \in [1 .. Cardinality(DOMAIN b) -> DOMAIN b]
  PROVE  AreMerged(EdgesAfter(a, b, order), a, b, order, Cardinality(DOMAIN b))
<1> DEFINE N == Cardinality(DOMAIN b)
           Is(s) == s = [i \in 0 .. N |->
                           IF i = 0 THEN a ELSE AddEdge(s[i - 1], order[i], b[order[i]])]
<1>1. N \in Nat
  BY EdgeMapIs, FS_CardinalityType DEF Within
<1>2. EdgesAfter(a, b, order) = CHOOSE t : Is(t)
  BY DEF EdgesAfter
<1> HIDE DEF N
<1>3. order \in [1 .. N -> DOMAIN b]
  BY DEF N
<1>4. PICK s : AreMerged(s, a, b, order, N)
  BY <1>1, <1>3, MergedExist
<1>5. Is(s)
  <2>1. s \in [0 .. N -> EdgeMap] /\ s[0] = a
        /\ \A i \in 1 .. N : s[i] = AddEdge(s[i - 1], order[i], b[order[i]])
    BY <1>4 DEF AreMerged
  <2>2. \A i \in 0 .. N : i = 0 \/ i \in 1 .. N
    BY <1>1
  <2> QED
    BY <2>1, <2>2
<1>6. Is(EdgesAfter(a, b, order))
  BY <1>2, <1>5, Zenon
<1> DEFINE p == EdgesAfter(a, b, order)
<1>7. p = [i \in 0 .. N |-> IF i = 0 THEN a ELSE AddEdge(p[i - 1], order[i], b[order[i]])]
  BY <1>6, Zenon
<1> HIDE DEF p
<1>8. DOMAIN p = 0 .. N /\ p[0] = a
      /\ \A i \in 1 .. N : p[i] = AddEdge(p[i - 1], order[i], b[order[i]])
  BY <1>1, <1>7
<1> DEFINE S == {m \in Nat : m <= N => p[m] = s[m]}
<1>9. 0 \in S
  BY <1>4, <1>8 DEF AreMerged
<1>10. ASSUME NEW m \in Nat, m \in S
       PROVE  m + 1 \in S
  <2> SUFFICES ASSUME m + 1 <= N PROVE p[m + 1] = s[m + 1]
    OBVIOUS
  <2>1. p[m] = s[m] /\ m + 1 \in 1 .. N /\ (m + 1) - 1 = m
    BY <1>1, <1>10
  <2>2. s[m + 1] = AddEdge(s[(m + 1) - 1], order[m + 1], b[order[m + 1]])
    BY <1>4, <2>1 DEF AreMerged
  <2>3. p[m + 1] = AddEdge(p[(m + 1) - 1], order[m + 1], b[order[m + 1]])
    BY <1>8, <2>1
  <2> QED
    BY <2>1, <2>2, <2>3
<1> HIDE DEF S
<1>11. \A m \in Nat : m \in S
  BY <1>9, <1>10, SetInduction
<1>12. \A i \in 0 .. N : p[i] = s[i]
  BY <1>11 DEF S
<1>13. s \in [0 .. N -> EdgeMap]
  BY <1>4 DEF AreMerged
<1>14. p = s
  <2>1. p = [i \in 0 .. N |-> p[i]]
    BY <1>7
  <2> QED
    BY <1>12, <1>13, <2>1
<1> QED
  BY <1>4, <1>14 DEF p, N

\* Merging two points loses no edge.
LEMMA MergeEdgesCount ==
  ASSUME NEW a \in EdgeMap, NEW b \in EdgeMap
  PROVE  /\ MergeEdges(a, b) \in EdgeMap
         /\ EdgeCount(MergeEdges(a, b)) = EdgeCount(a) + EdgeCount(b)
<1> DEFINE N == Cardinality(DOMAIN b)
           order == Enumeration(DOMAIN b)
           s == EdgesAfter(a, b, order)
           Sum(m) == Cardinality(Occurrences(Part(b, order, m)))
           Fin(m) == IsFiniteSet(Occurrences(Part(b, order, m)))
           S == {m \in Nat : m <= N => Fin(m) /\ EdgeCount(s[m]) = EdgeCount(a) + Sum(m)}
<1>1. /\ N \in Nat /\ order \in [1 .. N -> DOMAIN b]
      /\ \A i, k \in 1 .. N : order[i] = order[k] => i = k
      /\ Part(b, order, N) = b
  BY PartAll
<1>2. AreMerged(s, a, b, order, N)
  BY <1>1, EdgesAfterAre
<1>3. EdgeCount(a) \in Nat
  BY EdgeCountType
<1>4. s \in [0 .. N -> EdgeMap] /\ s[0] = a
      /\ \A i \in 1 .. N : s[i] = AddEdge(s[i - 1], order[i], b[order[i]])
  BY <1>2 DEF AreMerged
<1>5. MergeEdges(a, b) = s[N]
  BY DEF MergeEdges
<1> HIDE DEF N, order, s
<1>6. 0 \in S
  <2>1. Fin(0) /\ Sum(0) = 0
    BY PartNone, FS_EmptySet
  <2> HIDE DEF Fin, Sum
  <2> QED
    BY <1>3, <1>4, <2>1
<1>7. ASSUME NEW m \in Nat, m \in S
      PROVE  m + 1 \in S
  <2> SUFFICES ASSUME m + 1 <= N
               PROVE  Fin(m + 1) /\ EdgeCount(s[m + 1]) = EdgeCount(a) + Sum(m + 1)
    OBVIOUS
  <2>1. Fin(m) /\ EdgeCount(s[m]) = EdgeCount(a) + Sum(m) /\ m < N
    BY <1>1, <1>7
  <2> DEFINE n == b[order[m + 1]]
  <2>2. Fin(m + 1) /\ Sum(m + 1) = Sum(m) + n /\ n \in Nat
    BY <1>1, <2>1, PartMore
  <2>3. Sum(m) \in Nat
    BY <2>1, FS_CardinalityType
  <2>4. s[m + 1] = AddEdge(s[m], order[m + 1], n) /\ s[m] \in EdgeMap
    <3>1. m + 1 \in 1 .. N /\ (m + 1) - 1 = m /\ m \in 0 .. N
      BY <1>1, <2>1
    <3> QED
      BY <1>4, <3>1
  <2>5. order[m + 1] \in Edge
    <3>1. m + 1 \in 1 .. N
      BY <1>1, <2>1
    <3> QED
      BY <1>1, <3>1, EdgeMapIs
  <2> HIDE DEF n, Fin, Sum
  <2>6. EdgeCount(s[m + 1]) = EdgeCount(s[m]) + n
    BY <2>2, <2>4, <2>5, AddEdgeCounts
  <2> QED
    BY <1>3, <2>1, <2>2, <2>3, <2>6
<1> HIDE DEF S
<1>8. N \in S
  BY <1>1, <1>6, <1>7, SetInduction
<1>9. EdgeCount(s[N]) = EdgeCount(a) + Sum(N)
  BY <1>1, <1>8 DEF S
<1>10. Sum(N) = EdgeCount(b)
  BY <1>1, EdgeCountType
<1> QED
  BY <1>1, <1>4, <1>5, <1>9, <1>10

-----------------------------------------------------------------------------

Fields == {"count", "lost", "entries", "done", "e2e", "edges"}
PointType == [count : Nat, lost : Nat, entries : Nat, done : Nat, e2e : Nat, edges : EdgeMap]

LEMMA AmountType ==
  ASSUME NEW p \in PointType, NEW field \in Fields
  PROVE  Amount(p, field) \in Nat
<1>1. CASE field = "edges"
  <2>1. p.edges \in EdgeMap
    BY DEF PointType
  <2> QED
    BY <1>1, <2>1, EdgeCountType DEF Amount
<1>2. CASE field # "edges"
  BY <1>2 DEF PointType, Fields, Amount
<1> QED
  BY <1>1, <1>2

LEMMA EmptyPointIs ==
  EmptyPoint \in PointType /\ \A field \in Fields : Amount(EmptyPoint, field) = 0
<1>1. MaxEdges \in Nat \ {0}
  BY FlowCountersAssumption DEF FlowCountersAssumption
<1>2. DOMAIN NoEdges = {}
  BY DEF NoEdges
<1>3. NoEdges \in EdgeMap
  <2>1. Within({})
    BY <1>1, FS_EmptySet DEF Within
  <2>2. NoEdges \in [DOMAIN NoEdges -> Nat]
    BY DEF NoEdges
  <2> QED
    BY <1>2, <2>1, <2>2, EdgeMapIs
<1>4. EdgeCount(NoEdges) = 0
  <2>1. Occurrences(NoEdges) = {}
    BY <1>2 DEF Occurrences
  <2> QED
    BY <1>3, <2>1, EdgeCountType, FS_EmptySet
<1>5. EmptyPoint \in PointType
  BY <1>3 DEF EmptyPoint, PointType
<1> QED
  BY <1>4, <1>5 DEF EmptyPoint, Fields, Amount

LEMMA MergeAmounts ==
  ASSUME NEW a \in PointType, NEW b \in PointType
  PROVE  /\ Merge(a, b) \in PointType
         /\ \A field \in Fields : Amount(Merge(a, b), field) = Amount(a, field) + Amount(b, field)
<1>1. a.edges \in EdgeMap /\ b.edges \in EdgeMap
  BY DEF PointType
<1>2. /\ MergeEdges(a.edges, b.edges) \in EdgeMap
      /\ EdgeCount(MergeEdges(a.edges, b.edges)) = EdgeCount(a.edges) + EdgeCount(b.edges)
  BY <1>1, MergeEdgesCount
<1>3. Merge(a, b) \in PointType
  BY <1>2 DEF Merge, PointType
<1>4. ASSUME NEW field \in Fields
      PROVE  Amount(Merge(a, b), field) = Amount(a, field) + Amount(b, field)
  <2>1. CASE field = "edges"
    BY <1>2, <2>1 DEF Merge, Amount
  <2>2. CASE field # "edges"
    BY <2>2 DEF Merge, Amount, Fields
  <2> QED
    BY <2>1, <2>2
<1> QED
  BY <1>3, <1>4

-----------------------------------------------------------------------------

Stage == {"live", "drained", "raw", "folded"}
PointRecord == [stage : Stage, value : PointType, raw : PointType]

\* What the points not yet in the bucket count, and their sum.
Holding(p, field) == IF p.stage = "folded" THEN 0 ELSE Amount(p.value, field)
Holdings(ps, field) == [g \in 1 .. Len(ps) |-> Holding(ps[g], field)]
PointsSum(ps, field) == SumTo(Len(ps), Holdings(ps, field))

LEMMA TotalIs ==
  ASSUME NEW field
  PROVE  Total(field) = Amount(tier, field) + PointsSum(points, field)
<1>1. Unfolded(field) = Holdings(points, field)
  BY DEF Unfolded, Holdings, Holding
<1> QED
  BY <1>1 DEF Total, PointsSum

LEMMA HoldingType ==
  ASSUME NEW p \in PointRecord, NEW field \in Fields
  PROVE  Holding(p, field) \in Nat
<1>1. p.value \in PointType
  BY DEF PointRecord
<1> QED
  BY <1>1, AmountType DEF Holding

LEMMA HoldingsType ==
  ASSUME NEW ps \in Seq(PointRecord), NEW field \in Fields
  PROVE  /\ Len(ps) \in Nat /\ Holdings(ps, field) \in [1 .. Len(ps) -> Int]
         /\ PointsSum(ps, field) \in Int
<1>1. Len(ps) \in Nat /\ \A g \in 1 .. Len(ps) : ps[g] \in PointRecord
  BY LenProperties
<1>2. \A g \in 1 .. Len(ps) : Holding(ps[g], field) \in Int
  BY <1>1, HoldingType
<1>3. Holdings(ps, field) \in [1 .. Len(ps) -> Int]
  BY <1>2 DEF Holdings
<1> QED
  BY <1>1, <1>3, SumToType DEF PointsSum

\* One more point.
LEMMA PointsSumMore ==
  ASSUME NEW ps \in Seq(PointRecord), NEW p \in PointRecord, NEW field \in Fields
  PROVE  PointsSum(Append(ps, p), field) = PointsSum(ps, field) + Holding(p, field)
<1> DEFINE qs == Append(ps, p)
           n == Len(ps)
           f == Holdings(ps, field)
           g == Holdings(qs, field)
<1>1. qs \in Seq(PointRecord) /\ Len(qs) = n + 1 /\ n \in Nat
  BY AppendProperties, LenProperties
<1>2. (\A i \in 1 .. n : qs[i] = ps[i]) /\ qs[n + 1] = p
  BY <1>1, AppendProperties
<1> HIDE DEF qs
<1>3. f \in [1 .. n -> Int] /\ g \in [1 .. n + 1 -> Int]
  BY <1>1, HoldingsType
<1>4. (\A i \in 1 .. n : g[i] = f[i]) /\ g[n + 1] = Holding(p, field)
  BY <1>1, <1>2 DEF Holdings
<1> HIDE DEF f, g, n
<1>5. SumTo(n + 1, g) = SumTo(n, f) + g[n + 1]
  BY <1>1, <1>3, <1>4, SumToAppend
<1> QED
  BY <1>1, <1>4, <1>5 DEF PointsSum, f, g, n, qs

\* One point changed.
LEMMA PointsSumChange ==
  ASSUME NEW ps \in Seq(PointRecord), NEW k \in DOMAIN ps, NEW p \in PointRecord,
         NEW field \in Fields
  PROVE  /\ [ps EXCEPT ![k] = p] \in Seq(PointRecord)
         /\ PointsSum([ps EXCEPT ![k] = p], field)
              = PointsSum(ps, field) + Holding(p, field) - Holding(ps[k], field)
<1> DEFINE qs == [ps EXCEPT ![k] = p]
           n == Len(ps)
           f == Holdings(ps, field)
           g == Holdings(qs, field)
<1>1. n \in Nat /\ DOMAIN ps = 1 .. n
  BY LenProperties
<1>2. qs \in Seq(PointRecord)
  BY ExceptSeq
<1>3. Len(qs) = n
  BY <1>1, <1>2, LenProperties
<1>4. (\A i \in 1 .. n : i # k => qs[i] = ps[i]) /\ qs[k] = p
  BY <1>1
<1> HIDE DEF qs
<1>5. f \in [1 .. n -> Int] /\ g \in [1 .. n -> Int]
  BY <1>2, <1>3, HoldingsType
<1>6. (\A i \in 1 .. n : i # k => g[i] = f[i]) /\ g[k] = Holding(p, field)
      /\ f[k] = Holding(ps[k], field)
  BY <1>1, <1>3, <1>4 DEF Holdings
<1> HIDE DEF f, g, n
<1>7. SumTo(n, g) = SumTo(n, f) + g[k] - f[k]
  BY <1>1, <1>5, <1>6, SumToChange
<1> QED
  BY <1>2, <1>3, <1>6, <1>7 DEF PointsSum, f, g, n, qs

-----------------------------------------------------------------------------

JobType ==
  [kind : Kind, trace : [id : 0 .. MaxJobs, hop : 0 .. MaxHop, parent : 0 .. MaxJobs],
   status : {"queued", "waits", "counted", "ignored", "lost"}, ends : BOOLEAN,
   point : 0 .. MaxPoints, found : Stage]

\* Whether a job is to be counted in a field: the last three only if the point it was counted
\* into was found in time.
IsDue(j, field) ==
  \/ field = "count" /\ j.status \in {"waits", "counted"}
  \/ field = "lost" /\ j.status = "lost"
  \/ field = "entries" /\ j.status \in {"waits", "counted"} /\ Resolve(j.kind[1], j.kind[2]) \in Entry
  \/ field = "done" /\ j.status = "counted" /\ j.ends /\ j.found = "live"
  \/ field = "e2e" /\ j.status = "counted" /\ j.ends /\ j.found # "folded"
  \/ field = "edges" /\ j.status = "counted" /\ j.trace.hop > 0 /\ j.found # "folded"
     /\ j.trace.parent # 0

Due(js, field) == {i \in DOMAIN js : IsDue(js[i], field)}

\* One job changed.
LEMMA DueChange ==
  ASSUME NEW js \in Seq(JobType), NEW i \in DOMAIN js, NEW r \in JobType, NEW field
  PROVE  LET ks == [js EXCEPT ![i] = r]
         IN  /\ ks \in Seq(JobType) /\ Len(ks) = Len(js) /\ DOMAIN ks = DOMAIN js
             /\ Cardinality(Due(js, field)) \in Nat /\ Cardinality(Due(ks, field)) \in Nat
             /\ Cardinality(Due(ks, field)) + One(IsDue(js[i], field))
                  = Cardinality(Due(js, field)) + One(IsDue(r, field))
<1> DEFINE ks == [js EXCEPT ![i] = r]
<1>1. ks \in Seq(JobType) /\ DOMAIN ks = DOMAIN js /\ Len(js) \in Nat /\ DOMAIN js = 1 .. Len(js)
  BY ExceptSeq, LenProperties
<1>2. Len(ks) = Len(js)
  BY <1>1, LenProperties
<1>3. ks[i] = r /\ \A k \in DOMAIN js : k # i => ks[k] = js[k]
  BY <1>1
<1> HIDE DEF ks
<1>4. IsFiniteSet(Due(js, field)) /\ IsFiniteSet(Due(ks, field))
  <2>1. IsFiniteSet(DOMAIN js)
    BY <1>1, FS_Interval
  <2> QED
    BY <1>1, <2>1, FS_Subset DEF Due
<1>5. \A k : k # i => (k \in Due(js, field) <=> k \in Due(ks, field))
  BY <1>1, <1>3 DEF Due
<1>6. /\ i \in Due(js, field) <=> IsDue(js[i], field)
      /\ i \in Due(ks, field) <=> IsDue(r, field)
  BY <1>1, <1>3 DEF Due
<1>7. /\ Cardinality(Due(js, field)) \in Nat /\ Cardinality(Due(ks, field)) \in Nat
      /\ Cardinality(Due(ks, field)) + One(i \in Due(js, field))
           = Cardinality(Due(js, field)) + One(i \in Due(ks, field))
  BY <1>4, <1>5, OneMoves
<1>8. One(i \in Due(js, field)) = One(IsDue(js[i], field)) /\ One(i \in Due(ks, field)) = One(IsDue(r, field))
  BY <1>6 DEF One
<1> QED
  BY <1>1, <1>2, <1>7, <1>8 DEF ks

\* One job more, not due in anything.
LEMMA DueAppend ==
  ASSUME NEW js \in Seq(JobType), NEW r \in JobType, NEW field, ~IsDue(r, field)
  PROVE  /\ Append(js, r) \in Seq(JobType) /\ Len(Append(js, r)) = Len(js) + 1
         /\ Due(Append(js, r), field) = Due(js, field)
<1> DEFINE ks == Append(js, r)
<1>1. Len(js) \in Nat /\ DOMAIN js = 1 .. Len(js)
  BY LenProperties
<1>2. /\ ks \in Seq(JobType) /\ Len(ks) = Len(js) + 1
      /\ ks[Len(js) + 1] = r /\ \A i \in 1 .. Len(js) : ks[i] = js[i]
  BY <1>1, AppendProperties
<1> HIDE DEF ks
<1>3. DOMAIN ks = 1 .. Len(js) + 1
  BY <1>2, LenProperties
<1>4. \A i \in DOMAIN ks : i \in DOMAIN js \/ i = Len(js) + 1
  BY <1>1, <1>3
<1>5. Due(ks, field) = Due(js, field)
  BY <1>1, <1>2, <1>3, <1>4 DEF Due
<1> QED
  BY <1>2, <1>5 DEF ks

-----------------------------------------------------------------------------

\* What a job may be, with m jobs and n points.
JobOK(j, m, n) ==
  /\ j.trace.parent <= m
  /\ j.status \in {"waits", "counted", "lost"} => j.point \in 1 .. n
  /\ j.status # "counted" => j.found = "live"
  /\ j.status = "waits" => j.trace.parent # 0

JobsInv ==
  /\ jobs \in Seq(JobType) /\ Len(jobs) <= MaxJobs
  /\ \A i \in DOMAIN jobs : JobOK(jobs[i], Len(jobs), Len(points))

PointsInv ==
  /\ points \in Seq(PointRecord) /\ Len(points) <= MaxPoints
  /\ current \in 0 .. Len(points)
  /\ \A g \in DOMAIN points : points[g].stage = "live" <=> g = current
  /\ tier \in PointType

\* Every field counts the jobs due in it.
Accounted == \A field \in Fields : Total(field) = Cardinality(Due(jobs, field))

\* Point g is whole unless a job came back to it late.
Whole(js, p, g) ==
  (\A i \in DOMAIN js : js[i].point = g => js[i].found = "live") =>
    /\ p.value.done = p.value.e2e
    /\ p.stage \in {"raw", "folded"} => p.raw = p.value

WholeInv == \A g \in DOMAIN points : Whole(jobs, points[g], g)

CountInv == JobsInv /\ PointsInv /\ Accounted /\ WholeInv

LEMMA BoundsType ==
  MaxJobs \in Nat /\ MaxPoints \in Nat /\ MaxHop \in Nat
  BY FlowCountersAssumption DEF FlowCountersAssumption

LEMMA InitCounts == Init => CountInv
<1> SUFFICES ASSUME Init PROVE CountInv
  OBVIOUS
<1>1. jobs = <<>> /\ points = <<>> /\ current = 0 /\ tier = EmptyPoint
  BY DEF Init
<1>2. Len(<<>>) = 0 /\ DOMAIN <<>> = {}
  OBVIOUS
<1>3. JobsInv
  <2>1. jobs \in Seq(JobType)
    BY <1>1, EmptySeq
  <2> QED
    BY <1>1, <1>2, <2>1, BoundsType DEF JobsInv
<1>4. PointsInv
  <2>1. points \in Seq(PointRecord)
    BY <1>1, EmptySeq
  <2> QED
    BY <1>1, <1>2, <2>1, BoundsType, EmptyPointIs DEF PointsInv
<1>5. WholeInv
  BY <1>1, <1>2 DEF WholeInv
<1>6. ASSUME NEW field \in Fields
      PROVE  Total(field) = Cardinality(Due(jobs, field))
  <2>1. Due(jobs, field) = {}
    BY <1>1, <1>2 DEF Due
  <2>2. PointsSum(points, field) = 0
    <3>1. points \in Seq(PointRecord) /\ Len(points) = 0
      BY <1>1, EmptySeq
    <3>2. Holdings(points, field) \in [1 .. 0 -> Int]
      BY <3>1, HoldingsType
    <3>3. SumTo(0, Holdings(points, field)) = 0
      <4>1. 0 \in Nat /\ \A g \in 1 .. 0 : Holdings(points, field)[g] = 0
        OBVIOUS
      <4> QED
        BY <3>2, <4>1, SumToZero
    <3> QED
      BY <3>1, <3>3 DEF PointsSum
  <2>3. Amount(tier, field) = 0
    BY <1>1, EmptyPointIs
  <2> QED
    BY <2>1, <2>2, <2>3, TotalIs, FS_EmptySet
<1> QED
  BY <1>3, <1>4, <1>5, <1>6 DEF CountInv, Accounted

-----------------------------------------------------------------------------

LEMMA JobOKMore ==
  ASSUME NEW j, NEW m \in Nat, NEW n \in Nat, NEW k \in Nat, NEW l \in Nat, m <= k, n <= l,
         j \in JobType, JobOK(j, m, n)
  PROVE  JobOK(j, k, l)
<1>1. j.trace.parent \in Int
  BY BoundsType DEF JobType
<1> QED
  BY <1>1 DEF JobOK

\* One job changed: the invariant of the jobs is kept.
LEMMA JobChanges ==
  ASSUME JobsInv, NEW i \in DOMAIN jobs, NEW r \in JobType, points \in Seq(PointRecord),
         points' \in Seq(PointRecord), Len(points) <= Len(points'),
         JobOK(r, Len(jobs), Len(points')), jobs' = [jobs EXCEPT ![i] = r]
  PROVE  JobsInv'
<1>1. jobs \in Seq(JobType) /\ Len(jobs) <= MaxJobs
  BY DEF JobsInv
<1>2. jobs' \in Seq(JobType) /\ Len(jobs') = Len(jobs) /\ DOMAIN jobs' = DOMAIN jobs
  BY <1>1, DueChange
<1>3. Len(jobs) \in Nat /\ Len(points) \in Nat /\ Len(points') \in Nat
  BY <1>1, LenProperties
<1>4. ASSUME NEW k \in DOMAIN jobs
      PROVE  JobOK(jobs'[k], Len(jobs), Len(points'))
  <2>1. CASE k = i
    BY <1>1, <2>1
  <2>2. CASE k # i
    <3>1. jobs'[k] = jobs[k] /\ jobs[k] \in JobType
      BY <1>1, <2>2, ElementOfSeq, LenProperties
    <3>2. JobOK(jobs[k], Len(jobs), Len(points))
      BY DEF JobsInv
    <3>3. Len(jobs) <= Len(jobs)
      BY <1>3
    <3>4. JobOK(jobs[k], Len(jobs), Len(points'))
      BY <1>3, <3>1, <3>2, <3>3, JobOKMore
    <3> QED
      BY <3>1, <3>4
  <2> QED
    BY <2>1, <2>2
<1> QED
  BY <1>1, <1>2, <1>4 DEF JobsInv

\* What is counted and what is due change alike.
LEMMA AccountsAlike ==
  ASSUME CountInv, NEW i \in DOMAIN jobs, NEW r \in JobType, jobs' = [jobs EXCEPT ![i] = r],
         \A field \in Fields :
           Total(field)' + One(IsDue(jobs[i], field)) = Total(field) + One(IsDue(r, field)),
         \A field \in Fields : Total(field)' \in Int
  PROVE  Accounted'
<1> SUFFICES ASSUME NEW field \in Fields
             PROVE  Total(field)' = Cardinality(Due(jobs', field))
  BY DEF Accounted
<1> DEFINE c == Cardinality(Due(jobs, field))
           d == Cardinality(Due(jobs', field))
           a == One(IsDue(jobs[i], field))
           b == One(IsDue(r, field))
           y == Total(field)'
<1>1. c \in Nat /\ d \in Nat /\ d + a = c + b
  BY DueChange DEF CountInv, JobsInv
<1>2. Total(field) = c
  BY DEF CountInv, Accounted
<1>3. y + a = c + b
  BY <1>2
<1>4. a \in Nat /\ b \in Nat /\ y \in Int
  BY DEF One
<1> HIDE DEF a, b, c, d, y
<1>5. y = d
  BY <1>1, <1>3, <1>4
<1> QED
  BY <1>5 DEF y, d

\* A point stays whole, or not, when an event that was not yet counted whole moves on.
LEMMA WholeStays ==
  ASSUME NEW js \in Seq(JobType), NEW i \in DOMAIN js, NEW r, js[i].found = "live",
         NEW p, NEW g, Whole(js, p, g)
  PROVE  Whole([js EXCEPT ![i] = r], p, g)
<1> DEFINE ks == [js EXCEPT ![i] = r]
<1>1. DOMAIN ks = DOMAIN js /\ \A k \in DOMAIN js : k # i => ks[k] = js[k]
  OBVIOUS
<1> HIDE DEF ks
<1>2. (\A k \in DOMAIN ks : ks[k].point = g => ks[k].found = "live")
        => \A k \in DOMAIN js : js[k].point = g => js[k].found = "live"
  BY <1>1
<1>3. Whole(ks, p, g)
  BY <1>2 DEF Whole
<1> QED
  BY <1>3 DEF ks

\* The accumulator gets value v, having had another or not being there.
Puts(v) ==
  /\ Accumulator <= MaxPoints /\ current' = Accumulator
  /\ points' = IF current = 0
               THEN Append(points, [stage |-> "live", value |-> v, raw |-> EmptyPoint])
               ELSE [points EXCEPT ![current].value = v]

Former == IF current = 0 THEN EmptyPoint ELSE points[current].value

LEMMA PutsIs ==
  ASSUME PointsInv, NEW v \in PointType, Puts(v), UNCHANGED tier
  PROVE  /\ PointsInv' /\ Len(points) <= Len(points') /\ Former \in PointType
         /\ Accumulator \in 1 .. Len(points') /\ Accumulator \in 0 .. MaxPoints
         /\ points'[Accumulator].stage = "live" /\ points'[Accumulator].value = v
         /\ \A g \in DOMAIN points' : g # Accumulator => g \in DOMAIN points /\ points'[g] = points[g]
         /\ \A field \in Fields :
              /\ Total(field) \in Int /\ Total(field)' \in Int
              /\ Total(field)' = Total(field) + Amount(v, field) - Amount(Former, field)
<1> DEFINE n == Len(points)
<1>1. /\ points \in Seq(PointRecord) /\ n \in Nat /\ DOMAIN points = 1 .. n /\ n <= MaxPoints
      /\ current \in 0 .. n /\ MaxPoints \in Nat /\ tier \in PointType
      /\ \A g \in 1 .. n : points[g].stage = "live" <=> g = current
  BY LenProperties, BoundsType DEF PointsInv
<1>2. CASE current = 0
  <2> DEFINE p == [stage |-> "live", value |-> v, raw |-> EmptyPoint]
  <2>1. p \in PointRecord /\ p.stage = "live" /\ p.value = v
    BY EmptyPointIs DEF PointRecord, Stage
  <2>2. points' = Append(points, p) /\ Accumulator = n + 1 /\ Former = EmptyPoint
        /\ current' = n + 1 /\ n + 1 <= MaxPoints
    BY <1>2 DEF Puts, Accumulator, Former
  <2> HIDE DEF p, n
  <2>3. /\ points' \in Seq(PointRecord) /\ Len(points') = n + 1 /\ DOMAIN points' = 1 .. n + 1
        /\ (\A g \in 1 .. n : points'[g] = points[g]) /\ points'[n + 1] = p
    BY <1>1, <2>1, <2>2, AppendProperties, LenProperties DEF n
  <2>4. PointsInv'
    <3>1. \A g \in DOMAIN points' : points'[g].stage = "live" <=> g = n + 1
      BY <1>1, <1>2, <2>1, <2>3
    <3> QED
      BY <1>1, <2>2, <2>3, <3>1 DEF PointsInv
  <2>5. ASSUME NEW field \in Fields
        PROVE  /\ Total(field) \in Int /\ Total(field)' \in Int
               /\ Total(field)' = Total(field) + Amount(v, field) - Amount(Former, field)
    <3>1. Total(field) = Amount(tier, field) + PointsSum(points, field)
      BY TotalIs
    <3>2. Total(field)' = Amount(tier, field) + PointsSum(points', field)
      <4>1. Unfolded(field)' = Holdings(points', field)
        BY DEF Unfolded, Holdings, Holding
      <4> QED
        BY <4>1 DEF Total, PointsSum
    <3>3. PointsSum(points', field) = PointsSum(points, field) + Holding(p, field)
      BY <1>1, <2>1, <2>2, PointsSumMore
    <3>4. Holding(p, field) = Amount(v, field)
      BY <2>1 DEF Holding
    <3>5. /\ Amount(tier, field) \in Nat /\ Amount(v, field) \in Nat /\ PointsSum(points, field) \in Int
          /\ Amount(Former, field) = 0
      BY <1>1, <2>2, AmountType, HoldingsType, EmptyPointIs
    <3> QED
      BY <3>1, <3>2, <3>3, <3>4, <3>5
  <2>6. \A g \in DOMAIN points' : g # n + 1 => g \in DOMAIN points /\ points'[g] = points[g]
    BY <1>1, <2>3
  <2>7. /\ Len(points) <= Len(points') /\ Former \in PointType /\ n + 1 \in 1 .. Len(points')
        /\ n + 1 \in 0 .. MaxPoints
    BY <1>1, <2>2, <2>3, EmptyPointIs DEF n
  <2>8. points'[n + 1].stage = "live" /\ points'[n + 1].value = v
    BY <2>1, <2>3
  <2>9. Accumulator = n + 1
    BY <2>2
  <2> QED
    BY <2>4, <2>5, <2>6, <2>7, <2>8, <2>9
<1>3. CASE current # 0
  <2> DEFINE old == points[current]
             p == [old EXCEPT !.value = v]
  <2>1. current \in DOMAIN points /\ old \in PointRecord /\ old.stage = "live"
    BY <1>1, <1>3, ElementOfSeq
  <2>2. p \in PointRecord /\ p.stage = "live" /\ p.value = v
    <3> HIDE DEF old
    <3> QED
      BY <2>1 DEF PointRecord
  <2>3. points' = [points EXCEPT ![current] = p] /\ Accumulator = current /\ Former = old.value
        /\ current' = current
    BY <1>3 DEF Puts, Accumulator, Former
  <2> HIDE DEF p, n
  <2>4. points' \in Seq(PointRecord) /\ DOMAIN points' = DOMAIN points
        /\ points'[current] = p /\ \A g \in DOMAIN points : g # current => points'[g] = points[g]
    BY <1>1, <2>1, <2>2, <2>3, ExceptSeq
  <2>5. Len(points') = n
    BY <1>1, <2>4, LenProperties
  <2>6. PointsInv'
    BY <1>1, <2>2, <2>3, <2>4, <2>5 DEF PointsInv
  <2>7. ASSUME NEW field \in Fields
        PROVE  /\ Total(field) \in Int /\ Total(field)' \in Int
               /\ Total(field)' = Total(field) + Amount(v, field) - Amount(Former, field)
    <3>1. Total(field) = Amount(tier, field) + PointsSum(points, field)
      BY TotalIs
    <3>2. Total(field)' = Amount(tier, field) + PointsSum(points', field)
      <4>1. Unfolded(field)' = Holdings(points', field)
        BY DEF Unfolded, Holdings, Holding
      <4> QED
        BY <4>1 DEF Total, PointsSum
    <3>3. PointsSum(points', field) = PointsSum(points, field) + Holding(p, field) - Holding(old, field)
      BY <1>1, <2>1, <2>2, <2>3, PointsSumChange
    <3>4. Holding(p, field) = Amount(v, field) /\ Holding(old, field) = Amount(Former, field)
      BY <2>1, <2>2, <2>3 DEF Holding
    <3>5. /\ Amount(tier, field) \in Nat /\ Amount(v, field) \in Nat /\ PointsSum(points, field) \in Int
          /\ Holding(old, field) \in Nat
      BY <1>1, <2>1, AmountType, HoldingsType, HoldingType
    <3> HIDE DEF old
    <3> QED
      BY <3>1, <3>2, <3>3, <3>4, <3>5
  <2>8. Former \in PointType
    BY <2>1, <2>3 DEF PointRecord
  <2>9. \A g \in DOMAIN points' : g # current => g \in DOMAIN points /\ points'[g] = points[g]
    BY <2>4
  <2>10. points'[current].stage = "live" /\ points'[current].value = v
    BY <2>2, <2>4
  <2>11. /\ Len(points) <= Len(points') /\ current \in 1 .. Len(points')
         /\ current \in 0 .. MaxPoints
    BY <1>1, <1>3, <2>5 DEF n
  <2> QED
    BY <2>3, <2>6, <2>7, <2>8, <2>9, <2>10, <2>11
<1> QED
  BY <1>2, <1>3

LEMMA Balance ==
  ASSUME NEW a \in Nat, NEW b \in Nat, NEW c \in Nat, NEW e \in Nat, NEW x \in Int, NEW y \in Int,
         y = x + a - b, a + c = b + e
  PROVE  y + c = x + e
  OBVIOUS

\* An event is counted into the accumulator, and what is due of its job changes alike.
LEMMA EventKeeps ==
  ASSUME CountInv, NEW i \in DOMAIN jobs, jobs[i].status # "counted", NEW r \in JobType,
         NEW v \in PointType, NEW d \in Nat, Puts(v), UNCHANGED tier,
         jobs' = [jobs EXCEPT ![i] = r], JobOK(r, Len(jobs), Len(points')),
         r.point = Accumulator, r.found = "live",
         v.done = Former.done + d, v.e2e = Former.e2e + d,
         \A field \in Fields :
           Amount(v, field) + One(IsDue(jobs[i], field)) = Amount(Former, field) + One(IsDue(r, field))
  PROVE  CountInv'
<1>1. /\ PointsInv' /\ Len(points) <= Len(points') /\ Former \in PointType
      /\ points'[Accumulator].stage = "live" /\ points'[Accumulator].value = v
      /\ \A g \in DOMAIN points' : g # Accumulator => g \in DOMAIN points /\ points'[g] = points[g]
      /\ \A field \in Fields :
           /\ Total(field) \in Int /\ Total(field)' \in Int
           /\ Total(field)' = Total(field) + Amount(v, field) - Amount(Former, field)
  BY PutsIs DEF CountInv
<1>2. /\ jobs \in Seq(JobType) /\ points \in Seq(PointRecord) /\ points' \in Seq(PointRecord)
      /\ jobs[i].found = "live"
  <2>1. points' \in Seq(PointRecord)
    BY <1>1 DEF PointsInv
  <2>2. jobs[i].found = "live"
    BY DEF CountInv, JobsInv, JobOK
  <2> QED
    BY <2>1, <2>2 DEF CountInv, JobsInv, PointsInv
<1>3. JobsInv'
  BY <1>1, <1>2, JobChanges DEF CountInv
<1>4. Accounted'
  <2>1. ASSUME NEW field \in Fields
        PROVE  Total(field)' + One(IsDue(jobs[i], field)) = Total(field) + One(IsDue(r, field))
    <3> DEFINE a == Amount(v, field)
               b == Amount(Former, field)
               c == One(IsDue(jobs[i], field))
               e == One(IsDue(r, field))
               x == Total(field)
               y == Total(field)'
    <3>1. a \in Nat /\ b \in Nat /\ x \in Int /\ y \in Int /\ y = x + a - b
      BY <1>1, AmountType
    <3>2. c \in Nat /\ e \in Nat
      BY DEF One
    <3>3. a + c = b + e
      OBVIOUS
    <3> HIDE DEF a, b, c, e, x, y
    <3>4. y + c = x + e
      BY <3>1, <3>2, <3>3, Balance
    <3> QED
      BY <3>4 DEF c, e, x, y
  <2>2. \A field \in Fields : Total(field)' \in Int
    BY <1>1
  <2> QED
    BY <2>1, <2>2, AccountsAlike
<1>5. WholeInv'
  <2> SUFFICES ASSUME NEW g \in DOMAIN points' PROVE Whole(jobs', points'[g], g)
    BY DEF WholeInv
  <2>1. CASE g # Accumulator
    <3>1. g \in DOMAIN points /\ points'[g] = points[g]
      BY <1>1, <2>1
    <3>2. Whole(jobs, points[g], g)
      BY <3>1 DEF CountInv, WholeInv
    <3>3. Whole([jobs EXCEPT ![i] = r], points[g], g)
      BY <1>2, <3>2, WholeStays
    <3> QED
      BY <3>1, <3>3
  <2>2. CASE g = Accumulator
    <3>1. points'[g].stage = "live" /\ points'[g].value = v
      BY <1>1, <2>2
    <3> SUFFICES ASSUME \A k \in DOMAIN jobs' : jobs'[k].point = g => jobs'[k].found = "live"
                 PROVE  v.done = v.e2e
      BY <3>1 DEF Whole
    <3>2. \A k \in DOMAIN jobs : jobs[k].point = g => jobs[k].found = "live"
      BY <1>2
    <3>3. Former.done = Former.e2e
      <4>1. CASE current = 0
        BY <4>1 DEF Former, EmptyPoint
      <4>2. CASE current # 0
        <5>1. g = current /\ Former = points[g].value
          BY <2>2, <4>2 DEF Accumulator, Former
        <5>2. g \in DOMAIN points
          <6>1. current \in 0 .. Len(points) /\ DOMAIN points = 1 .. Len(points)
            BY <1>2, LenProperties DEF CountInv, PointsInv
          <6>2. Len(points) \in Nat
            BY <1>2, LenProperties
          <6> QED
            BY <4>2, <5>1, <6>1, <6>2
        <5>3. Whole(jobs, points[g], g)
          BY <5>2 DEF CountInv, WholeInv
        <5> QED
          BY <3>2, <5>1, <5>3 DEF Whole
      <4> QED
        BY <4>1, <4>2
    <3> QED
      BY <3>3
  <2> QED
    BY <2>1, <2>2
<1> QED
  BY <1>1, <1>3, <1>4, <1>5 DEF CountInv

\* What has become of a job, in terms of its fields.
JobIs(r, j, status, ends, point, found) ==
  /\ r \in JobType /\ r.kind = j.kind /\ r.trace = j.trace /\ r.status = status
  /\ r.ends = ends /\ r.point = point /\ r.found = found

LEMMA JobUpdates ==
  ASSUME NEW j \in JobType, NEW status \in {"waits", "counted", "ignored", "lost"},
         NEW ends \in BOOLEAN, NEW point \in 0 .. MaxPoints, NEW found \in Stage
  PROVE  /\ JobIs([j EXCEPT !.status = status], j, status, j.ends, j.point, j.found)
         /\ JobIs([j EXCEPT !.status = status, !.point = point], j, status, j.ends, point, j.found)
         /\ JobIs([j EXCEPT !.status = status, !.ends = ends, !.point = point],
                  j, status, ends, point, j.found)
         /\ JobIs([j EXCEPT !.status = status, !.found = found], j, status, j.ends, j.point, found)
<1> DEFINE a == [j EXCEPT !.status = status]
           b == [a EXCEPT !.point = point]
           c == [a EXCEPT !.ends = ends]
           d == [c EXCEPT !.point = point]
           e == [a EXCEPT !.found = found]
<1>1. JobIs(a, j, status, j.ends, j.point, j.found)
  BY DEF JobIs, JobType
<1> HIDE DEF a
<1>2. JobIs(b, j, status, j.ends, point, j.found)
  BY <1>1 DEF JobIs, JobType
<1>3. JobIs(c, j, status, ends, j.point, j.found)
  BY <1>1 DEF JobIs, JobType
<1>4. JobIs(e, j, status, j.ends, j.point, found)
  BY <1>1 DEF JobIs, JobType
<1> HIDE DEF c
<1>5. JobIs(d, j, status, ends, point, j.found)
  BY <1>3 DEF JobIs, JobType
<1>6. [j EXCEPT !.status = status, !.point = point] = b
  BY DEF a, JobType
<1>7. [j EXCEPT !.status = status, !.ends = ends, !.point = point] = d
  BY DEF a, c, JobType
<1>8. [j EXCEPT !.status = status, !.found = found] = e
  BY DEF a, JobType
<1> HIDE DEF b, d, e
<1> QED
  BY <1>1, <1>2, <1>4, <1>5, <1>6, <1>7, <1>8 DEF a

\* What is counted of an event at once.
LEMMA CountedIs ==
  ASSUME NEW i, NEW ends \in BOOLEAN, NEW p \in PointType
  PROVE  LET v == Counted(i, ends, p)
         IN  /\ v \in PointType /\ v.count = p.count + 1 /\ v.lost = p.lost
             /\ v.entries = p.entries + One(StepOf(i) \in Entry)
             /\ v.done = p.done + One(ends) /\ v.e2e = p.e2e + One(ends) /\ v.edges = p.edges
<1> DEFINE x == One(StepOf(i) \in Entry)
           y == One(ends)
           a == [p EXCEPT !.count = p.count + 1]
           b == [a EXCEPT !.entries = p.entries + x]
           c == [b EXCEPT !.done = p.done + y]
           d == [c EXCEPT !.e2e = p.e2e + y]
<1>1. x \in Nat /\ y \in Nat
  BY DEF One
<1> HIDE DEF x, y
<1>2. /\ a \in PointType /\ a.count = p.count + 1 /\ a.lost = p.lost /\ a.entries = p.entries
      /\ a.done = p.done /\ a.e2e = p.e2e /\ a.edges = p.edges
  BY DEF PointType
<1> HIDE DEF a
<1>3. /\ b \in PointType /\ b.count = p.count + 1 /\ b.lost = p.lost /\ b.entries = p.entries + x
      /\ b.done = p.done /\ b.e2e = p.e2e /\ b.edges = p.edges
  BY <1>1, <1>2 DEF PointType
<1> HIDE DEF b
<1>4. /\ c \in PointType /\ c.count = p.count + 1 /\ c.lost = p.lost /\ c.entries = p.entries + x
      /\ c.done = p.done + y /\ c.e2e = p.e2e /\ c.edges = p.edges
  BY <1>1, <1>3 DEF PointType
<1> HIDE DEF c
<1>5. /\ d \in PointType /\ d.count = p.count + 1 /\ d.lost = p.lost /\ d.entries = p.entries + x
      /\ d.done = p.done + y /\ d.e2e = p.e2e + y /\ d.edges = p.edges
  BY <1>1, <1>4 DEF PointType
<1>6. Counted(i, ends, p) = d
  BY DEF Counted, a, b, c, x, y, One, PointType
<1> HIDE DEF d
<1> QED
  BY <1>5, <1>6 DEF x, y

LEMMA JobFacts ==
  ASSUME JobsInv, NEW i \in DOMAIN jobs
  PROVE  /\ jobs[i] \in JobType /\ JobOK(jobs[i], Len(jobs), Len(points))
         /\ jobs \in Seq(JobType) /\ Len(jobs) \in Nat /\ DOMAIN jobs = 1 .. Len(jobs)
<1>1. jobs \in Seq(JobType) /\ Len(jobs) \in Nat /\ DOMAIN jobs = 1 .. Len(jobs)
  BY LenProperties DEF JobsInv
<1> QED
  BY <1>1, ElementOfSeq DEF JobsInv

LEMMA FormerType ==
  ASSUME PointsInv
  PROVE  Former \in PointType
<1>1. CASE current = 0
  BY <1>1, EmptyPointIs DEF Former
<1>2. CASE current # 0
  <2>1. points \in Seq(PointRecord) /\ Len(points) \in Nat /\ current \in 1 .. Len(points)
    BY <1>2, LenProperties DEF PointsInv
  <2>2. points[current] \in PointRecord
    BY <2>1, ElementOfSeq
  <2> QED
    BY <1>2, <2>2 DEF Former, PointRecord
<1> QED
  BY <1>1, <1>2

LEMMA IngestKeepsCounts ==
  ASSUME CountInv, NEW i \in DOMAIN jobs, NEW completed \in BOOLEAN, Ingest(i, completed)
  PROVE  CountInv'
<1> DEFINE j == jobs[i]
           ends == Ends(i, completed)
           status == IF Waits(i) THEN "waits" ELSE "counted"
           r == [j EXCEPT !.status = status, !.ends = ends, !.point = Accumulator]
           once == ends /\ ~Waits(i)
           v == Counted(i, once, Former)
<1>1. j \in JobType /\ JobOK(j, Len(jobs), Len(points)) /\ j.status = "queued"
  BY JobFacts DEF CountInv, Ingest
<1>2. ends \in BOOLEAN /\ once \in BOOLEAN
  BY DEF Ends
<1>3. Former \in PointType
  BY FormerType DEF CountInv
<1>4. /\ v \in PointType /\ v.count = Former.count + 1 /\ v.lost = Former.lost
      /\ v.entries = Former.entries + One(StepOf(i) \in Entry)
      /\ v.done = Former.done + One(once) /\ v.e2e = Former.e2e + One(once) /\ v.edges = Former.edges
  <2> HIDE DEF once
  <2> QED
    BY <1>2, <1>3, CountedIs
<1>5. Puts(v) /\ UNCHANGED tier /\ jobs' = [jobs EXCEPT ![i] = r]
  BY DEF Ingest, Accumulate, Puts, Former
<1>6. Accumulator \in 1 .. Len(points') /\ Accumulator \in 0 .. MaxPoints
  <2> HIDE DEF v
  <2> QED
    BY <1>4, <1>5, PutsIs DEF CountInv
<1>7. JobIs(r, j, status, ends, Accumulator, j.found)
  <2>1. status \in {"waits", "counted", "ignored", "lost"} /\ j.found \in Stage
    BY <1>1 DEF JobType
  <2> HIDE DEF status, ends, j
  <2> QED
    BY <1>1, <1>2, <1>6, <2>1, JobUpdates
<1>8. j.found = "live" /\ r \in JobType /\ r.point = Accumulator /\ r.found = "live"
  BY <1>1, <1>7 DEF JobIs, JobOK
<1>9. status = "waits" => j.trace.parent # 0
  BY DEF Waits
<1>10. JobOK(r, Len(jobs), Len(points'))
  BY <1>1, <1>6, <1>7, <1>8, <1>9 DEF JobIs, JobOK
<1>11. ASSUME NEW field \in Fields
       PROVE  Amount(v, field) + One(IsDue(j, field)) = Amount(Former, field) + One(IsDue(r, field))
  <2> DEFINE w == Former
  <2>1. One(IsDue(j, field)) = 0
    BY <1>1 DEF IsDue, One
  <2>2. Amount(v, field) \in Nat /\ Amount(w, field) \in Nat
    BY <1>3, <1>4, AmountType
  <2>3. r.status = status /\ r.ends = ends /\ r.kind = j.kind /\ r.trace = j.trace
    BY <1>7 DEF JobIs
  <2>4. StepOf(i) = Resolve(r.kind[1], r.kind[2])
    BY <2>3 DEF StepOf
  <2> HIDE DEF r, v, w, j, ends
  <2>5. status = "counted" <=> ~Waits(i)
    OBVIOUS
  <2>6. Amount(v, field) = Amount(w, field) + One(IsDue(r, field))
    <3>0. CASE field = "lost"
      <4>1. One(IsDue(r, field)) = 0 /\ Amount(v, field) = Amount(w, field)
        BY <3>0, <1>4, <2>3 DEF IsDue, One, Amount, w
      <4> QED
        BY <2>2, <4>1
    <3>1. CASE field = "count"
      <4>1. One(IsDue(r, field)) = 1 /\ Amount(v, field) = Amount(w, field) + 1
        BY <3>1, <1>4, <2>3 DEF IsDue, One, Amount, w
      <4> QED
        BY <4>1
    <3>2. CASE field = "entries"
      <4>1. /\ One(IsDue(r, field)) = One(StepOf(i) \in Entry)
            /\ Amount(v, field) = Amount(w, field) + One(StepOf(i) \in Entry)
        BY <3>2, <1>4, <2>3, <2>4 DEF IsDue, One, Amount, w
      <4> QED
        BY <4>1
    <3>3. CASE field \in {"done", "e2e"}
      <4>1. One(IsDue(r, field)) = One(once)
        BY <3>3, <1>8, <2>3, <2>5 DEF IsDue, One
      <4>2. Amount(v, field) = Amount(w, field) + One(once)
        BY <3>3, <1>4 DEF Amount, w
      <4> QED
        BY <4>1, <4>2
    <3>4. CASE field = "edges"
      <4>1. status = "counted" => r.trace.parent = 0
        BY <2>3 DEF Waits, j
      <4>2. One(IsDue(r, field)) = 0
        BY <3>4, <2>3, <4>1 DEF IsDue, One
      <4>3. Amount(v, field) = Amount(w, field)
        BY <3>4, <1>4 DEF Amount, w
      <4> QED
        BY <2>2, <4>2, <4>3
    <3> QED
      BY <3>0, <3>1, <3>2, <3>3, <3>4 DEF Fields
  <2>7. One(IsDue(r, field)) \in Nat
    BY DEF One
  <2> QED
    BY <2>1, <2>2, <2>6, <2>7 DEF w
<1>12. One(once) \in Nat
  BY DEF One
<1> DEFINE d == One(once)
<1>13. v.done = Former.done + d /\ v.e2e = Former.e2e + d /\ d \in Nat
  BY <1>4, <1>12
<1> HIDE DEF r, v, d
<1>14. jobs[i].status # "counted"
  BY <1>1
<1> QED
  BY <1>4, <1>5, <1>8, <1>10, <1>11, <1>13, <1>14, EventKeeps

LEMMA LoseKeepsCounts ==
  ASSUME CountInv, NEW i \in DOMAIN jobs, Lose(i)
  PROVE  CountInv'
<1> DEFINE j == jobs[i]
           r == [j EXCEPT !.status = "lost", !.point = Accumulator]
           v == [Former EXCEPT !.lost = @ + 1]
<1>1. j \in JobType /\ JobOK(j, Len(jobs), Len(points)) /\ j.status = "queued"
  BY JobFacts DEF CountInv, Lose
<1>2. Former \in PointType
  BY FormerType DEF CountInv
<1>3. /\ v \in PointType /\ v.count = Former.count /\ v.lost = Former.lost + 1
      /\ v.entries = Former.entries /\ v.done = Former.done /\ v.e2e = Former.e2e
      /\ v.edges = Former.edges
  BY <1>2 DEF PointType
<1>4. Puts(v) /\ UNCHANGED tier /\ jobs' = [jobs EXCEPT ![i] = r]
  BY DEF Lose, Accumulate, Puts, Former
<1>5. Accumulator \in 1 .. Len(points') /\ Accumulator \in 0 .. MaxPoints
  <2> HIDE DEF v
  <2> QED
    BY <1>3, <1>4, PutsIs DEF CountInv
<1>6. JobIs(r, j, "lost", j.ends, Accumulator, j.found)
  <2>1. j.found \in Stage /\ j.ends \in BOOLEAN
    BY <1>1 DEF JobType
  <2> HIDE DEF j
  <2> QED
    BY <1>1, <1>5, <2>1, JobUpdates
<1>7. j.found = "live" /\ r \in JobType /\ r.point = Accumulator /\ r.found = "live"
  BY <1>1, <1>6 DEF JobIs, JobOK
<1>8. JobOK(r, Len(jobs), Len(points'))
  BY <1>1, <1>5, <1>6, <1>7 DEF JobIs, JobOK
<1>9. ASSUME NEW field \in Fields
      PROVE  Amount(v, field) + One(IsDue(j, field)) = Amount(Former, field) + One(IsDue(r, field))
  <2>1. One(IsDue(j, field)) = 0
    BY <1>1 DEF IsDue, One
  <2>2. Amount(v, field) \in Nat /\ Amount(Former, field) \in Nat
    BY <1>2, <1>3, AmountType
  <2>3. r.status = "lost"
    BY <1>6 DEF JobIs
  <2> HIDE DEF r, v, j
  <2>4. CASE field = "lost"
    <3>1. One(IsDue(r, field)) = 1 /\ Amount(v, field) = Amount(Former, field) + 1
      BY <2>4, <1>3, <2>3 DEF IsDue, One, Amount
    <3> QED
      BY <2>1, <2>2, <3>1
  <2>5. CASE field # "lost"
    <3>1. One(IsDue(r, field)) = 0 /\ Amount(v, field) = Amount(Former, field)
      BY <2>5, <1>3, <2>3 DEF IsDue, One, Amount, Fields
    <3> QED
      BY <2>1, <2>2, <3>1
  <2> QED
    BY <2>4, <2>5
<1>10. /\ v.done = Former.done + 0 /\ v.e2e = Former.e2e + 0 /\ 0 \in Nat
       /\ jobs[i].status # "counted"
  BY <1>1, <1>2, <1>3 DEF PointType
<1> HIDE DEF r, v
<1> QED
  BY <1>3, <1>4, <1>7, <1>8, <1>9, <1>10, EventKeeps

LEMMA IgnoreKeepsCounts ==
  ASSUME CountInv, NEW i \in DOMAIN jobs, Ignore(i)
  PROVE  CountInv'
<1> DEFINE j == jobs[i]
           r == [j EXCEPT !.status = "ignored"]
<1>1. j \in JobType /\ JobOK(j, Len(jobs), Len(points)) /\ j.status = "queued"
      /\ jobs \in Seq(JobType) /\ points \in Seq(PointRecord)
  BY JobFacts DEF CountInv, PointsInv, Ignore
<1>2. jobs' = [jobs EXCEPT ![i] = r] /\ points' = points /\ current' = current /\ tier' = tier
  BY DEF Ignore
<1>3. JobIs(r, j, "ignored", j.ends, j.point, j.found)
  <2>1. j.found \in Stage /\ j.ends \in BOOLEAN /\ j.point \in 0 .. MaxPoints
    BY <1>1 DEF JobType
  <2> HIDE DEF j
  <2> QED
    BY <1>1, <2>1, JobUpdates
<1>4. r \in JobType /\ JobOK(r, Len(jobs), Len(points)) /\ j.found = "live"
  BY <1>1, <1>3 DEF JobIs, JobOK
<1>5. \A field \in Fields : One(IsDue(j, field)) = 0 /\ One(IsDue(r, field)) = 0
  BY <1>1, <1>3 DEF JobIs, IsDue, One
<1> HIDE DEF r
<1>6. PointsInv'
  BY <1>2 DEF CountInv, PointsInv
<1>7. JobsInv'
  <2>1. Len(points) <= Len(points') /\ points' \in Seq(PointRecord)
    BY <1>1, <1>2, LenProperties
  <2> QED
    BY <1>1, <1>2, <1>4, <2>1, JobChanges DEF CountInv
<1>8. Accounted'
  <2>1. ASSUME NEW field \in Fields
        PROVE  Total(field)' = Total(field) /\ Total(field) \in Int
    <3>1. Total(field)' = Total(field)
      BY <1>2 DEF Total, Unfolded
    <3>2. Amount(tier, field) \in Nat /\ PointsSum(points, field) \in Int
      BY AmountType, HoldingsType DEF CountInv, PointsInv
    <3> QED
      BY <3>1, <3>2, TotalIs
  <2> QED
    BY <1>2, <1>4, <1>5, <2>1, AccountsAlike
<1>9. WholeInv'
  <2> SUFFICES ASSUME NEW g \in DOMAIN points PROVE Whole(jobs', points[g], g)
    BY <1>2 DEF WholeInv
  <2>1. Whole(jobs, points[g], g)
    BY DEF CountInv, WholeInv
  <2> QED
    BY <1>1, <1>2, <1>4, <2>1, WholeStays
<1> QED
  BY <1>6, <1>7, <1>8, <1>9 DEF CountInv

\* A job is enqueued.
LEMMA AddKeepsCounts ==
  ASSUME CountInv, NEW kind \in Kind, NEW trace, Add(kind, trace),
         trace \in [id : 0 .. MaxJobs, hop : 0 .. MaxHop, parent : 0 .. MaxJobs],
         trace.parent <= Len(jobs)
  PROVE  CountInv'
<1> DEFINE r == [kind |-> kind, trace |-> trace, status |-> "queued", ends |-> FALSE, point |-> 0,
                 found |-> "live"]
           m == Len(jobs)
<1>1. /\ jobs' = Append(jobs, r) /\ m < MaxJobs
      /\ points' = points /\ current' = current /\ tier' = tier
  BY DEF Add
<1>2. r \in JobType /\ r.status = "queued" /\ r.trace = trace /\ r.found = "live"
  BY BoundsType DEF JobType, Stage
<1>3. \A field : ~IsDue(r, field)
  BY DEF IsDue
<1> HIDE DEF r
<1>4. /\ jobs \in Seq(JobType) /\ m \in Nat /\ DOMAIN jobs = 1 .. m
      /\ points \in Seq(PointRecord) /\ Len(points) \in Nat
  BY LenProperties DEF CountInv, JobsInv, PointsInv
<1>5. /\ jobs' \in Seq(JobType) /\ Len(jobs') = m + 1 /\ DOMAIN jobs' = 1 .. m + 1
      /\ jobs'[m + 1] = r /\ \A i \in 1 .. m : jobs'[i] = jobs[i]
  BY <1>1, <1>2, <1>4, AppendProperties, LenProperties
<1>6. PointsInv'
  BY <1>1 DEF CountInv, PointsInv
<1>7. JobsInv'
  <2>1. ASSUME NEW i \in 1 .. m + 1
        PROVE  JobOK(jobs'[i], m + 1, Len(points))
    <3>1. CASE i = m + 1
      <4>1. trace.parent <= m + 1
        BY <1>4, BoundsType
      <4> QED
        BY <1>2, <1>5, <3>1, <4>1 DEF JobOK
    <3>2. CASE i \in 1 .. m
      <4>1. jobs'[i] = jobs[i] /\ jobs[i] \in JobType /\ JobOK(jobs[i], m, Len(points))
        BY <1>4, <1>5, <3>2, JobFacts DEF CountInv
      <4>2. m + 1 \in Nat /\ m <= m + 1 /\ Len(points) <= Len(points)
        BY <1>4
      <4>3. JobOK(jobs[i], m + 1, Len(points))
        BY <1>4, <4>1, <4>2, JobOKMore
      <4> QED
        BY <4>1, <4>3
    <3> QED
      BY <1>4, <3>1, <3>2
  <2>2. m + 1 <= MaxJobs
    BY <1>1, <1>4, BoundsType
  <2> QED
    BY <1>1, <1>5, <2>1, <2>2 DEF JobsInv
<1>8. Accounted'
  <2> SUFFICES ASSUME NEW field \in Fields PROVE Total(field)' = Cardinality(Due(jobs', field))
    BY DEF Accounted
  <2>1. Total(field)' = Total(field)
    BY <1>1 DEF Total, Unfolded
  <2>2. Due(jobs', field) = Due(jobs, field)
    BY <1>1, <1>2, <1>3, <1>4, DueAppend
  <2> QED
    BY <2>1, <2>2 DEF CountInv, Accounted
<1>9. WholeInv'
  <2> SUFFICES ASSUME NEW g \in DOMAIN points PROVE Whole(jobs', points[g], g)
    BY <1>1 DEF WholeInv
  <2>1. Whole(jobs, points[g], g)
    BY DEF CountInv, WholeInv
  <2>2. \A i \in DOMAIN jobs : i \in DOMAIN jobs' /\ jobs'[i] = jobs[i]
    BY <1>4, <1>5
  <2> QED
    BY <2>1, <2>2 DEF Whole
<1> QED
  BY <1>6, <1>7, <1>8, <1>9 DEF CountInv

\* The traces a job may be given are in their type.
TraceType == [id : 0 .. MaxJobs, hop : 0 .. MaxHop, parent : 0 .. MaxJobs]

LEMMA NewTraceType ==
  ASSUME CountInv, Len(jobs) < MaxJobs, NEW id \in KnownIds \cup {FreshId},
         NEW parent \in 0 .. Len(jobs)
  PROVE  NewTrace(id, parent) \in TraceType /\ NewTrace(id, parent).parent <= Len(jobs)
<1>1. Len(jobs) \in Nat
  BY LenProperties DEF CountInv, JobsInv
<1>2. id \in 0 .. MaxJobs
  <2>1. \A i \in DOMAIN jobs : jobs[i].trace.id \in 0 .. MaxJobs
    BY JobFacts DEF CountInv, JobType
  <2> QED
    BY <1>1, <2>1, BoundsType DEF KnownIds, FreshId
<1> QED
  BY <1>1, <1>2, BoundsType DEF NewTrace, TraceType

LEMMA StartKeepsCounts ==
  ASSUME CountInv, NEW kind \in Kind, Start(kind)
  PROVE  CountInv'
<1>1. /\ Len(jobs) \in Nat /\ Len(jobs) < MaxJobs /\ DOMAIN jobs = 1 .. Len(jobs)
  BY LenProperties DEF Start, CountInv, JobsInv, Add
<1>2. CASE Add(kind, NoTrace)
  <2>1. NoTrace \in TraceType /\ NoTrace.parent <= Len(jobs)
    BY <1>1, BoundsType DEF NoTrace, TraceType
  <2> QED
    BY <1>2, <2>1, AddKeepsCounts DEF TraceType
<1>3. CASE ~Add(kind, NoTrace)
  <2>1. PICK id \in KnownIds \cup {FreshId}, parent \in {0} \cup (Origins \cap DOMAIN jobs) :
          Add(kind, NewTrace(id, parent))
    BY <1>3 DEF Start
  <2>2. parent \in 0 .. Len(jobs)
    BY <1>1
  <2>3. NewTrace(id, parent) \in TraceType /\ NewTrace(id, parent).parent <= Len(jobs)
    BY <1>1, <2>2, NewTraceType
  <2> QED
    BY <2>1, <2>3, AddKeepsCounts DEF TraceType
<1> QED
  BY <1>2, <1>3

LEMMA ChildKeepsCounts ==
  ASSUME CountInv, NEW i \in DOMAIN jobs, NEW kind \in Kind, Child(i, kind)
  PROVE  CountInv'
<1>1. PICK trace :
        /\ Add(kind, trace)
        /\ \/ trace = NoTrace
           \/ \E parent \in {i, 0} : trace \in {NextTrace(i, parent), NewTrace(FreshId, parent)}
  BY DEF Child
<1>2. /\ Len(jobs) \in Nat /\ Len(jobs) < MaxJobs /\ i \in 1 .. Len(jobs)
      /\ jobs[i] \in JobType
  BY <1>1, JobFacts DEF CountInv, Add
<1>3. CASE trace = NoTrace
  <2>1. trace \in TraceType /\ trace.parent <= Len(jobs)
    BY <1>2, <1>3, BoundsType DEF NoTrace, TraceType
  <2> QED
    BY <1>1, <2>1, AddKeepsCounts DEF TraceType
<1>4. CASE trace # NoTrace
  <2>1. PICK parent \in {i, 0} : trace \in {NextTrace(i, parent), NewTrace(FreshId, parent)}
    BY <1>1, <1>4
  <2>2. parent \in 0 .. Len(jobs)
    BY <1>2, <2>1
  <2>3. CASE trace = NewTrace(FreshId, parent)
    <3>1. trace \in TraceType /\ trace.parent <= Len(jobs)
      BY <1>2, <2>2, <2>3, NewTraceType
    <3> QED
      BY <1>1, <3>1, AddKeepsCounts DEF TraceType
  <2>4. CASE trace = NextTrace(i, parent)
    <3> DEFINE t == jobs[i].trace
               m == [t EXCEPT !.hop = t.hop + 1]
               n == [m EXCEPT !.parent = parent]
    <3>1. t \in TraceType
      BY <1>2 DEF JobType, TraceType
    <3>2. trace = [t EXCEPT !.hop = @ + 1, !.parent = parent] /\ t.hop < MaxHop
      BY <1>4, <2>4, <3>1, BoundsType DEF NextTrace, AtHopLimit, TraceType
    <3>3. trace = n
      BY <3>1, <3>2 DEF TraceType
    <3> HIDE DEF t
    <3>4. m \in TraceType
      BY <3>1, <3>2, BoundsType DEF TraceType
    <3> HIDE DEF m
    <3>5. n \in TraceType /\ n.parent = parent
      BY <1>2, <2>2, <3>4, BoundsType DEF TraceType
    <3> HIDE DEF n
    <3>6. trace \in TraceType /\ trace.parent <= Len(jobs)
      BY <1>2, <2>2, <3>3, <3>5
    <3> QED
      BY <1>1, <3>6, AddKeepsCounts DEF TraceType
  <2> QED
    BY <2>1, <2>3, <2>4
<1> QED
  BY <1>3, <1>4

-----------------------------------------------------------------------------

LEMMA NextTotalIs ==
  ASSUME NEW field
  PROVE  Total(field)' = Amount(tier', field) + PointsSum(points', field)
<1>1. Unfolded(field)' = Holdings(points', field)
  BY DEF Unfolded, Holdings, Holding
<1> QED
  BY <1>1 DEF Total, PointsSum

\* One point changed: the invariant of the points is kept.
LEMMA PointChanges ==
  ASSUME PointsInv, NEW g \in DOMAIN points, NEW p \in PointRecord,
         points' = [points EXCEPT ![g] = p],
         current' \in 0 .. Len(points), tier' \in PointType,
         p.stage = "live" <=> g = current',
         \A h \in DOMAIN points : h # g => (points[h].stage = "live" <=> h = current')
  PROVE  /\ PointsInv' /\ Len(points') = Len(points) /\ DOMAIN points' = DOMAIN points
         /\ points'[g] = p /\ \A h \in DOMAIN points : h # g => points'[h] = points[h]
         /\ \A field \in Fields :
              /\ PointsSum(points, field) \in Int
              /\ PointsSum(points', field)
                   = PointsSum(points, field) + Holding(p, field) - Holding(points[g], field)
<1>1. points \in Seq(PointRecord) /\ Len(points) <= MaxPoints
  BY DEF PointsInv
<1>2. points' \in Seq(PointRecord) /\ DOMAIN points' = DOMAIN points
      /\ points'[g] = p /\ \A h \in DOMAIN points : h # g => points'[h] = points[h]
  BY <1>1, ExceptSeq
<1>3. Len(points') = Len(points)
  BY <1>1, <1>2, LenProperties
<1>4. PointsInv'
  BY <1>1, <1>2, <1>3 DEF PointsInv
<1>5. ASSUME NEW field \in Fields
      PROVE  /\ PointsSum(points, field) \in Int
             /\ PointsSum(points', field)
                  = PointsSum(points, field) + Holding(p, field) - Holding(points[g], field)
  BY <1>1, PointsSumChange, HoldingsType
<1> QED
  BY <1>2, <1>3, <1>4, <1>5

\* Ticks leave the jobs alone, and what is counted with them.
LEMMA TickKeeps ==
  ASSUME CountInv, PointsInv', jobs' = jobs, Len(points') = Len(points), WholeInv',
         \A field \in Fields : Total(field)' = Total(field)
  PROVE  CountInv'
<1>1. JobsInv'
  BY DEF CountInv, JobsInv
<1>2. Accounted'
  BY DEF CountInv, Accounted
<1> QED
  BY <1>1, <1>2 DEF CountInv

LEMMA PointFacts ==
  ASSUME PointsInv, NEW g \in DOMAIN points
  PROVE  /\ points[g] \in PointRecord /\ points[g].value \in PointType /\ g \in 1 .. Len(points)
         /\ points \in Seq(PointRecord) /\ Len(points) \in Nat /\ DOMAIN points = 1 .. Len(points)
         /\ tier \in PointType /\ current \in 0 .. Len(points)
<1>1. points \in Seq(PointRecord) /\ Len(points) \in Nat /\ DOMAIN points = 1 .. Len(points)
  BY LenProperties DEF PointsInv
<1>2. points[g] \in PointRecord
  BY <1>1, ElementOfSeq
<1>3. points[g].value \in PointType
  BY <1>2 DEF PointRecord
<1> QED
  BY <1>1, <1>2, <1>3 DEF PointsInv

LEMMA DrainKeepsCounts ==
  ASSUME CountInv, Drain
  PROVE  CountInv'
<1> DEFINE g == current
           old == points[g]
           p == [old EXCEPT !.stage = "drained"]
<1>0. points \in Seq(PointRecord) /\ g \in 0 .. Len(points) /\ g # 0
  BY DEF CountInv, PointsInv, Drain
<1>1. g \in DOMAIN points
  BY <1>0, LenProperties
<1>2. /\ old \in PointRecord /\ old.stage = "live" /\ tier \in PointType /\ Len(points) \in Nat
      /\ DOMAIN points = 1 .. Len(points) /\ old.value \in PointType
  <2>1. old.stage = "live"
    BY <1>1 DEF CountInv, PointsInv
  <2> QED
    BY <1>1, <2>1, PointFacts DEF CountInv
<1>3. p \in PointRecord /\ p.stage = "drained" /\ p.value = old.value /\ p.raw = old.raw
  <2> HIDE DEF old
  <2> QED
    BY <1>2 DEF PointRecord, Stage
<1>4. points' = [points EXCEPT ![g] = p] /\ current' = 0 /\ jobs' = jobs /\ tier' = tier
  BY DEF Drain, DrainedTo
<1> HIDE DEF p
<1>5. \A h \in DOMAIN points : h # g => (points[h].stage = "live" <=> h = current')
  BY <1>2, <1>4 DEF CountInv, PointsInv
<1>6. current' \in 0 .. Len(points) /\ tier' \in PointType /\ (p.stage = "live" <=> g = current')
  BY <1>0, <1>2, <1>3, <1>4
<1> HIDE DEF g
<1>7. /\ PointsInv' /\ Len(points') = Len(points) /\ DOMAIN points' = DOMAIN points
      /\ points'[g] = p /\ \A h \in DOMAIN points : h # g => points'[h] = points[h]
      /\ \A field \in Fields :
           /\ PointsSum(points, field) \in Int
           /\ PointsSum(points', field)
                = PointsSum(points, field) + Holding(p, field) - Holding(points[g], field)
  BY <1>1, <1>3, <1>4, <1>5, <1>6, PointChanges DEF CountInv
<1>8. ASSUME NEW field \in Fields
      PROVE  Total(field)' = Total(field)
  <2>1. Holding(p, field) = Holding(points[g], field) /\ Holding(points[g], field) \in Nat
    BY <1>2, <1>3, HoldingType DEF Holding
  <2>2. PointsSum(points', field) = PointsSum(points, field)
    BY <1>7, <2>1
  <2> QED
    BY <1>4, <2>2, TotalIs, NextTotalIs
<1>9. WholeInv'
  <2> SUFFICES ASSUME NEW h \in DOMAIN points PROVE Whole(jobs, points'[h], h)
    BY <1>4, <1>7 DEF WholeInv
  <2>1. Whole(jobs, points[h], h)
    BY DEF CountInv, WholeInv
  <2>2. CASE h = g
    BY <1>3, <1>7, <2>1, <2>2 DEF Whole
  <2>3. CASE h # g
    BY <1>7, <2>1, <2>3
  <2> QED
    BY <2>2, <2>3
<1> QED
  BY <1>4, <1>7, <1>8, <1>9, TickKeeps

LEMMA PushKeepsCounts ==
  ASSUME CountInv, NEW g \in DOMAIN points, PushRaw(g)
  PROVE  CountInv'
<1> DEFINE old == points[g]
           a == [old EXCEPT !.stage = "raw"]
           p == [a EXCEPT !.raw = old.value]
<1>1. /\ old \in PointRecord /\ old.stage = "drained" /\ tier \in PointType
      /\ DOMAIN points = 1 .. Len(points) /\ old.value \in PointType /\ current \in 0 .. Len(points)
  BY PointFacts DEF CountInv, PushRaw
<1>2. g # current /\ \A h \in DOMAIN points : points[h].stage = "live" <=> h = current
  BY <1>1 DEF CountInv, PointsInv
<1>3. points' = [points EXCEPT ![g] = p] /\ current' = current /\ jobs' = jobs /\ tier' = tier
  <2>1. [old EXCEPT !.stage = "raw", !.raw = old.value] = p
    BY <1>1 DEF PointRecord
  <2>2. points' = [points EXCEPT ![g] = [old EXCEPT !.stage = "raw", !.raw = old.value]]
    BY DEF PushRaw
  <2> QED
    BY <2>1, <2>2 DEF PushRaw
<1> HIDE DEF old
<1>4. a \in PointRecord /\ a.stage = "raw" /\ a.value = old.value
  BY <1>1 DEF PointRecord, Stage
<1> HIDE DEF a
<1>5. p \in PointRecord /\ p.stage = "raw" /\ p.value = old.value /\ p.raw = old.value
  BY <1>1, <1>4 DEF PointRecord
<1> HIDE DEF p
<1>6. /\ current' \in 0 .. Len(points) /\ tier' \in PointType /\ (p.stage = "live" <=> g = current')
      /\ \A h \in DOMAIN points : h # g => (points[h].stage = "live" <=> h = current')
  BY <1>1, <1>2, <1>3, <1>5
<1>7. /\ PointsInv' /\ Len(points') = Len(points) /\ DOMAIN points' = DOMAIN points
      /\ points'[g] = p /\ \A h \in DOMAIN points : h # g => points'[h] = points[h]
      /\ \A field \in Fields :
           /\ PointsSum(points, field) \in Int
           /\ PointsSum(points', field)
                = PointsSum(points, field) + Holding(p, field) - Holding(points[g], field)
  BY <1>3, <1>5, <1>6, PointChanges DEF CountInv
<1>8. ASSUME NEW field \in Fields
      PROVE  Total(field)' = Total(field)
  <2>1. Holding(p, field) = Holding(points[g], field) /\ Holding(points[g], field) \in Nat
    BY <1>1, <1>5, HoldingType DEF Holding, old
  <2>2. PointsSum(points', field) = PointsSum(points, field)
    BY <1>7, <2>1
  <2> QED
    BY <1>3, <2>2, TotalIs, NextTotalIs
<1>9. WholeInv'
  <2> SUFFICES ASSUME NEW h \in DOMAIN points PROVE Whole(jobs, points'[h], h)
    BY <1>3, <1>7 DEF WholeInv
  <2>1. Whole(jobs, points[h], h)
    BY DEF CountInv, WholeInv
  <2>2. CASE h = g
    BY <1>5, <1>7, <2>1, <2>2 DEF Whole, old
  <2>3. CASE h # g
    BY <1>7, <2>1, <2>3
  <2> QED
    BY <2>2, <2>3
<1> QED
  BY <1>3, <1>7, <1>8, <1>9, TickKeeps

LEMMA FoldKeepsCounts ==
  ASSUME CountInv, NEW g \in DOMAIN points, Fold(g)
  PROVE  CountInv'
<1> DEFINE old == points[g]
           p == [old EXCEPT !.stage = "folded"]
<1>1. /\ old \in PointRecord /\ old.stage = "raw" /\ tier \in PointType
      /\ DOMAIN points = 1 .. Len(points) /\ old.value \in PointType /\ current \in 0 .. Len(points)
  BY PointFacts DEF CountInv, Fold
<1>2. g # current /\ \A h \in DOMAIN points : points[h].stage = "live" <=> h = current
  BY <1>1 DEF CountInv, PointsInv
<1>3. /\ points' = [points EXCEPT ![g] = p] /\ current' = current /\ jobs' = jobs
      /\ tier' = Merge(tier, old.value)
  BY DEF Fold
<1> HIDE DEF old
<1>4. p \in PointRecord /\ p.stage = "folded" /\ p.value = old.value /\ p.raw = old.raw
  BY <1>1 DEF PointRecord, Stage
<1> HIDE DEF p
<1>5. /\ tier' \in PointType
      /\ \A field \in Fields : Amount(tier', field) = Amount(tier, field) + Amount(old.value, field)
  BY <1>1, <1>3, MergeAmounts
<1>6. /\ current' \in 0 .. Len(points) /\ (p.stage = "live" <=> g = current')
      /\ \A h \in DOMAIN points : h # g => (points[h].stage = "live" <=> h = current')
  BY <1>1, <1>2, <1>3, <1>4
<1>7. /\ PointsInv' /\ Len(points') = Len(points) /\ DOMAIN points' = DOMAIN points
      /\ points'[g] = p /\ \A h \in DOMAIN points : h # g => points'[h] = points[h]
      /\ \A field \in Fields :
           /\ PointsSum(points, field) \in Int
           /\ PointsSum(points', field)
                = PointsSum(points, field) + Holding(p, field) - Holding(points[g], field)
  BY <1>3, <1>4, <1>5, <1>6, PointChanges DEF CountInv
<1>8. ASSUME NEW field \in Fields
      PROVE  Total(field)' = Total(field)
  <2> DEFINE a == Amount(tier, field)
             b == Amount(old.value, field)
             s == PointsSum(points, field)
  <2>1. Holding(p, field) = 0 /\ Holding(points[g], field) = b
    BY <1>1, <1>4 DEF Holding, old
  <2>2. a \in Nat /\ b \in Nat /\ s \in Int /\ PointsSum(points', field) = s + 0 - b
    BY <1>1, <1>7, <2>1, AmountType
  <2>3. Total(field)' = Amount(tier', field) + PointsSum(points', field) /\ Total(field) = a + s
    BY TotalIs, NextTotalIs
  <2>4. Amount(tier', field) = a + b
    BY <1>5
  <2> HIDE DEF a, b, s
  <2> QED
    BY <2>2, <2>3, <2>4
<1>9. WholeInv'
  <2> SUFFICES ASSUME NEW h \in DOMAIN points PROVE Whole(jobs, points'[h], h)
    BY <1>3, <1>7 DEF WholeInv
  <2>1. Whole(jobs, points[h], h)
    BY DEF CountInv, WholeInv
  <2>2. CASE h = g
    BY <1>1, <1>4, <1>7, <2>1, <2>2 DEF Whole, old
  <2>3. CASE h # g
    BY <1>7, <2>1, <2>3
  <2> QED
    BY <2>2, <2>3
<1> QED
  BY <1>3, <1>7, <1>8, <1>9, TickKeeps

-----------------------------------------------------------------------------

LEMMA CountDoneIs ==
  ASSUME NEW p \in PointRecord, NEW ends \in BOOLEAN
  PROVE  LET w == CountDone(p, ends)
             x == p.value
         IN  /\ w \in PointType /\ w.count = x.count /\ w.lost = x.lost /\ w.entries = x.entries
             /\ w.edges = x.edges /\ w.e2e = x.e2e + One(ends)
             /\ w.done = x.done + One(ends /\ p.stage = "live")
<1> DEFINE x == p.value
           a == [x EXCEPT !.done = x.done + 1]
           b == [a EXCEPT !.e2e = x.e2e + 1]
           c == [x EXCEPT !.e2e = x.e2e + 1]
<1>1. x \in PointType
  BY DEF PointRecord
<1>2. CASE ~ends
  <2>1. CountDone(p, ends) = x
    BY <1>2 DEF CountDone
  <2>2. One(ends) = 0 /\ One(ends /\ p.stage = "live") = 0 /\ x.done \in Nat /\ x.e2e \in Nat
    BY <1>1, <1>2 DEF One, PointType
  <2> HIDE DEF x
  <2>3. x.e2e = x.e2e + One(ends) /\ x.done = x.done + One(ends /\ p.stage = "live")
    BY <2>2
  <2> QED
    BY <1>1, <2>1, <2>3 DEF x
<1>3. CASE ends /\ p.stage = "live"
  <2>1. CountDone(p, ends) = [x EXCEPT !.done = @ + 1, !.e2e = @ + 1]
    BY <1>3 DEF CountDone
  <2>2. [x EXCEPT !.done = @ + 1, !.e2e = @ + 1] = b
    BY <1>1 DEF PointType
  <2>3. One(ends) = 1 /\ One(ends /\ p.stage = "live") = 1
    BY <1>3 DEF One
  <2> HIDE DEF x
  <2>4. /\ a \in PointType /\ a.count = x.count /\ a.lost = x.lost /\ a.entries = x.entries
        /\ a.edges = x.edges /\ a.e2e = x.e2e /\ a.done = x.done + 1
    BY <1>1 DEF PointType
  <2> HIDE DEF a
  <2>5. /\ b \in PointType /\ b.count = x.count /\ b.lost = x.lost /\ b.entries = x.entries
        /\ b.edges = x.edges /\ b.e2e = x.e2e + 1 /\ b.done = x.done + 1
    BY <1>1, <2>4 DEF PointType
  <2> HIDE DEF b
  <2> QED
    BY <2>1, <2>2, <2>3, <2>5 DEF x
<1>4. CASE ends /\ p.stage # "live"
  <2>1. CountDone(p, ends) = c
    BY <1>4 DEF CountDone
  <2>2. One(ends) = 1 /\ One(ends /\ p.stage = "live") = 0
    BY <1>4 DEF One
  <2> HIDE DEF x
  <2>3. /\ c \in PointType /\ c.count = x.count /\ c.lost = x.lost /\ c.entries = x.entries
        /\ c.edges = x.edges /\ c.e2e = x.e2e + 1 /\ c.done = x.done + 0
    BY <1>1 DEF PointType
  <2> HIDE DEF c
  <2> QED
    BY <2>1, <2>2, <2>3 DEF x
<1> QED
  BY <1>2, <1>3, <1>4

LEMMA ResolvedKeepsCounts ==
  ASSUME CountInv, NEW i \in DOMAIN jobs, Resolved(i)
  PROVE  CountInv'
<1> DEFINE j == jobs[i]
           g == j.point
           old == points[g]
           w == CountDone(old, j.ends)
           r == [j EXCEPT !.status = "counted", !.found = old.stage]
<1>1. /\ j \in JobType /\ JobOK(j, Len(jobs), Len(points)) /\ j.status = "waits"
      /\ j.found = "live" /\ j.trace.parent \in DOMAIN jobs /\ g \in 1 .. Len(points)
  <2>1. /\ j \in JobType /\ JobOK(j, Len(jobs), Len(points)) /\ j.status = "waits"
        /\ Len(jobs) \in Nat /\ DOMAIN jobs = 1 .. Len(jobs)
    BY JobFacts DEF CountInv, Resolved
  <2>2. j.trace.parent \in Nat
    BY <2>1, BoundsType DEF JobType
  <2>3. j.trace.parent # 0 /\ j.trace.parent <= Len(jobs)
    BY <2>1 DEF JobOK
  <2> QED
    BY <2>1, <2>2, <2>3 DEF JobOK
<1>2. /\ g \in DOMAIN points /\ old \in PointRecord /\ old.value \in PointType
      /\ tier \in PointType /\ current \in 0 .. Len(points) /\ points \in Seq(PointRecord)
      /\ Len(points) \in Nat
  <2>1. g \in DOMAIN points
    BY <1>1, LenProperties DEF CountInv, PointsInv
  <2> QED
    BY <2>1, PointFacts DEF CountInv
<1>3. PICK from \in {StepOf(j.trace.parent), Unknown} :
        points' = [points EXCEPT ![g].value =
          IF j.trace.hop > 0
          THEN [w EXCEPT !.edges = AddEdge(@, <<from, StepOf(i)>>, 1)] ELSE w]
  BY DEF Resolved
<1> DEFINE edge == <<from, StepOf(i)>>
           v == IF j.trace.hop > 0 THEN [w EXCEPT !.edges = AddEdge(w.edges, edge, 1)] ELSE w
           p == [old EXCEPT !.value = v]
<1>4. /\ points' = [points EXCEPT ![g] = p] /\ jobs' = [jobs EXCEPT ![i] = r]
      /\ current' = current /\ tier' = tier
  BY <1>3 DEF Resolved
<1>5. edge \in Edge
  <2>1. \A k \in DOMAIN jobs : StepOf(k) \in Steps
    <3> TAKE k \in DOMAIN jobs
    <3>1. jobs[k].kind \in Kind
      BY JobFacts DEF CountInv, JobType
    <3> QED
      BY <3>1 DEF StepOf, Steps
  <2>2. from \in Steps \cup {Unknown} /\ StepOf(i) \in Steps
    BY <1>1, <2>1
  <2> QED
    BY <2>2 DEF Edge
<1>6. j.ends \in BOOLEAN /\ j.trace.hop \in Nat /\ j.point \in 0 .. MaxPoints /\ old.stage \in Stage
  BY <1>1, <1>2, BoundsType DEF JobType, PointRecord
<1> DEFINE x == old.value
           live == old.stage = "live"
           hops == j.trace.hop > 0
<1>7. /\ w \in PointType /\ w.count = x.count /\ w.lost = x.lost /\ w.entries = x.entries
      /\ w.edges = x.edges /\ w.e2e = x.e2e + One(j.ends) /\ w.done = x.done + One(j.ends /\ live)
  <2> HIDE DEF old
  <2> QED
    BY <1>2, <1>6, CountDoneIs
<1>8. /\ v \in PointType /\ v.count = x.count /\ v.lost = x.lost /\ v.entries = x.entries
      /\ v.e2e = x.e2e + One(j.ends) /\ v.done = x.done + One(j.ends /\ live)
      /\ EdgeCount(v.edges) = EdgeCount(x.edges) + One(hops)
  <2> HIDE DEF w, x, edge, j
  <2>1. w.edges \in EdgeMap
    BY <1>7 DEF PointType
  <2>2. CASE hops
    <3> DEFINE e == AddEdge(w.edges, edge, 1)
    <3>1. e \in EdgeMap /\ EdgeCount(e) = EdgeCount(w.edges) + 1
      BY <1>5, <2>1, AddEdgeCounts
    <3>2. v = [w EXCEPT !.edges = e] /\ One(hops) = 1
      BY <2>2 DEF One
    <3> HIDE DEF e, v
    <3>3. /\ v \in PointType /\ v.count = w.count /\ v.lost = w.lost /\ v.entries = w.entries
          /\ v.e2e = w.e2e /\ v.done = w.done /\ v.edges = e
      BY <1>7, <3>1, <3>2 DEF PointType
    <3> QED
      BY <1>7, <3>1, <3>2, <3>3
  <2>3. CASE ~hops
    <3>1. v = w /\ One(hops) = 0
      BY <2>3 DEF One
    <3>2. EdgeCount(w.edges) \in Nat
      BY <2>1, EdgeCountType
    <3> HIDE DEF v
    <3> QED
      BY <1>7, <3>1, <3>2
  <2> QED
    BY <2>2, <2>3
<1>9. p \in PointRecord /\ p.stage = old.stage /\ p.value = v /\ p.raw = old.raw
  <2> HIDE DEF old, v
  <2> QED
    BY <1>2, <1>8 DEF PointRecord
<1>10. JobIs(r, j, "counted", j.ends, g, old.stage)
  <2> DEFINE s == old.stage
  <2> HIDE DEF j, s
  <2> QED
    BY <1>1, <1>6, JobUpdates DEF s
<1>11. r \in JobType /\ JobOK(r, Len(jobs), Len(points)) /\ r.point = g /\ r.found = old.stage
  BY <1>1, <1>10 DEF JobIs, JobOK
<1> HIDE DEF v, w, p, r
<1>12. /\ current' \in 0 .. Len(points) /\ tier' \in PointType /\ (p.stage = "live" <=> g = current')
       /\ \A h \in DOMAIN points : h # g => (points[h].stage = "live" <=> h = current')
  BY <1>2, <1>4, <1>9 DEF CountInv, PointsInv
<1>13. /\ PointsInv' /\ Len(points') = Len(points) /\ DOMAIN points' = DOMAIN points
       /\ points'[g] = p /\ \A h \in DOMAIN points : h # g => points'[h] = points[h]
       /\ \A field \in Fields :
            /\ PointsSum(points, field) \in Int
            /\ PointsSum(points', field)
                 = PointsSum(points, field) + Holding(p, field) - Holding(points[g], field)
  <2> HIDE DEF g
  <2> QED
    BY <1>2, <1>4, <1>9, <1>12, PointChanges DEF CountInv
<1>14. JobsInv'
  <2>1. points' \in Seq(PointRecord)
    BY <1>13 DEF PointsInv
  <2>2. Len(points) <= Len(points') /\ JobOK(r, Len(jobs), Len(points'))
    BY <1>2, <1>11, <1>13
  <2> QED
    BY <1>2, <1>4, <1>11, <2>1, <2>2, JobChanges DEF CountInv
<1>15. ASSUME NEW field \in Fields
       PROVE  Holding(p, field) + One(IsDue(j, field)) = Holding(old, field) + One(IsDue(r, field))
  <2>1. /\ r.status = "counted" /\ r.ends = j.ends /\ r.kind = j.kind /\ r.trace = j.trace
        /\ r.found = old.stage
    BY <1>10 DEF JobIs
  <2>2. Amount(v, field) \in Nat /\ Amount(x, field) \in Nat
    BY <1>2, <1>8, AmountType
  <2> DEFINE late == old.stage = "folded"
  <2>3. /\ Holding(p, field) = (IF late THEN 0 ELSE Amount(v, field))
        /\ Holding(old, field) = (IF late THEN 0 ELSE Amount(x, field))
    BY <1>9 DEF Holding
  <2>4. CASE field \in {"count", "lost", "entries"}
    <3>1. Amount(v, field) = Amount(x, field)
      BY <1>8, <2>4 DEF Amount
    <3>2. IsDue(j, field) <=> IsDue(r, field)
      BY <1>1, <2>1, <2>4 DEF IsDue
    <3>3. One(IsDue(j, field)) = One(IsDue(r, field)) /\ Holding(p, field) = Holding(old, field)
      BY <2>3, <3>1, <3>2 DEF One
    <3> QED
      BY <3>3
  <2>5. ASSUME NEW b, field \in {"done", "e2e", "edges"},
               Amount(v, field) = Amount(x, field) + One(b), IsDue(r, field) <=> b /\ ~late
        PROVE  Holding(p, field) + One(IsDue(j, field)) = Holding(old, field) + One(IsDue(r, field))
    <3>1. One(IsDue(j, field)) = 0
      BY <1>1, <2>5 DEF IsDue, One
    <3>2. CASE late
      BY <2>3, <2>5, <3>1, <3>2 DEF One
    <3>3. CASE ~late
      <4>1. One(IsDue(r, field)) = One(b) /\ One(b) \in Nat
        BY <2>5, <3>3 DEF One
      <4>2. Holding(p, field) = Amount(x, field) + One(b) /\ Holding(old, field) = Amount(x, field)
        BY <2>3, <2>5, <3>3
      <4> QED
        BY <2>2, <3>1, <4>1, <4>2
    <3> QED
      BY <3>2, <3>3
  <2>6. CASE field = "done"
    <3> DEFINE b == j.ends /\ live
    <3>1. Amount(v, field) = Amount(x, field) + One(b)
      BY <1>8, <2>6 DEF Amount
    <3>2. IsDue(r, field) <=> b /\ ~late
      BY <2>1, <2>6 DEF IsDue
    <3> HIDE DEF b
    <3> QED
      BY <2>5, <2>6, <3>1, <3>2
  <2>7. CASE field = "e2e"
    <3>1. Amount(v, field) = Amount(x, field) + One(j.ends)
      BY <1>8, <2>7 DEF Amount
    <3>2. IsDue(r, field) <=> j.ends /\ ~late
      BY <2>1, <2>7 DEF IsDue
    <3> QED
      BY <2>5, <2>7, <3>1, <3>2
  <2>8. CASE field = "edges"
    <3>1. Amount(v, field) = Amount(x, field) + One(hops)
      BY <1>8, <2>8 DEF Amount
    <3>2. IsDue(r, field) <=> hops /\ ~late
      BY <1>1, <2>1, <2>8 DEF IsDue, JobOK
    <3> HIDE DEF hops
    <3> QED
      BY <2>5, <2>8, <3>1, <3>2
  <2> QED
    BY <2>4, <2>6, <2>7, <2>8 DEF Fields
<1>16. Accounted'
  <2>1. ASSUME NEW field \in Fields
        PROVE  /\ Total(field)' \in Int
               /\ Total(field)' + One(IsDue(j, field)) = Total(field) + One(IsDue(r, field))
    <3> DEFINE t == Amount(tier, field)
               s == PointsSum(points, field)
               y == Total(field)
               z == Total(field)'
               a == Holding(p, field)
               b == Holding(old, field)
               c == One(IsDue(j, field))
               e == One(IsDue(r, field))
    <3>1. y = t + s /\ z = t + PointsSum(points', field)
      BY <1>4, TotalIs, NextTotalIs
    <3>2. t \in Nat /\ s \in Int /\ a \in Nat /\ b \in Nat /\ c \in Nat /\ e \in Nat
      BY <1>2, <1>9, <1>13, AmountType, HoldingType DEF One
    <3>3. PointsSum(points', field) = s + a - b
      BY <1>13
    <3>4. a + c = b + e
      BY <1>15
    <3> HIDE DEF t, s, y, z, a, b, c, e
    <3>5. y \in Int /\ z \in Int /\ z = y + a - b
      BY <3>1, <3>2, <3>3
    <3>6. z + c = y + e
      BY <3>2, <3>4, <3>5, Balance
    <3> QED
      BY <3>5, <3>6 DEF c, e, y, z
  <2> HIDE DEF j
  <2>2. j = jobs[i]
    BY DEF j
  <2> QED
    BY <1>4, <1>11, <2>1, <2>2, AccountsAlike
<1>17. WholeInv'
  <2> SUFFICES ASSUME NEW h \in DOMAIN points PROVE Whole(jobs', points'[h], h)
    BY <1>13 DEF WholeInv
  <2>1. Whole(jobs, points[h], h)
    BY DEF CountInv, WholeInv
  <2>2. jobs \in Seq(JobType) /\ jobs[i].found = "live"
    BY <1>1 DEF CountInv, JobsInv
  <2>3. CASE h # g
    BY <1>4, <1>13, <2>1, <2>2, <2>3, WholeStays
  <2>4. CASE h = g /\ live
    <3>1. Whole(jobs', old, h)
      BY <1>4, <2>1, <2>2, <2>4, WholeStays
    <3>2. One(j.ends /\ live) = One(j.ends) /\ One(j.ends) \in Nat
      BY <2>4 DEF One
    <3>3. x.done = x.e2e => v.done = v.e2e
      BY <1>8, <3>2
    <3> QED
      BY <1>9, <1>13, <2>4, <3>1, <3>3 DEF Whole
  <2>5. CASE h = g /\ ~live
    <3>1. i \in DOMAIN jobs' /\ jobs'[i].point = h /\ jobs'[i].found # "live"
      BY <1>4, <1>11, <2>2, <2>5
    <3> QED
      BY <3>1 DEF Whole
  <2> QED
    BY <2>3, <2>4, <2>5
<1> QED
  BY <1>13, <1>14, <1>16, <1>17 DEF CountInv

-----------------------------------------------------------------------------

LEMMA NextKeepsCounts ==
  ASSUME CountInv, [Next]_vars
  PROVE  CountInv'
<1>1. ASSUME NEW kind \in Kind, Start(kind) \/ \E i \in DOMAIN jobs : Child(i, kind)
      PROVE  CountInv'
  BY <1>1, StartKeepsCounts, ChildKeepsCounts
<1>2. ASSUME NEW i \in DOMAIN jobs, Ignore(i) \/ Lose(i) \/ Resolved(i)
      PROVE  CountInv'
  BY <1>2, IgnoreKeepsCounts, LoseKeepsCounts, ResolvedKeepsCounts
<1>3. ASSUME NEW i \in DOMAIN jobs, NEW completed \in BOOLEAN, Ingest(i, completed)
      PROVE  CountInv'
  BY <1>3, IngestKeepsCounts
<1>4. ASSUME NEW g \in DOMAIN points, PushRaw(g) \/ Fold(g)
      PROVE  CountInv'
  BY <1>4, PushKeepsCounts, FoldKeepsCounts
<1>5. CASE UNCHANGED vars
  BY <1>5 DEF vars, CountInv, JobsInv, PointsInv, Accounted, WholeInv, Total, Unfolded
<1> QED
  BY <1>1, <1>2, <1>3, <1>4, <1>5, DrainKeepsCounts DEF Next

LEMMA CountsHold == Spec => []CountInv
  BY InitCounts, NextKeepsCounts, PTL DEF Spec

\* The types of the jobs and the points, and that only the accumulator is live.
THEOREM TypeCorrect == Spec => []TypeOK
<1>1. CountInv => TypeOK
  <2> SUFFICES ASSUME CountInv PROVE TypeOK
    OBVIOUS
  <2>1. jobs \in Seq([kind : Kind,
                      trace : [id : 0 .. MaxJobs, hop : 0 .. MaxHop, parent : 0 .. MaxJobs],
                      status : {"queued", "waits", "counted", "ignored", "lost"}, ends : BOOLEAN,
                      point : 0 .. MaxPoints, found : {"live", "drained", "raw", "folded"}])
    BY DEF CountInv, JobsInv, JobType, Stage
  <2>2. ASSUME NEW g \in DOMAIN points
        PROVE  /\ points[g].stage \in {"live", "drained", "raw", "folded"}
               /\ points[g].stage = "live" <=> g = current
    <3>1. points[g] \in PointRecord
      BY PointFacts DEF CountInv
    <3> QED
      BY <3>1 DEF PointRecord, Stage, CountInv, PointsInv
  <2>3. current \in 0 .. MaxPoints
    <3>1. points \in Seq(PointRecord) /\ Len(points) <= MaxPoints /\ current \in 0 .. Len(points)
      BY DEF CountInv, PointsInv
    <3>2. Len(points) \in Nat
      BY <3>1, LenProperties
    <3> QED
      BY <3>1, <3>2, BoundsType
  <2> QED
    BY <2>1, <2>2, <2>3 DEF TypeOK
<1> QED
  BY <1>1, CountsHold, PTL

\* Whatever is drained, pushed and folded while parents are looked up, every event is in the
\* counters of its step, or in lost, once (_ingest up to the lookup, drain).
THEOREM EventsCountedOnceHolds == Spec => []EventsCountedOnce
<1>1. CountInv => EventsCountedOnce
  <2> SUFFICES ASSUME Accounted PROVE EventsCountedOnce
    BY DEF CountInv
  <2>1. Due(jobs, "count") = {i \in DOMAIN jobs : Ingested(i)}
    BY DEF Due, IsDue, Ingested
  <2>2. Due(jobs, "lost") = {i \in DOMAIN jobs : jobs[i].status = "lost"}
    BY DEF Due, IsDue
  <2>3. Due(jobs, "entries") = {i \in DOMAIN jobs : Ingested(i) /\ StepOf(i) \in Entry}
    BY DEF Due, IsDue, Ingested, StepOf
  <2>4. \A field \in {"count", "lost", "entries"} : Total(field) = Cardinality(Due(jobs, field))
    BY DEF Accounted, Fields
  <2> QED
    BY <2>1, <2>2, <2>3, <2>4 DEF EventsCountedOnce, Having
<1> QED
  BY <1>1, CountsHold, PTL

\* A completion of the flow is missed only by a point drained, or folded, while the parent of its
\* job was looked up, and none counts twice (_ingest after the lookup, drain, append, _rollUp).
THEOREM CompletionsCountedHolds == Spec => []CompletionsCounted
<1>1. CountInv => CompletionsCounted
  <2> SUFFICES ASSUME Accounted PROVE CompletionsCounted
    BY DEF CountInv
  <2>1. Due(jobs, "done") = {i \in DOMAIN jobs : Ended(i) /\ jobs[i].found = "live"}
    BY DEF Due, IsDue, Ended
  <2>2. Due(jobs, "e2e") = {i \in DOMAIN jobs : Ended(i) /\ jobs[i].found # "folded"}
    BY DEF Due, IsDue, Ended
  <2>3. \A field \in {"done", "e2e"} : Total(field) = Cardinality(Due(jobs, field))
    BY DEF Accounted, Fields
  <2> QED
    BY <2>1, <2>2, <2>3 DEF CompletionsCounted, Having
<1> QED
  BY <1>1, CountsHold, PTL

\* A folded point is whole, in the raw list as in the bucket, unless an event came back late
\* to it (_ingest after the lookup, append, _rollUp).
THEOREM TornOnlyInFlightHolds == Spec => []TornOnlyInFlight
<1>1. CountInv => TornOnlyInFlight
  BY DEF CountInv, WholeInv, Whole, TornOnlyInFlight
<1> QED
  BY <1>1, CountsHold, PTL

\* No point and no bucket holds more than MaxEdges edges, and the excess is counted with the
\* others (addCapped, mergeFlowPoints): every job that names the one it follows is an edge, once.
THEOREM EdgesKeptHolds == Spec => []EdgesKept
<1>1. CountInv => EdgesKept
  <2> SUFFICES ASSUME CountInv PROVE EdgesKept
    OBVIOUS
  <2>1. ASSUME NEW p \in PointType
        PROVE  Cardinality(DOMAIN p.edges) <= MaxEdges
    <3>1. Within(DOMAIN p.edges)
      <4>1. p.edges \in EdgeMap
        BY DEF PointType
      <4> QED
        BY <4>1, EdgeMapIs
    <3>2. Cardinality(DOMAIN p.edges) \in Nat /\ MaxEdges \in Nat
      BY <3>1, FS_CardinalityType, FlowCountersAssumption DEF Within, FlowCountersAssumption
    <3> QED
      BY <3>1, <3>2 DEF Within
  <2>2. \A g \in DOMAIN points : points[g].value \in PointType
    BY PointFacts DEF CountInv
  <2>3. tier \in PointType
    BY DEF CountInv, PointsInv
  <2>4. Due(jobs, "edges")
          = {i \in DOMAIN jobs : /\ jobs[i].status = "counted" /\ jobs[i].found # "folded"
                                 /\ jobs[i].trace.hop > 0 /\ Waits(i)}
    BY DEF Due, IsDue, Waits
  <2>5. Total("edges") = Cardinality(Due(jobs, "edges"))
    BY DEF CountInv, Accounted, Fields
  <2> QED
    BY <2>1, <2>2, <2>3, <2>4, <2>5 DEF EdgesKept, Having
<1> QED
  BY <1>1, CountsHold, PTL
=============================================================================
