------------------------ MODULE MetricsCollector_proofs ------------------------
(* Theorems about the metrics collector, for every value of its constants. *)
EXTENDS MetricsCollector, Sums_proofs

\* The gauge of a queue, its window since the last tick.
Window(q) == <<"throughput", q>>

\* The part of the type invariant the totals and the windows rest on; only the agents and the
\* flows read a job before they count it.
CountersType ==
  /\ held \in [Cell -> Nat] /\ total \in [Queue -> Nat]
  /\ listens \subseteq Adapter /\ queues \subseteq Adapter
  /\ reading \in [Cell -> Int] /\ \A q \in Queue : reading[Window(q)] = 0

Ticking == \E k \in Tick : Collect(k) \/ Counts(k) \/ Persisted(k) \/ NoClient(k) \/ CallFails(k)

LEMMA CallsType ==
  ASSUME CountersType, NEW q \in Queue
  PROVE  Calls(q) \in Nat
<1>1. IsFiniteSet({a \in listens : QueueOf[a] = q})
  BY FS_Subset, MetricsCollectorAssumption DEF CountersType, MetricsCollectorAssumption
<1> QED
  BY <1>1, FS_CardinalityType DEF Calls

LEMMA WindowCells ==
  /\ \A q \in Queue : Window(q) \in Cell /\ Nothing[Window(q)] = 0
  /\ \A p, q \in Queue : Window(p) = Window(q) => p = q
<1>1. \A q \in Queue : Window(q) \in Cell
  BY DEF Window, Cell, Series
<1>2. \A q \in Queue : Nothing[Window(q)] = 0
  BY <1>1 DEF Nothing
<1>3. \A p, q \in Queue : Window(p) = Window(q) => p = q
  BY DEF Window
<1> QED
  BY <1>1, <1>2, <1>3

LEMMA NothingType == Nothing \in [Cell -> Nat]
  BY DEF Nothing

\* A tick takes cells out of memory, whole, and never touches the totals.
LEMMA TickingTakes ==
  ASSUME CountersType, Ticking
  PROVE  /\ held' \in [Cell -> Nat]
         /\ \A c \in Cell : held'[c] <= held[c]
         /\ UNCHANGED <<total, listens, queues, active, reading>>
<1> PICK k \in Tick : Collect(k) \/ Counts(k) \/ Persisted(k) \/ NoClient(k) \/ CallFails(k)
  BY DEF Ticking
<1>1. CASE UNCHANGED <<held, total, listens, queues, active, reading>>
  BY <1>1 DEF CountersType
<1>2. CASE Collect(k)
  BY <1>2 DEF Collect, CountersType
<1>3. CASE Persisted(k)
  <2>1. ASSUME NEW series, Drain(k, series)
        PROVE  held' \in [Cell -> Nat] /\ \A c \in Cell : held'[c] <= held[c]
    BY <2>1 DEF Drain, CountersType
  <2>2. UNCHANGED <<total, listens, queues, active, reading>>
    BY <1>3 DEF Persisted
  <2>3. held' \in [Cell -> Nat] /\ \A c \in Cell : held'[c] <= held[c]
    BY <1>3, <2>1 DEF Persisted, CountersType
  <2> QED
    BY <2>2, <2>3
<1>4. CASE Counts(k) \/ NoClient(k) \/ CallFails(k)
  BY <1>4, <1>1 DEF Counts, NoClient, CallFails, GiveUp
<1> QED
  BY <1>2, <1>3, <1>4

\* An event bumps the window of its queue and the total behind it together.
LEMMA JobFinishesBumps ==
  ASSUME CountersType, NEW q \in Queue, JobFinishes(q)
  PROVE  /\ held' \in [Cell -> Nat]
         /\ held'[Window(q)] = held[Window(q)] + Calls(q)
         /\ \A p \in Queue \ {q} : held'[Window(p)] = held[Window(p)]
         /\ total' = [total EXCEPT ![q] = @ + Calls(q)]
         /\ reading' \in [Cell -> Int] /\ \A p \in Queue : reading'[Window(p)] = 0
         /\ UNCHANGED <<listens, queues, active>>
<1>1. Calls(q) \in Nat
  BY CallsType
<1>2. held' = [c \in Cell |-> held[c] + IF c = Window(q) THEN Calls(q) ELSE 0]
  BY DEF JobFinishes, Window
<1>3. \A p \in Queue : Window(p) \in Cell
  BY WindowCells
<1>4. held' \in [Cell -> Nat]
  BY <1>1, <1>2 DEF CountersType
<1>5. \A p \in Queue : held'[Window(p)] =
        held[Window(p)] + IF p = q THEN Calls(q) ELSE 0
  BY <1>2, <1>3, WindowCells
<1>6. \A p \in Queue : held[Window(p)] \in Nat
  BY <1>3 DEF CountersType
<1>7. UNCHANGED <<listens, queues, active>> /\ total' = [total EXCEPT ![q] = @ + Calls(q)]
  BY DEF JobFinishes
<1>8. reading' \in [Cell -> Int]
  BY <1>1 DEF JobFinishes, CountersType
<1>9. ASSUME NEW p \in Queue PROVE reading'[Window(p)] = 0
  <2>1. Window(p) \notin CellsOf("agents", AgentQueue \cap {q})
                        \cup CellsOf("flows", FlowQueue \cap {q})
    BY DEF CellsOf, Window
  <2>2. Window(p) \in Cell /\ reading[Window(p)] = 0
    BY <1>3 DEF CountersType
  <2> QED
    BY <2>1, <2>2 DEF JobFinishes
<1> QED
  BY <1>4, <1>5, <1>6, <1>7, <1>8, <1>9

LEMMA InitCounters == Init => CountersType
  BY NothingType, WindowCells DEF Init, CountersType, Configurations

LEMMA NextCounters == CountersType /\ [Next]_vars => CountersType'
<1> SUFFICES ASSUME CountersType, [Next]_vars PROVE CountersType'
  OBVIOUS
<1>1. CASE Ticking
  BY <1>1, TickingTakes DEF CountersType
<1>2. ASSUME NEW q \in Queue, JobFinishes(q) PROVE CountersType'
  BY <1>2, JobFinishesBumps, CallsType DEF CountersType
<1>3. ASSUME NEW c \in Cell, JobRead(c) PROVE CountersType'
  BY <1>3 DEF JobRead, CountersType
<1>4. ASSUME NEW new \in Configurations, SetQueues(new) PROVE CountersType'
  <2>1. held' \in [Cell -> Nat] /\ total' \in [Queue -> Nat]
    BY <1>4 DEF SetQueues, TotalsAfter, CountersType
  <2> QED
    BY <1>4, <2>1 DEF SetQueues, Attached, Configurations, CountersType
<1>5. CASE (\E q \in Queue : Clear(q)) \/ Stop \/ Start
  BY <1>5 DEF Clear, Stop, Start, CountersType
<1>6. CASE Restart
  BY <1>6, NothingType, WindowCells DEF Restart, CountersType
<1>7. CASE UNCHANGED vars
  BY <1>7 DEF vars, CountersType
<1> QED
  BY <1>1, <1>2, <1>3, <1>4, <1>5, <1>6, <1>7 DEF Next, Ticking

LEMMA CountersCorrect == Spec => []CountersType
  BY InitCounters, NextCounters, PTL DEF Spec

-----------------------------------------------------------------------------

\* An active collector listens to every configured queue, whatever setQueues, stops, starts and
\* restarts came before: _attachEventCbs runs in each of them that leaves it active.
THEOREM ListensWhenActiveHolds == Spec => []ListensWhenActive
<1>1. Init => ListensWhenActive
  BY DEF Init, ListensWhenActive
<1>2. ASSUME ListensWhenActive, CountersType, [Next]_vars PROVE ListensWhenActive'
  <2>1. CASE Ticking
    BY <1>2, <2>1, TickingTakes DEF ListensWhenActive
  <2>2. CASE \E q \in Queue : JobFinishes(q) \/ Clear(q)
    BY <1>2, <2>2 DEF JobFinishes, Clear, ListensWhenActive
  <2>3. CASE \E c \in Cell : JobRead(c)
    BY <1>2, <2>3 DEF JobRead, ListensWhenActive
  <2>4. CASE \E new \in Configurations : SetQueues(new)
    BY <1>2, <2>4 DEF SetQueues, Attached, ListensWhenActive
  <2>5. CASE Stop \/ Start \/ Restart
    BY <1>2, <2>5 DEF Stop, Start, Restart, ListensWhenActive
  <2>6. CASE UNCHANGED vars
    BY <1>2, <2>6 DEF vars, ListensWhenActive
  <2> QED
    BY <1>2, <2>1, <2>2, <2>3, <2>4, <2>5, <2>6 DEF Next, Ticking
<1> QED
  BY <1>1, <1>2, CountersCorrect, PTL DEF Spec

\* The prometheus counter of a queue that stays configured only goes back to zero with the process: an
\* event adds to it, and setQueues deletes only those of the queues it removes.
THEOREM TotalsGrowHolds == Spec => TotalsGrow
<1>1. ASSUME CountersType, [Next]_vars, ~Restart
      PROVE  \A q \in Ids(queues') : total'[q] >= total[q]
  <2> SUFFICES ASSUME NEW q \in Ids(queues') PROVE total'[q] >= total[q]
    OBVIOUS
  <2>0. q \in Queue /\ total[q] \in Nat
    <3>1. CountersType'
      BY <1>1, NextCounters
    <3>2. \A a \in queues' : QueueOf[a] \in Queue
      BY <3>1, MetricsCollectorAssumption DEF CountersType, MetricsCollectorAssumption
    <3>3. q \in Queue
      BY <3>2 DEF Ids
    <3> QED
      BY <1>1, <3>3 DEF CountersType
  <2>1. CASE Ticking
    BY <1>1, <2>0, <2>1, TickingTakes
  <2>2. ASSUME NEW p \in Queue, JobFinishes(p) PROVE total'[q] >= total[q]
    <3>1. Calls(p) \in Nat /\ total' = [total EXCEPT ![p] = total[p] + Calls(p)]
      BY <1>1, <2>2, CallsType, JobFinishesBumps
    <3> QED
      BY <1>1, <2>0, <3>1 DEF CountersType
  <2>3. CASE (\E p \in Queue : Clear(p)) \/ (\E c \in Cell : JobRead(c)) \/ Stop \/ Start
    <3>1. total' = total
      BY <2>3 DEF Clear, JobRead, Stop, Start
    <3> QED
      BY <2>0, <3>1
  <2>4. ASSUME NEW new \in Configurations, SetQueues(new) PROVE total'[q] >= total[q]
    <3>1. q \in Ids(new)
      BY <2>4 DEF SetQueues
    <3> QED
      BY <2>0, <2>4, <3>1 DEF SetQueues, TotalsAfter
  <2>5. CASE UNCHANGED vars
    BY <2>0, <2>5 DEF vars
  <2> QED
    BY <1>1, <2>1, <2>2, <2>3, <2>4, <2>5 DEF Next, Ticking
<1>2. CountersType /\ [Next]_vars =>
        [Restart \/ \A q \in Ids(queues') : total'[q] >= total[q]]_vars
  BY <1>1
<1> QED
  BY <1>2, CountersCorrect, PTL DEF Spec, TotalsGrow

-----------------------------------------------------------------------------

TickRecord == [pc : {"idle", "counts", "throughput", "agents", "flows"}, taken : [Cell -> Nat]]

\* What TypeOK says of the units: where they are, and where they went.
UnitsType ==
  /\ held \in [Cell -> Nat] /\ stored \in [Cell -> Nat]
  /\ counted \in [Cell -> Nat] /\ dropped \in [Cell -> Nat]
  /\ tick \in [Tick -> TickRecord]
  /\ \A k \in Tick : tick[k].pc = "idle" => tick[k] = Idle
  /\ queues \subseteq Adapter

LEMMA IdleTick == Idle \in TickRecord /\ Idle.taken = Nothing /\ \A c \in Cell : Nothing[c] = 0
  BY NothingType DEF Idle, TickRecord, Nothing

LEMMA InTicksType ==
  ASSUME UnitsType, NEW c \in Cell
  PROVE  InTicks(c) \in Int
<1> DEFINE f == [k \in Tick |-> tick[k].taken[c]]
<1>1. f \in [Tick -> Int]
  BY DEF UnitsType, TickRecord
<1> QED
  BY <1>1, SumOverType, MetricsCollectorAssumption DEF InTicks, MetricsCollectorAssumption

\* A step of one tick changes what all of them hold by what it changes.
LEMMA InTicksChange ==
  ASSUME UnitsType, UnitsType', NEW k \in Tick, \A l \in Tick : l # k => tick'[l] = tick[l],
         NEW c \in Cell
  PROVE  InTicks(c)' = InTicks(c) + tick'[k].taken[c] - tick[k].taken[c]
<1> DEFINE f == [l \in Tick |-> tick[l].taken[c]]
           g == [l \in Tick |-> tick'[l].taken[c]]
<1>1. f \in [Tick -> Int] /\ g \in [Tick -> Int]
  BY DEF UnitsType, TickRecord
<1>2. \A l \in Tick : l # k => g[l] = f[l]
  OBVIOUS
<1>3. IsFiniteSet(Tick)
  BY MetricsCollectorAssumption DEF MetricsCollectorAssumption
<1>4. SumOver(Tick, g) = SumOver(Tick, f) + g[k] - f[k]
  BY <1>1, <1>2, <1>3, SumOverChange
<1> QED
  BY <1>4 DEF InTicks

\* When nothing else of the units changes, what is in the ticks does not.
LEMMA InTicksSame ==
  ASSUME UNCHANGED tick, NEW c \in Cell
  PROVE  InTicks(c)' = InTicks(c)
  BY DEF InTicks

LEMMA InTicksIdle ==
  ASSUME NEW c \in Cell, tick = [k \in Tick |-> Idle]
  PROVE  InTicks(c) = 0
<1> DEFINE f == [k \in Tick |-> tick[k].taken[c]]
<1>1. f \in [Tick -> Int] /\ \A k \in Tick : f[k] = 0
  BY IdleTick
<1> QED
  BY <1>1, SumOverZero, MetricsCollectorAssumption DEF InTicks, MetricsCollectorAssumption

\* What one tick holds, with what is in memory, persisted and given up.
Around(k, c) == held[c] + tick[k].taken[c] + stored[c] + dropped[c]

TickMoves(k) == Collect(k) \/ Counts(k) \/ Persisted(k) \/ NoClient(k) \/ CallFails(k)

\* The facts a step of a tick is judged by.
Balanced(k) ==
  /\ held' \in [Cell -> Nat] /\ stored' \in [Cell -> Nat] /\ dropped' \in [Cell -> Nat]
  /\ \E t \in TickRecord : /\ t.pc = "idle" => t = Idle
                           /\ tick' = [tick EXCEPT ![k] = t]
                           /\ \A c \in Cell : held'[c] + t.taken[c] + stored'[c] + dropped'[c] = Around(k, c)
  /\ counted' = counted /\ queues' = queues

LEMMA CollectBalances ==
  ASSUME UnitsType, NEW k \in Tick, Collect(k)
  PROVE  Balanced(k)
<1> DEFINE cells == CellsOf("throughput", Ids(queues))
           t == [pc |-> "counts", taken |-> Only(held, cells)]
<1>1. tick' = [tick EXCEPT ![k] = t] /\ tick[k] = Idle
  BY DEF Collect, Advance
<1>2. held' = [c \in Cell |-> IF c \in cells THEN 0 ELSE held[c]]
  BY DEF Collect
<1>3. UNCHANGED <<stored, dropped, counted, queues>>
  BY DEF Collect
<1> HIDE DEF cells
<1>4. t \in TickRecord /\ t.pc # "idle"
  BY DEF UnitsType, TickRecord, Only
<1>5. \A c \in Cell : t.taken[c] = IF c \in cells THEN held[c] ELSE 0
  BY DEF Only
<1>6. \A c \in Cell : held'[c] + t.taken[c] + stored'[c] + dropped'[c] = Around(k, c)
  BY <1>1, <1>2, <1>3, <1>5, IdleTick DEF UnitsType, Around
<1>7. held' \in [Cell -> Nat]
  BY <1>2 DEF UnitsType
<1> HIDE DEF t
<1> QED
  BY <1>1, <1>3, <1>4, <1>6, <1>7 DEF Balanced, UnitsType

LEMMA CountsBalances ==
  ASSUME UnitsType, NEW k \in Tick, Counts(k)
  PROVE  Balanced(k)
<1> DEFINE t == [tick[k] EXCEPT !.pc = "throughput"]
<1>1. tick[k] \in TickRecord
  BY DEF UnitsType
<1>2. t \in TickRecord /\ t.pc = "throughput" /\ t.taken = tick[k].taken
  BY <1>1 DEF TickRecord
<1>3. tick' = [tick EXCEPT ![k] = t] /\ UNCHANGED <<held, stored, dropped, counted, queues>>
  BY DEF Counts, UnitsType
<1>4. \A c \in Cell : held'[c] + t.taken[c] + stored'[c] + dropped'[c] = Around(k, c)
  BY <1>2, <1>3 DEF Around
<1> HIDE DEF t
<1> QED
  BY <1>2, <1>3, <1>4 DEF Balanced, UnitsType

LEMMA PersistedBalances ==
  ASSUME UnitsType, NEW k \in Tick, Persisted(k)
  PROVE  Balanced(k)
<1> DEFINE s == tick[k]
<1>1. s \in TickRecord /\ s.taken \in [Cell -> Nat]
  BY DEF UnitsType, TickRecord
<1>2. stored' = [c \in Cell |-> stored[c] + s.taken[c]] /\ counted' = counted /\ queues' = queues
  BY DEF Persisted, Plus
<1>3. stored' \in [Cell -> Nat]
  BY <1>1, <1>2 DEF UnitsType
<1>4. ASSUME NEW series \in {"agents", "flows"}, Drain(k, series)
      PROVE  Balanced(k)
  <2> DEFINE all == CellsOf(series, Queue)
             cells == IF series = "agents" THEN CellsOf(series, Ids(queues)) ELSE all
             t == [pc |-> series, taken |-> Only(held, cells)]
  <2>1. /\ tick' = [tick EXCEPT ![k] = t]
        /\ held' = [c \in Cell |-> IF c \in all THEN 0 ELSE held[c]]
        /\ dropped' = [c \in Cell |-> dropped[c] + (IF c \in all \ cells THEN held[c] ELSE 0)]
    BY <1>4 DEF Drain, Advance, Plus, Only
  <2>2. cells \subseteq all
    <3>1. Ids(queues) \subseteq Queue
      BY MetricsCollectorAssumption DEF UnitsType, Ids, MetricsCollectorAssumption
    <3> QED
      BY <3>1 DEF CellsOf
  <2> HIDE DEF all, cells
  <2>3. t \in TickRecord /\ t.pc # "idle"
    BY DEF UnitsType, TickRecord, Only
  <2>4. \A c \in Cell : t.taken[c] = IF c \in cells THEN held[c] ELSE 0
    BY DEF Only
  <2>5. held' \in [Cell -> Nat] /\ dropped' \in [Cell -> Nat]
    BY <2>1 DEF UnitsType
  <2>6. ASSUME NEW c \in Cell
        PROVE  held'[c] + t.taken[c] + stored'[c] + dropped'[c] = Around(k, c)
    BY <1>1, <1>2, <2>1, <2>2, <2>4 DEF UnitsType, Around
  <2> HIDE DEF t
  <2> QED
    BY <1>2, <1>3, <2>1, <2>3, <2>5, <2>6 DEF Balanced
<1>5. CASE tick' = [tick EXCEPT ![k] = Idle] /\ UNCHANGED <<held, dropped>>
  <2>1. \A c \in Cell : held'[c] + Idle.taken[c] + stored'[c] + dropped'[c] = Around(k, c)
    BY <1>1, <1>2, <1>5, IdleTick DEF UnitsType, Around
  <2> QED
    BY <1>2, <1>3, <1>5, <2>1, IdleTick DEF Balanced, UnitsType
<1> QED
  BY <1>4, <1>5 DEF Persisted

LEMMA GiveUpBalances ==
  ASSUME UnitsType, NEW k \in Tick, GiveUp(k)
  PROVE  Balanced(k)
<1> DEFINE s == tick[k]
<1>1. s \in TickRecord /\ s.taken \in [Cell -> Nat]
  BY DEF UnitsType, TickRecord
<1>2. PICK written \in SUBSET {c \in Cell : s.taken[c] > 0} :
        /\ stored' = [c \in Cell |-> stored[c] + (IF c \in written THEN s.taken[c] ELSE 0)]
        /\ dropped' = [c \in Cell |-> dropped[c] + (IF c \in Cell \ written THEN s.taken[c] ELSE 0)]
  BY DEF GiveUp, Plus, Only
<1>3. tick' = [tick EXCEPT ![k] = Idle] /\ UNCHANGED <<held, counted, queues>>
  BY DEF GiveUp
<1>4. stored' \in [Cell -> Nat] /\ dropped' \in [Cell -> Nat]
  BY <1>1, <1>2 DEF UnitsType
<1>5. ASSUME NEW c \in Cell
      PROVE  held'[c] + Idle.taken[c] + stored'[c] + dropped'[c] = Around(k, c)
  BY <1>1, <1>2, <1>3, IdleTick DEF UnitsType, Around
<1> QED
  BY <1>3, <1>4, <1>5, IdleTick DEF Balanced, UnitsType

LEMMA TickBalances ==
  ASSUME UnitsType, NEW k \in Tick, TickMoves(k)
  PROVE  Balanced(k)
  BY CollectBalances, CountsBalances, PersistedBalances, GiveUpBalances
     DEF TickMoves, NoClient, CallFails

\* A balanced step of one tick neither makes nor loses a unit, whatever the other ticks hold.
LEMMA BalancedConserves ==
  ASSUME UnitsType, NEW k \in Tick, Balanced(k)
  PROVE  UnitsType' /\ (Conserved => Conserved')
<1>1. PICK t \in TickRecord :
        /\ t.pc = "idle" => t = Idle
        /\ tick' = [tick EXCEPT ![k] = t]
        /\ \A c \in Cell : held'[c] + t.taken[c] + stored'[c] + dropped'[c] = Around(k, c)
  BY DEF Balanced
<1>2. tick'[k] = t /\ \A l \in Tick : l # k => tick'[l] = tick[l]
  BY <1>1 DEF UnitsType
<1>3. UnitsType'
  <2>1. tick' \in [Tick -> TickRecord]
    BY <1>1 DEF UnitsType
  <2>2. \A l \in Tick : tick'[l].pc = "idle" => tick'[l] = Idle
    BY <1>1, <1>2 DEF UnitsType
  <2> QED
    BY <2>1, <2>2 DEF Balanced, UnitsType
<1>4. ASSUME Conserved, NEW c \in Cell
      PROVE  counted'[c] = held'[c] + InTicks(c)' + stored'[c] + dropped'[c]
  <2>1. InTicks(c)' = InTicks(c) + tick'[k].taken[c] - tick[k].taken[c]
    BY <1>2, <1>3, InTicksChange
  <2>2. InTicks(c) \in Int
    BY InTicksType
  <2>3. tick'[k].taken[c] \in Nat /\ tick[k].taken[c] \in Nat
    BY <1>3 DEF UnitsType, TickRecord
  <2>4. /\ held[c] \in Nat /\ stored[c] \in Nat /\ dropped[c] \in Nat /\ counted[c] \in Nat
        /\ held'[c] \in Nat /\ stored'[c] \in Nat /\ dropped'[c] \in Nat
    BY <1>3 DEF UnitsType
  <2>5. held'[c] + tick'[k].taken[c] + stored'[c] + dropped'[c]
          = held[c] + tick[k].taken[c] + stored[c] + dropped[c]
    BY <1>1, <1>2 DEF Around
  <2>6. counted'[c] = counted[c]
    BY DEF Balanced
  <2>7. counted[c] = held[c] + InTicks(c) + stored[c] + dropped[c]
    BY <1>4 DEF Conserved
  <2> QED
    BY <2>1, <2>2, <2>3, <2>4, <2>5, <2>6, <2>7
<1> QED
  BY <1>3, <1>4 DEF Conserved

\* A step that leaves the ticks alone conserves the units when it balances in every cell.
LEMMA OutsideTicksConserves ==
  ASSUME UnitsType, UnitsType', UNCHANGED tick,
         \A c \in Cell : counted'[c] - held'[c] - stored'[c] - dropped'[c]
                          = counted[c] - held[c] - stored[c] - dropped[c]
  PROVE  Conserved => Conserved'
<1> SUFFICES ASSUME Conserved, NEW c \in Cell
             PROVE  counted'[c] = held'[c] + InTicks(c)' + stored'[c] + dropped'[c]
  BY DEF Conserved
<1>1. InTicks(c)' = InTicks(c) /\ InTicks(c) \in Int
  BY InTicksSame, InTicksType
<1>2. /\ held[c] \in Nat /\ stored[c] \in Nat /\ dropped[c] \in Nat /\ counted[c] \in Nat
      /\ held'[c] \in Nat /\ stored'[c] \in Nat /\ dropped'[c] \in Nat /\ counted'[c] \in Nat
  BY DEF UnitsType
<1>3. counted[c] = held[c] + InTicks(c) + stored[c] + dropped[c]
  BY DEF Conserved
<1> QED
  BY <1>1, <1>2, <1>3

LEMMA EventConserves ==
  ASSUME UnitsType, CountersType, NEW q \in Queue, JobFinishes(q)
  PROVE  UnitsType' /\ (Conserved => Conserved')
<1> DEFINE bump(c) == IF c = <<"throughput", q>> THEN Calls(q) ELSE 0
<1>1. \A c \in Cell : bump(c) \in Nat
  BY CallsType
<1>2. /\ held' = [c \in Cell |-> held[c] + bump(c)]
      /\ counted' = [c \in Cell |-> counted[c] + bump(c)]
      /\ UNCHANGED <<queues, tick, stored, dropped>>
  BY DEF JobFinishes
<1> HIDE DEF bump
<1>3. UnitsType'
  BY <1>1, <1>2 DEF UnitsType
<1>4. \A c \in Cell : counted'[c] - held'[c] - stored'[c] - dropped'[c]
                       = counted[c] - held[c] - stored[c] - dropped[c]
  BY <1>1, <1>2 DEF UnitsType
<1> QED
  BY <1>2, <1>3, <1>4, OutsideTicksConserves

LEMMA JobReadConserves ==
  ASSUME UnitsType, NEW d \in Cell, JobRead(d)
  PROVE  UnitsType' /\ (Conserved => Conserved')
<1>1. UNCHANGED <<queues, tick, stored, dropped>>
  BY DEF JobRead
<1>2. \/ UNCHANGED <<held, counted>>
      \/ held' = [held EXCEPT ![d] = held[d] + 1] /\ counted' = [counted EXCEPT ![d] = counted[d] + 1]
  BY DEF JobRead
<1>3. UnitsType'
  BY <1>1, <1>2 DEF UnitsType
<1>4. \A c \in Cell : counted'[c] - held'[c] - stored'[c] - dropped'[c]
                       = counted[c] - held[c] - stored[c] - dropped[c]
  BY <1>1, <1>2 DEF UnitsType
<1> QED
  BY <1>1, <1>3, <1>4, OutsideTicksConserves

LEMMA SetQueuesConserves ==
  ASSUME UnitsType, NEW new \in Configurations, SetQueues(new)
  PROVE  UnitsType' /\ (Conserved => Conserved')
<1>1. /\ held' = [c \in Cell |-> IF c \in Forgotten(new) THEN 0 ELSE held[c]]
      /\ dropped' = [c \in Cell |-> dropped[c] + (IF c \in Forgotten(new) THEN held[c] ELSE 0)]
      /\ UNCHANGED <<tick, stored, counted>>
  BY DEF SetQueues, Plus, Only
<1>2. UnitsType'
  BY <1>1 DEF UnitsType, SetQueues, Configurations
<1>3. \A c \in Cell : counted'[c] - held'[c] - stored'[c] - dropped'[c]
                       = counted[c] - held[c] - stored[c] - dropped[c]
  BY <1>1 DEF UnitsType
<1> QED
  BY <1>1, <1>2, <1>3, OutsideTicksConserves

LEMMA ClearConserves ==
  ASSUME UnitsType, NEW q \in Queue, Clear(q)
  PROVE  UnitsType' /\ (Conserved => Conserved')
<1>1. PICK cells :
        /\ stored' = [c \in Cell |-> IF c \in cells THEN 0 ELSE stored[c]]
        /\ dropped' = [c \in Cell |-> dropped[c] + (IF c \in cells THEN stored[c] ELSE 0)]
  BY DEF Clear, Plus, Only
<1>2. UNCHANGED <<queues, tick, held, counted>>
  BY DEF Clear
<1>3. UnitsType'
  BY <1>1, <1>2 DEF UnitsType
<1>4. \A c \in Cell : counted'[c] - held'[c] - stored'[c] - dropped'[c]
                       = counted[c] - held[c] - stored[c] - dropped[c]
  BY <1>1, <1>2 DEF UnitsType
<1> QED
  BY <1>2, <1>3, <1>4, OutsideTicksConserves

\* A restart gives up what was in memory: the windows, the accumulators and the ticks.
LEMMA RestartConserves ==
  ASSUME UnitsType, Restart
  PROVE  UnitsType' /\ (Conserved => Conserved')
<1>1. /\ held' = Nothing /\ tick' = [k \in Tick |-> Idle]
      /\ dropped' = [c \in Cell |-> dropped[c] + held[c] + InTicks(c)]
      /\ UNCHANGED <<queues, stored, counted>>
  BY DEF Restart
<1>2. ASSUME NEW c \in Cell
      PROVE  InTicks(c) \in Nat
  <2> DEFINE f == [k \in Tick |-> tick[k].taken[c]]
  <2>1. f \in [Tick -> Nat]
    BY DEF UnitsType, TickRecord
  <2> QED
    BY <2>1, SumOverNat, MetricsCollectorAssumption DEF InTicks, MetricsCollectorAssumption
<1>3. dropped' \in [Cell -> Nat]
  BY <1>1, <1>2 DEF UnitsType
<1>4. UnitsType'
  <2>1. tick' \in [Tick -> TickRecord] /\ \A k \in Tick : tick'[k] = Idle
    BY <1>1, IdleTick
  <2> QED
    BY <1>1, <1>3, <2>1, NothingType DEF UnitsType
<1>5. ASSUME Conserved, NEW c \in Cell
      PROVE  counted'[c] = held'[c] + InTicks(c)' + stored'[c] + dropped'[c]
  <2>1. InTicks(c)' = 0
    <3> DEFINE g == [k \in Tick |-> tick'[k].taken[c]]
    <3>1. g \in [Tick -> Int] /\ \A k \in Tick : g[k] = 0
      BY <1>1, IdleTick
    <3> QED
      BY <3>1, SumOverZero, MetricsCollectorAssumption DEF InTicks, MetricsCollectorAssumption
  <2>2. held'[c] = 0 /\ stored'[c] = stored[c] /\ counted'[c] = counted[c]
    BY <1>1, IdleTick
  <2>3. dropped'[c] = dropped[c] + held[c] + InTicks(c)
    BY <1>1
  <2>4. counted[c] = held[c] + InTicks(c) + stored[c] + dropped[c]
    BY <1>5 DEF Conserved
  <2>5. /\ held[c] \in Nat /\ stored[c] \in Nat /\ dropped[c] \in Nat /\ counted[c] \in Nat
        /\ InTicks(c) \in Nat
    BY <1>2 DEF UnitsType
  <2> QED
    BY <2>1, <2>2, <2>3, <2>4, <2>5
<1> QED
  BY <1>4, <1>5 DEF Conserved

LEMMA UnitsInit == Init => UnitsType /\ Conserved
<1> SUFFICES ASSUME Init PROVE UnitsType /\ Conserved
  OBVIOUS
<1>1. UnitsType
  BY NothingType, IdleTick DEF Init, UnitsType, Configurations
<1>2. ASSUME NEW c \in Cell
      PROVE  counted[c] = held[c] + InTicks(c) + stored[c] + dropped[c]
  <2>1. InTicks(c) = 0
    BY InTicksIdle DEF Init
  <2>2. counted[c] = 0 /\ held[c] = 0 /\ stored[c] = 0 /\ dropped[c] = 0
    BY IdleTick DEF Init
  <2> QED
    BY <2>1, <2>2
<1> QED
  BY <1>1, <1>2 DEF Conserved

LEMMA UnitsStep ==
  UnitsType /\ CountersType /\ [Next]_vars => UnitsType' /\ (Conserved => Conserved')
<1> SUFFICES ASSUME UnitsType, CountersType, [Next]_vars
             PROVE  UnitsType' /\ (Conserved => Conserved')
  OBVIOUS
<1>1. ASSUME NEW q \in Queue, JobFinishes(q)
      PROVE  UnitsType' /\ (Conserved => Conserved')
  BY <1>1, EventConserves
<1>2. ASSUME NEW q \in Queue, Clear(q)
      PROVE  UnitsType' /\ (Conserved => Conserved')
  BY <1>2, ClearConserves
<1>3. ASSUME NEW c \in Cell, JobRead(c)
      PROVE  UnitsType' /\ (Conserved => Conserved')
  BY <1>3, JobReadConserves
<1>4. ASSUME NEW k \in Tick, TickMoves(k)
      PROVE  UnitsType' /\ (Conserved => Conserved')
  BY <1>4, TickBalances, BalancedConserves
<1>5. ASSUME NEW new \in Configurations, SetQueues(new)
      PROVE  UnitsType' /\ (Conserved => Conserved')
  BY <1>5, SetQueuesConserves
<1>6. CASE Restart
  BY <1>6, RestartConserves
<1>7. CASE Stop \/ Start \/ UNCHANGED vars
  <2>1. UNCHANGED <<queues, held, tick, stored, counted, dropped>>
    BY <1>7 DEF Stop, Start, vars
  <2>2. UnitsType'
    BY <2>1 DEF UnitsType
  <2> QED
    BY <2>1, <2>2, OutsideTicksConserves
<1> QED
  BY <1>1, <1>2, <1>3, <1>4, <1>5, <1>6, <1>7 DEF Next, TickMoves

\* Every unit counted is in memory, in one tick, persisted once or known to be given up, for any
\* number of overlapping ticks, of queues and of lists of adapters: each step of a tick moves what
\* it takes, and the ones that lose something (a failed append, a removed queue, a restart) lose
\* what they hold and nothing else.
THEOREM ConservedHolds == Spec => []Conserved
<1>1. Init => UnitsType /\ CountersType /\ Conserved
  BY UnitsInit, InitCounters
<1>2. (UnitsType /\ CountersType /\ Conserved) /\ [Next]_vars
        => (UnitsType /\ CountersType /\ Conserved)'
  BY UnitsStep, NextCounters
<1> QED
  BY <1>1, <1>2, PTL DEF Spec

-----------------------------------------------------------------------------

\* What is left of TypeOK.
RestType ==
  /\ queues \in Configurations /\ active \in BOOLEAN
  /\ reading \in [Cell -> Nat] /\ finished \in [Queue -> Nat] /\ reset \subseteq Queue
  /\ budget \in [{"events", "changes", "faults"} -> Nat]

LEMMA RestInit == Init => RestType
  BY NothingType, MetricsCollectorAssumption DEF Init, RestType, MetricsCollectorAssumption

LEMMA SpendType ==
  ASSUME RestType, NEW what \in {"events", "changes", "faults"}, Spend(what)
  PROVE  budget' \in [{"events", "changes", "faults"} -> Nat]
  BY DEF Spend, RestType

LEMMA RestStep == RestType /\ CountersType /\ [Next]_vars => RestType'
<1> SUFFICES ASSUME RestType, CountersType, [Next]_vars PROVE RestType'
  OBVIOUS
<1>1. ASSUME NEW q \in Queue, JobFinishes(q) PROVE RestType'
  <2>1. Calls(q) \in Nat
    BY CallsType
  <2>2. reading' \in [Cell -> Nat] /\ finished' \in [Queue -> Nat]
    BY <1>1, <2>1 DEF JobFinishes, RestType
  <2>3. Spend("events") /\ UNCHANGED <<queues, active, reset>>
    BY <1>1 DEF JobFinishes
  <2> QED
    BY <2>2, <2>3, SpendType DEF RestType
<1>2. ASSUME NEW q \in Queue, Clear(q) PROVE RestType'
  BY <1>2, SpendType DEF Clear, RestType
<1>3. ASSUME NEW c \in Cell, JobRead(c) PROVE RestType'
  BY <1>3 DEF JobRead, RestType
<1>4. ASSUME NEW k \in Tick, TickMoves(k) PROVE RestType'
  <2>1. UNCHANGED <<queues, active, reading, finished, reset>>
    BY <1>4 DEF TickMoves, Collect, Counts, Persisted, NoClient, CallFails, GiveUp
  <2>2. budget' = budget \/ Spend("faults")
    BY <1>4 DEF TickMoves, Collect, Counts, Persisted, NoClient, CallFails
  <2> QED
    BY <2>1, <2>2, SpendType DEF RestType
<1>5. ASSUME NEW new \in Configurations, SetQueues(new) PROVE RestType'
  BY <1>5, SpendType DEF SetQueues, SetBack, RestType
<1>6. CASE Restart
  BY <1>6, SpendType, NothingType DEF Restart, SetBack, RestType
<1>7. CASE Stop
  BY <1>7, SpendType DEF Stop, RestType
<1>8. CASE Start \/ UNCHANGED vars
  BY <1>8 DEF Start, vars, RestType
<1> QED
  BY <1>1, <1>2, <1>3, <1>4, <1>5, <1>6, <1>7, <1>8 DEF Next, TickMoves

\* Every variable of the collector stays in its type, and an idle tick holds nothing.
THEOREM TypeCorrect == Spec => []TypeOK
<1>1. Init => UnitsType /\ CountersType /\ RestType
  BY UnitsInit, InitCounters, RestInit
<1>2. (UnitsType /\ CountersType /\ RestType) /\ [Next]_vars
        => (UnitsType /\ CountersType /\ RestType)'
  BY UnitsStep, NextCounters, RestStep
<1>3. UnitsType /\ CountersType /\ RestType => TypeOK
  BY DEF UnitsType, CountersType, RestType, TypeOK, TickRecord
<1> QED
  BY <1>1, <1>2, <1>3, PTL DEF Spec

-----------------------------------------------------------------------------

\* What the totals are to the units counted: a queue's total counts them all until it is set
\* back, and always those still in its window.
TotalsInv ==
  \A q \in Queue : /\ held[Window(q)] <= total[q]
                   /\ q \notin reset => total[q] = counted[Window(q)]

LEMMA TotalsInit == Init => TotalsInv
  BY WindowCells DEF Init, TotalsInv

LEMMA TotalsStep ==
  ASSUME TotalsInv, CountersType, UnitsType, [Next]_vars
  PROVE  TotalsInv'
<1> SUFFICES ASSUME NEW q \in Queue
             PROVE  /\ held'[Window(q)] <= total'[q]
                    /\ q \notin reset' => total'[q] = counted'[Window(q)]
  BY DEF TotalsInv, Window
<1>0. /\ Window(q) \in Cell /\ Nothing[Window(q)] = 0
      /\ held[Window(q)] \in Nat /\ total[q] \in Nat /\ counted[Window(q)] \in Nat
      /\ held[Window(q)] <= total[q]
      /\ q \notin reset => total[q] = counted[Window(q)]
  BY WindowCells DEF CountersType, UnitsType, TotalsInv
<1>1. CASE Ticking
  <2>1. held'[Window(q)] \in Nat /\ held'[Window(q)] <= held[Window(q)] /\ total' = total
    BY <1>0, <1>1, TickingTakes
  <2>2. UNCHANGED <<counted, reset>>
    BY <1>1 DEF Ticking, Collect, Counts, Persisted, NoClient, CallFails, GiveUp
  <2> QED
    BY <1>0, <2>1, <2>2
<1>2. ASSUME NEW p \in Queue, JobFinishes(p)
      PROVE  /\ held'[Window(q)] <= total'[q]
             /\ q \notin reset' => total'[q] = counted'[Window(q)]
  <2> DEFINE more == IF p = q THEN Calls(p) ELSE 0
  <2>1. more \in Nat
    BY CallsType
  <2>2. held'[Window(q)] = held[Window(q)] + more /\ total'[q] = total[q] + more
    BY <1>0, <1>2, <2>1, JobFinishesBumps DEF CountersType
  <2>3. counted'[Window(q)] = counted[Window(q)] + more
    <3>1. counted' = [c \in Cell |-> counted[c] + IF c = Window(p) THEN Calls(p) ELSE 0]
      BY <1>2 DEF JobFinishes, Window
    <3> QED
      BY <1>0, <3>1, WindowCells
  <2>4. reset' = reset
    BY <1>2 DEF JobFinishes
  <2> HIDE DEF more
  <2> QED
    BY <1>0, <2>1, <2>2, <2>3, <2>4
<1>3. ASSUME NEW c \in Cell, JobRead(c)
      PROVE  UNCHANGED <<held[Window(q)], total, counted[Window(q)], reset>>
  <2>1. /\ reading[c] > 0 /\ total' = total /\ reset' = reset
        /\ \/ held' = held /\ counted' = counted
           \/ /\ held' = [held EXCEPT ![c] = held[c] + 1]
              /\ counted' = [counted EXCEPT ![c] = counted[c] + 1]
    BY <1>3 DEF JobRead
  <2>2. c # Window(q)
    BY <2>1 DEF CountersType
  <2> QED
    BY <1>0, <2>1, <2>2 DEF CountersType, UnitsType
<1>4. ASSUME NEW new \in Configurations, SetQueues(new)
      PROVE  /\ held'[Window(q)] <= total'[q]
             /\ q \notin reset' => total'[q] = counted'[Window(q)]
  <2>1. q \notin Ids(new) => Window(q) \in Forgotten(new)
    BY DEF Forgotten, CellsOf, Window
  <2>2. held'[Window(q)] = IF Window(q) \in Forgotten(new) THEN 0 ELSE held[Window(q)]
    BY <1>0, <1>4 DEF SetQueues
  <2>3. total'[q] = IF q \in Ids(new) THEN total[q] ELSE 0
    BY <1>4 DEF SetQueues, TotalsAfter
  <2>4. counted' = counted /\ (q \notin reset' => q \notin reset /\ ~(total'[q] < total[q]))
    BY <1>4 DEF SetQueues, SetBack
  <2> QED
    BY <1>0, <2>1, <2>2, <2>3, <2>4
<1>5. CASE Restart
  <2>1. held' = Nothing /\ total'[q] = 0 /\ counted' = counted
    BY <1>5 DEF Restart
  <2>2. q \notin reset' => q \notin reset /\ ~(total'[q] < total[q])
    BY <1>5 DEF Restart, SetBack
  <2> QED
    BY <1>0, <2>1, <2>2
<1>6. CASE (\E p \in Queue : Clear(p)) \/ Stop \/ Start \/ UNCHANGED vars
  <2>1. UNCHANGED <<held, total, counted, reset>>
    BY <1>6 DEF Clear, Stop, Start, vars
  <2> QED
    BY <1>0, <2>1
<1> QED
  BY <1>0, <1>1, <1>2, <1>3, <1>4, <1>5, <1>6 DEF Next, Ticking

\* Until its counter is set back, a queue's series and what is on its way there add up to no more
\* than the counter: an event adds to both, and clears, failures and removed windows only take
\* from the series. After that its window in memory still is part of the counter, for setQueues
\* deletes both.
THEOREM TotalCoversSeriesHolds == Spec => []TotalCoversSeries
<1> DEFINE Inv == TotalsInv /\ UnitsType /\ CountersType /\ Conserved
<1>1. Init => Inv
  BY TotalsInit, UnitsInit, InitCounters
<1>2. Inv /\ [Next]_vars => Inv'
  BY TotalsStep, UnitsStep, NextCounters
<1>3. Inv => TotalCoversSeries
  <2> SUFFICES ASSUME Inv, NEW q \in Queue
               PROVE  LET c == Window(q) IN
                        /\ held[c] <= total[q]
                        /\ q \notin reset => held[c] + InTicks(c) + stored[c] <= total[q]
    BY DEF TotalCoversSeries, Window
  <2>1. held[Window(q)] <= total[q] /\ (q \notin reset => total[q] = counted[Window(q)])
    BY DEF TotalsInv
  <2>2. /\ Window(q) \in Cell
        /\ held[Window(q)] \in Nat /\ stored[Window(q)] \in Nat /\ dropped[Window(q)] \in Nat
        /\ InTicks(Window(q)) \in Int
    BY WindowCells, InTicksType DEF UnitsType
  <2>3. counted[Window(q)] = held[Window(q)] + InTicks(Window(q)) + stored[Window(q)]
                               + dropped[Window(q)]
    BY <2>2 DEF Conserved
  <2> QED
    BY <2>1, <2>2, <2>3
<1> HIDE DEF Inv
<1> QED
  BY <1>1, <1>2, <1>3, PTL DEF Spec
=============================================================================
