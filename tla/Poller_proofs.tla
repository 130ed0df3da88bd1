--------------------------- MODULE Poller_proofs ---------------------------
(***************************************************************************)
(* Proofs about the poller, for every set of feeds and hosts and every      *)
(* value of the timing constants.                                           *)
(***************************************************************************)
EXTENDS Poller, FiniteSetTheorems, SequenceTheorems, TLAPS

(* A non-empty set of naturals has a least element, and Earliest picks it. *)
LEMMA LeastNatural ==
  ASSUME NEW S \in SUBSET Nat, S # {}
  PROVE  \E t \in S : \A u \in S : t <= u
<1>1. IsWellFoundedOn(OpToRel(<, Nat), Nat)
  BY NatLessThanWellFounded
<1>2. PICK t \in S : \A u \in S : <<u, t>> \notin OpToRel(<, Nat)
  BY <1>1, WFMin
<1>3. \A u \in S : ~(u < t)
  BY <1>2 DEF OpToRel
<1> QED
  BY <1>3

LEMMA EarliestProperties ==
  ASSUME NEW S \in SUBSET Nat
  PROVE  /\ S = {} => Earliest(S) = NULL
         /\ S # {} => Earliest(S) \in S /\ \A u \in S : Earliest(S) <= u
<1>1. CASE S = {}
  BY <1>1 DEF Earliest
<1>2. CASE S # {}
  BY <1>2, LeastNatural DEF Earliest
<1> QED
  BY <1>1, <1>2

(* The instants a cycle merges are naturals or the zero time. *)
LEMMA SoonerType ==
  ASSUME NEW a \in Nat \cup {NULL}, NEW b \in Nat \cup {NULL}
  PROVE  Sooner(a, b) \in Nat \cup {NULL}
  BY NullAssumption DEF Sooner, MinOf

LEMMA DelayType ==
  ASSUME NEW w \in Nat \cup {NULL}
  PROVE  NextWakeDelay(w) \in Nat
  BY NullAssumption, TimingAssumption DEF NextWakeDelay, MaxOf, MinOf

LEMMA DeadlinesType ==
  ASSUME TypeOK
  PROVE  Earliest(Deadlines) \in Nat \cup {NULL}
<1>1. Deadlines \in SUBSET Nat
  BY NullAssumption DEF Deadlines, TypeOK, RowType
<1> QED
  BY <1>1, EarliestProperties

LEMMA CycleWakeType ==
  ASSUME TypeOK
  PROVE  CycleWake \in Nat \cup {NULL}
<1> DEFINE Held == {Floor[f] - age[f] : f \in Listed \ Due}
<1>1. Held \in SUBSET Nat
  BY CadenceAssumption DEF Listed, Due, FloorHeld, TypeOK, RowType
<1>2. Earliest(Held) \in Nat \cup {NULL}
  BY <1>1, EarliestProperties
<1> QED
  BY <1>2, DeadlinesType, SoonerType DEF CycleWake

LEMMA FunctionIsSeq ==
  ASSUME NEW n \in Nat, NEW S, NEW s \in [1..n -> S]
  PROVE  s \in Seq(S)
  BY SeqDef

(* Group(h) is a finite set of feeds of h, and what a reconciliation may    *)
(* leave in a queue is a sequence of exactly those feeds.                   *)
LEMMA ReconciledType ==
  ASSUME NEW h \in Hosts, NEW s \in Reconciled(h)
  PROVE  /\ s \in Seq(Feeds)
         /\ Elements(s) = Group(h)
<1>1. Group(h) \in SUBSET Feeds
  BY DEF Group, Due, Listed
<1>2. Cardinality(Group(h)) \in Nat
  BY <1>1, FeedsAssumption, FS_Subset, FS_CardinalityType
<1>3. s \in [1..Cardinality(Group(h)) -> Feeds]
  BY <1>1 DEF Reconciled, Arranged
<1>4. s \in Seq(Feeds)
  BY <1>2, <1>3, FunctionIsSeq
<1>5. Elements(s) = Group(h)
  BY DEF Reconciled, Arranged
<1> QED
  BY <1>4, <1>5

LEMMA HostOrdersType ==
  ASSUME NEW q, NEW s \in HostOrders(q)
  PROVE  s \in Seq(Hosts)
<1> DEFINE ready == {h \in Hosts : Group(h) # {}}
<1>1. Cardinality(ready) \in Nat
  BY FeedsAssumption, FS_Subset, FS_CardinalityType
<1>2. s \in [1..Cardinality(ready) -> Hosts]
  BY DEF HostOrders
<1> HIDE DEF ready
<1> QED
  BY <1>1, <1>2, FunctionIsSeq

-----------------------------------------------------------------------------
(* Type correctness. *)

LEMMA TypeInit == Init => TypeOK
  BY CadenceAssumption, TimingAssumption
  DEF Init, TypeOK, RowType, MemoryType, CycleType, ObserverType

(* Whatever a fetch of f answers, the rows and limits keep their types. *)
LEMMA OutcomeType ==
  ASSUME TypeOK, NEW f \in Feeds, Outcome(f)
  PROVE  /\ RowType'
         /\ window' \in [Hosts -> Nat]
         /\ cool' \in [Hosts -> Nat]
         /\ asked' \in [Feeds -> Nat]
<1> USE DEF TypeOK, RowType, MemoryType, ObserverType
<1>1. CASE Success(f)
  <2>1. PICK i \in Intervals[f], o \in Offsets[f] \cup {NULL} :
          /\ interval' = [interval EXCEPT ![f] = i]
          /\ plan' = [plan EXCEPT ![f] = IF o = NULL THEN NULL ELSE Schedule(o, f, i)]
          /\ sched' = [sched EXCEPT ![f] = o # NULL]
    BY <1>1 DEF Success
  <2>2. i \in Nat /\ (o # NULL => Schedule(o, f, i) \in Nat)
    BY CadenceAssumption DEF Schedule, MinOf, MaxOf
  <2> QED
    BY <1>1, <2>1, <2>2 DEF Success
<1>2. CASE Failure(f)
  BY <1>2 DEF Failure
<1>3. CASE StoreFailure(f)
  BY <1>3 DEF StoreFailure, rowVars, limitVars
<1>4. CASE Gone(f)
  BY <1>4 DEF Gone
<1>5. ASSUME NEW r \in Backoffs, Limited(f, r)
      PROVE  /\ RowType'
             /\ window' \in [Hosts -> Nat]
             /\ cool' \in [Hosts -> Nat]
             /\ asked' \in [Feeds -> Nat]
  <2>1. r \in Nat /\ HostOf[f] \in Hosts
    BY LimitAssumption, TopologyAssumption
  <2>2. /\ MaxOf(window[HostOf[f]], MaxOf(r, WindowFloor)) \in Nat
        /\ MaxOf(cool[HostOf[f]], r) \in Nat
    BY <2>1, TimingAssumption DEF MaxOf
  <2>3. window' \in [Hosts -> Nat] /\ cool' \in [Hosts -> Nat]
    BY <1>5, <2>2 DEF Limited
  <2>4. RowType' /\ asked' \in [Feeds -> Nat]
    BY <1>5, <2>1 DEF Limited
  <2> QED
    BY <2>3, <2>4
<1> QED
  BY <1>1, <1>2, <1>3, <1>4, <1>5 DEF Outcome

(* A worker's return keeps the types of what it touches. *)
LEMMA LeaveType ==
  ASSUME TypeOK, NEW h \in Hosts, NEW w \in Nat \cup {NULL}, Leave(h, w)
  PROVE  serving' \subseteq Hosts /\ wake' \in Nat \cup {NULL}
  BY SoonerType DEF Leave, TypeOK, CycleType
LEMMA TypeNext == TypeOK /\ [Next]_vars => TypeOK'
<1> SUFFICES ASSUME TypeOK, [Next]_vars PROVE TypeOK'
  OBVIOUS
<1> USE DEF TypeOK, RowType, MemoryType, CycleType, ObserverType
<1>1. CASE IdleCycle
  <2>1. timer' \in Nat
    BY <1>1, CycleWakeType, DelayType DEF IdleCycle
  <2>2. queue' \in [Hosts -> Seq(Feeds)] /\ passed' \in [Feeds -> SUBSET Feeds]
    BY <1>1 DEF IdleCycle
  <2> QED
    BY <1>1, <2>1, <2>2 DEF IdleCycle, rowVars, limitVars
<1>2. CASE StartCycle
  <2>1. queue' \in [Hosts -> Seq(Feeds)]
    BY <1>2, ReconciledType DEF StartCycle
  <2>2. pending' \in Seq(Hosts)
    BY <1>2, HostOrdersType DEF StartCycle
  <2>3. wake' \in Nat \cup {NULL} /\ due' \subseteq Feeds
    BY <1>2, CycleWakeType DEF StartCycle, Due, Listed
  <2>4. passed' \in [Feeds -> SUBSET Feeds]
    BY <1>2 DEF StartCycle
  <2> QED
    BY <1>2, <2>1, <2>2, <2>3, <2>4 DEF StartCycle, rowVars, limitVars
<1>3. CASE Dispatch
  BY <1>3, HeadTailProperties DEF Dispatch, rowVars, limitVars, hostHistory
<1>4. CASE EndCycle
  <2>1. timer' \in Nat
    BY <1>4, DeadlinesType, SoonerType, DelayType DEF EndCycle
  <2> QED
    BY <1>4, <2>1 DEF EndCycle, rowVars, limitVars, hostHistory
<1>5. ASSUME NEW h \in Hosts, HostStep(h) PROVE TypeOK'
  <2>1. CASE HostDrained(h)
    BY <1>5, <2>1, LeaveType DEF HostDrained, rowVars, limitVars, hostHistory
  <2>2. CASE HostHeld(h)
    BY <1>5, <2>2, LeaveType DEF HostHeld, rowVars, limitVars, hostHistory
  <2>3. CASE BeginFetch(h)
    <3>1. Head(queue[h]) \in Feeds /\ Rest(queue[h]) \in Seq(Feeds)
      BY <1>5, <2>3, HeadTailProperties DEF BeginFetch, Rest
    <3>2. passed' \in [Feeds -> SUBSET Feeds]
      BY <2>3, <3>1 DEF BeginFetch
    <3>3. queue' \in [Hosts -> Seq(Feeds)] /\ inflight' \in [Hosts -> Feeds \cup {NULL}]
      BY <2>3, <3>1 DEF BeginFetch
    <3> QED
      BY <2>3, <3>2, <3>3 DEF BeginFetch, rowVars, limitVars
  <2>4. CASE EndFetch(h)
    <3>1. inflight[h] \in Feeds
      BY <2>4 DEF EndFetch
    <3>2. RowType' /\ window' \in [Hosts -> Nat] /\ cool' \in [Hosts -> Nat]
          /\ asked' \in [Feeds -> Nat]
      BY <2>4, <3>1, OutcomeType DEF EndFetch
    <3>3. EffectiveSpacing(h) \in Nat
      BY <3>2, TimingAssumption DEF EffectiveSpacing, MaxOf
    <3>4. /\ nextHit' \in [Hosts -> Nat]
          /\ serving' \subseteq Hosts /\ wake' \in Nat \cup {NULL}
      BY <2>4, <3>3, LeaveType DEF EndFetch, MaxOf
    <3> QED
      BY <2>4, <3>2, <3>4 DEF EndFetch
  <2> QED
    BY <1>5, <2>1, <2>2, <2>3, <2>4 DEF HostStep
<1>6. ASSUME NEW f \in Feeds, Refresh(f) PROVE TypeOK'
  BY <1>6, OutcomeType DEF Refresh, cycleVars, hostHistory
<1>7. ASSUME NEW f \in Feeds, Toggle(f) PROVE TypeOK'
  BY <1>7 DEF Toggle, limitVars, cycleVars, hostHistory
<1>8. ASSUME NEW h \in Hosts, NEW r \in PluginBackoffs, PluginLimited(h, r)
      PROVE  TypeOK'
  BY <1>8, LimitAssumption
  DEF PluginLimited, MaxOf, rowVars, cycleVars, hostHistory
<1>9. CASE Restart
  BY <1>9, TimingAssumption DEF Restart, rowVars
<1>10. CASE Tick
  <2>1. age' \in [Feeds -> Nat] /\ asked' \in [Feeds -> Nat]
    BY <1>10, BoundAssumption DEF Tick, MinOf, Down
  <2>2. plan' \in [Feeds -> Int \cup {NULL}]
    BY <1>10, BoundAssumption DEF Tick, MaxOf
  <2>3. /\ nextHit' \in [Hosts -> Nat] /\ cool' \in [Hosts -> Nat]
        /\ since' \in [Hosts -> Nat]
    BY <1>10, TimingAssumption DEF Tick, MinOf, Down
  <2>4. timer' \in Nat /\ wake' \in Nat \cup {NULL}
    BY <1>10, NullAssumption DEF Tick, Down
  <2> QED
    BY <1>10, <2>1, <2>2, <2>3, <2>4 DEF Tick
<1>11. CASE UNCHANGED vars
  BY <1>11 DEF vars
<1> QED
  BY <1>1, <1>2, <1>3, <1>4, <1>5, <1>6, <1>7, <1>8, <1>9, <1>10, <1>11
  DEF Next, LoopStep

(* Every variable keeps its type, for any feeds, hosts and timings. *)
THEOREM TypeCorrect == Spec => []TypeOK
<1>1. Init => TypeOK
  BY TypeInit
<1>2. TypeOK /\ [Next]_vars => TypeOK'
  BY TypeNext
<1> QED
  BY <1>1, <1>2, PTL DEF Spec

-----------------------------------------------------------------------------
(* The queues.  QueuesDisjoint is not inductive alone: a reconciliation may *)
(* put any due feed back, so no fetch may be under way outside a cycle.     *)

(* A worker runs only inside a cycle, and only a running worker fetches. *)
WorkersInCycle ==
  /\ phase = "sleep" => serving = {} /\ pending = <<>>
  /\ \A h \in Hosts : inflight[h] # NULL => h \in serving

QueueInv == WorkersInCycle /\ QueuesDisjoint

LEMMA RestProperties ==
  ASSUME NEW S, NEW s \in Seq(S), s # <<>>
  PROVE  /\ DOMAIN s = 1..Len(s) /\ Len(s) \in Nat \ {0}
         /\ DOMAIN Rest(s) = 1..(Len(s) - 1)
         /\ \A i \in DOMAIN Rest(s) : i + 1 \in DOMAIN s /\ Rest(s)[i] = s[i + 1]
         /\ Head(s) = s[1]
         /\ Head(s) \in Elements(s)
         /\ Elements(Rest(s)) \subseteq Elements(s)
<1>1. /\ DOMAIN s = 1..Len(s) /\ Len(s) \in Nat \ {0}
      /\ DOMAIN Rest(s) = 1..(Len(s) - 1)
      /\ \A i \in 1..(Len(s) - 1) : Rest(s)[i] = s[i + 1]
  BY HeadTailProperties, LenProperties, EmptySeq DEF Rest
<1>2. Head(s) = s[1]
  BY <1>1
<1> QED
  BY <1>1, <1>2 DEF Elements

LEMMA QueueInit == Init => QueueInv
  BY DEF Init, QueueInv, WorkersInCycle, QueuesDisjoint, Elements

(* A reconciled queue holds due feeds of its host, each once. *)
LEMMA ReconciledDistinct ==
  ASSUME NEW h \in Hosts, NEW s \in Reconciled(h)
  PROVE  /\ \A i, j \in DOMAIN s : i # j => s[i] # s[j]
         /\ \A i, j \in DOMAIN s : i < j => Ahead(h, s[i], s[j])
         /\ \A f \in Elements(s) : f \in Due /\ HostOf[f] = h
<1>1. Cardinality(Group(h)) \in Nat
  BY FeedsAssumption, FS_Subset, FS_CardinalityType DEF Group, Due, Listed
<1>2. /\ DOMAIN s = 1..Cardinality(Group(h))
      /\ \A i, j \in DOMAIN s : i < j => s[i] # s[j] /\ Ahead(h, s[i], s[j])
  BY DEF Reconciled, Arranged
<1>3. \A i, j \in DOMAIN s : i # j => i < j \/ j < i
  BY <1>1, <1>2
<1>4. \A f \in Elements(s) : f \in Due /\ HostOf[f] = h
  BY ReconciledType DEF Group
<1> QED
  BY <1>2, <1>3, <1>4

LEMMA QueueNext == TypeOK /\ QueueInv /\ [Next]_vars => QueueInv'
<1> SUFFICES ASSUME TypeOK, QueueInv, [Next]_vars PROVE QueueInv'
  OBVIOUS
<1> USE DEF QueueInv, WorkersInCycle
<1>1. CASE IdleCycle
  BY <1>1 DEF IdleCycle, QueuesDisjoint, Elements
<1>2. CASE StartCycle
  <2>1. \A h \in Hosts : inflight'[h] = NULL
    BY <1>2 DEF StartCycle
  <2>2. \A h \in Hosts : queue'[h] \in Reconciled(h)
    BY <1>2 DEF StartCycle
  <2>3. \A h \in Hosts : Elements(queue'[h]) \subseteq Feeds
    BY <2>2, ReconciledType DEF Group, Due, Listed
  <2>4. QueuesDisjoint'
    BY <2>1, <2>2, <2>3, ReconciledDistinct, NullAssumption DEF QueuesDisjoint
  <2> QED
    BY <1>2, <2>1, <2>4 DEF StartCycle
<1>3. CASE Dispatch
  BY <1>3 DEF Dispatch, QueuesDisjoint
<1>4. CASE EndCycle
  BY <1>4 DEF EndCycle, QueuesDisjoint
<1>5. ASSUME NEW h \in Hosts, HostStep(h) PROVE QueueInv'
  <2>1. CASE HostDrained(h)
    BY <2>1 DEF HostDrained, AtQueue, Leave, QueuesDisjoint
  <2>2. CASE HostHeld(h)
    BY <2>2 DEF HostHeld, AtQueue, Leave, QueuesDisjoint
  <2>3. CASE BeginFetch(h)
    <3>1. /\ inflight' = [inflight EXCEPT ![h] = Head(queue[h])]
          /\ queue' = [queue EXCEPT ![h] = Rest(@)]
          /\ queue[h] # <<>> /\ h \in serving
          /\ UNCHANGED <<phase, serving, pending>>
      BY <2>3 DEF BeginFetch, AtQueue
    <3>2. queue[h] \in Seq(Feeds) /\ queue \in [Hosts -> Seq(Feeds)]
          /\ inflight \in [Hosts -> Feeds \cup {NULL}]
      BY DEF TypeOK, MemoryType, CycleType
    <3>3. \A i, j \in DOMAIN Rest(queue[h]) :
            i # j => Rest(queue[h])[i] # Rest(queue[h])[j]
      BY <3>1, <3>2, RestProperties DEF QueuesDisjoint
    <3>4. Head(queue[h]) \notin Elements(Rest(queue[h]))
      <4>1. \A i \in DOMAIN Rest(queue[h]) : Rest(queue[h])[i] # queue[h][1]
        BY <3>1, <3>2, RestProperties DEF QueuesDisjoint
      <4> QED
        BY <3>1, <3>2, <4>1, RestProperties DEF Elements
    <3>5. \A f \in Elements(Rest(queue[h])) : HostOf[f] = h
      BY <3>1, <3>2, RestProperties DEF QueuesDisjoint
    <3>6. QueuesDisjoint'
      BY <3>1, <3>2, <3>3, <3>4, <3>5 DEF QueuesDisjoint
    <3> QED
      BY <3>1, <3>2, <3>6
  <2>4. CASE EndFetch(h)
    <3>1. /\ inflight' = [inflight EXCEPT ![h] = NULL]
          /\ serving' \in {serving, serving \ {h}}
          /\ phase = "sleep" => h \notin serving
          /\ UNCHANGED <<queue, phase, pending>>
      BY <2>4 DEF EndFetch, Leave
    <3>2. inflight \in [Hosts -> Feeds \cup {NULL}] /\ queue \in [Hosts -> Seq(Feeds)]
      BY DEF TypeOK, MemoryType, CycleType
    <3>3. \A k \in Hosts : Elements(queue[k]) \subseteq Feeds
      BY <3>2, LenProperties DEF Elements
    <3> QED
      BY <3>1, <3>2, <3>3, NullAssumption DEF QueuesDisjoint
  <2> QED
    BY <1>5, <2>1, <2>2, <2>3, <2>4 DEF HostStep
<1>6. ASSUME NEW f \in Feeds, Refresh(f) \/ Toggle(f) PROVE QueueInv'
  BY <1>6 DEF Refresh, Toggle, cycleVars, QueuesDisjoint
<1>7. ASSUME NEW h \in Hosts, NEW r \in PluginBackoffs, PluginLimited(h, r)
      PROVE  QueueInv'
  BY <1>7 DEF PluginLimited, cycleVars, QueuesDisjoint
<1>8. CASE Restart
  BY <1>8 DEF Restart, QueuesDisjoint, Elements
<1>9. CASE Tick
  BY <1>9 DEF Tick, QueuesDisjoint
<1>10. CASE UNCHANGED vars
  BY <1>10 DEF vars, QueuesDisjoint
<1> QED
  BY <1>1, <1>2, <1>3, <1>4, <1>5, <1>6, <1>7, <1>8, <1>9, <1>10 DEF Next, LoopStep

(* A feed waits once, in its own host's queue, whatever the steps. *)
THEOREM QueuesStayDisjoint == Spec => []QueuesDisjoint
<1>1. Init => TypeOK /\ QueueInv
  BY TypeInit, QueueInit
<1>2. TypeOK /\ QueueInv /\ [Next]_vars => (TypeOK /\ QueueInv)'
  BY TypeNext, QueueNext
<1>3. QueueInv => QueuesDisjoint
  BY DEF QueueInv
<1> QED
  BY <1>1, <1>2, <1>3, PTL DEF Spec

-----------------------------------------------------------------------------
(* Fairness of the queue. *)

LEMMA OrderInit == Init => FirstComeFirstServed
  BY DEF Init, FirstComeFirstServed

LEMMA OrderNext ==
  TypeOK /\ QueueInv /\ FirstComeFirstServed /\ [Next]_vars => FirstComeFirstServed'
<1> SUFFICES ASSUME TypeOK, QueueInv, FirstComeFirstServed, [Next]_vars
             PROVE  FirstComeFirstServed'
  OBVIOUS
<1>1. CASE IdleCycle
  BY <1>1 DEF IdleCycle, FirstComeFirstServed
<1>2. CASE StartCycle
  <2> SUFFICES ASSUME NEW h \in Hosts, NEW i \in DOMAIN queue'[h],
                      NEW j \in DOMAIN queue'[h], i < j
               PROVE  queue'[h][i] \notin passed'[queue'[h][j]]
    BY DEF FirstComeFirstServed
  <2> DEFINE f == queue'[h][i]
             g == queue'[h][j]
  <2>1. queue'[h] \in Reconciled(h)
    BY <1>2 DEF StartCycle
  <2>2. g \in Due /\ g \in Feeds /\ HostOf[g] = h /\ Ahead(h, f, g)
    BY <2>1, ReconciledDistinct DEF Elements, Due, Listed
  <2>3. passed'[g] = IF g \in Elements(queue[h]) THEN passed[g] ELSE {}
    BY <1>2, <2>2 DEF StartCycle
  <2>4. CASE g \in Elements(queue[h])
    BY <2>2, <2>3, <2>4 DEF Ahead, WaitsAhead, FirstComeFirstServed
  <2> QED
    BY <2>3, <2>4
<1>3. ASSUME NEW k \in Hosts, BeginFetch(k) PROVE FirstComeFirstServed'
  <2> SUFFICES ASSUME NEW h \in Hosts, NEW i \in DOMAIN queue'[h],
                      NEW j \in DOMAIN queue'[h], i < j
               PROVE  queue'[h][i] \notin passed'[queue'[h][j]]
    BY DEF FirstComeFirstServed
  <2>1. queue[k] \in Seq(Feeds) /\ queue[k] # <<>> /\ queue \in [Hosts -> Seq(Feeds)]
        /\ queue' = [queue EXCEPT ![k] = Rest(@)]
    BY <1>3 DEF BeginFetch, TypeOK, MemoryType
  <2>2. \A f \in Feeds :
          passed'[f] = IF f = Head(queue[k]) THEN {}
                       ELSE IF f \in Elements(Rest(queue[k]))
                            THEN passed[f] \cup {Head(queue[k])} ELSE passed[f]
    BY <1>3 DEF BeginFetch
  <2>3. CASE h = k
    <3>1. /\ i + 1 \in DOMAIN queue[h] /\ j + 1 \in DOMAIN queue[h]
          /\ queue'[h][i] = queue[h][i + 1] /\ queue'[h][j] = queue[h][j + 1]
          /\ i + 1 < j + 1 /\ i + 1 # 1 /\ 1 \in DOMAIN queue[h]
          /\ queue'[h][j] \in Elements(Rest(queue[k]))
      BY <2>1, <2>3, RestProperties DEF Elements
    <3>2. queue'[h][i] # Head(queue[k])
      BY <2>1, <2>3, <3>1, RestProperties DEF QueueInv, QueuesDisjoint
    <3>3. queue'[h][i] \notin passed[queue'[h][j]]
      BY <3>1 DEF FirstComeFirstServed
    <3>4. queue'[h][j] \in Feeds
      BY <2>1, <3>1, ElementOfSeq, LenProperties
    <3> QED
      BY <2>2, <3>2, <3>3, <3>4
  <2>4. CASE h # k
    <3>1. queue'[h] = queue[h]
      BY <2>1, <2>4
    <3>2. queue[h][j] \in Feeds /\ HostOf[queue[h][j]] = h
      BY <2>1, <3>1, ElementOfSeq, LenProperties DEF QueueInv, QueuesDisjoint, Elements
    <3>3. queue[h][j] \notin Elements(queue[k])
      BY <2>4, <3>2 DEF QueueInv, QueuesDisjoint
    <3>4. passed'[queue[h][j]] = passed[queue[h][j]]
      BY <2>1, <2>2, <3>2, <3>3, RestProperties
    <3> QED
      BY <3>1, <3>4 DEF FirstComeFirstServed
  <2> QED
    BY <2>3, <2>4
<1>4. CASE Restart
  BY <1>4 DEF Restart, FirstComeFirstServed
<1>5. CASE UNCHANGED <<queue, passed>>
  BY <1>5 DEF FirstComeFirstServed
<1>6. ASSUME NEW k \in Hosts, HostStep(k) PROVE BeginFetch(k) \/ UNCHANGED <<queue, passed>>
  BY <1>6 DEF HostStep, HostDrained, HostHeld, EndFetch, hostHistory
<1>7. ASSUME NEW f \in Feeds, Refresh(f) \/ Toggle(f) PROVE UNCHANGED <<queue, passed>>
  BY <1>7 DEF Refresh, Toggle, hostHistory
<1>8. ASSUME NEW k \in Hosts, NEW r \in PluginBackoffs, PluginLimited(k, r)
      PROVE  UNCHANGED <<queue, passed>>
  BY <1>8 DEF PluginLimited, hostHistory
<1>9. Dispatch \/ EndCycle \/ Tick \/ UNCHANGED vars => UNCHANGED <<queue, passed>>
  BY DEF Dispatch, EndCycle, Tick, vars, hostHistory
<1> QED
  BY <1>1, <1>2, <1>3, <1>4, <1>5, <1>6, <1>7, <1>8, <1>9 DEF Next, LoopStep

(* A feed that becomes due again never overtakes one that already waits. *)
THEOREM QueuesAreFair == Spec => []FirstComeFirstServed
<1>1. Init => TypeOK /\ QueueInv /\ FirstComeFirstServed
  BY TypeInit, QueueInit, OrderInit
<1>2. TypeOK /\ QueueInv /\ FirstComeFirstServed /\ [Next]_vars
        => (TypeOK /\ QueueInv /\ FirstComeFirstServed)'
  BY TypeNext, QueueNext, OrderNext
<1> QED
  BY <1>1, <1>2, PTL DEF Spec

-----------------------------------------------------------------------------
(* Rate limits on record. *)

LEMMA RecordInit == Init => BackoffRecorded
  BY DEF Init, BackoffRecorded

(* Every outcome of a fetch of f leaves f's own record consistent, and no   *)
(* other feed's is touched.                                                 *)
LEMMA OutcomeRecorded ==
  ASSUME TypeOK, BackoffRecorded, NEW f \in Feeds, Outcome(f)
  PROVE  BackoffRecorded'
<1> USE DEF TypeOK, RowType, ObserverType
<1>1. CASE Success(f)
  BY <1>1 DEF Success, BackoffRecorded
<1>2. CASE Failure(f)
  BY <1>2 DEF Failure, BackoffRecorded
<1>3. CASE StoreFailure(f)
  BY <1>3 DEF StoreFailure, rowVars, BackoffRecorded
<1>4. CASE Gone(f)
  BY <1>4 DEF Gone, BackoffRecorded
<1>5. ASSUME NEW r \in Backoffs, Limited(f, r) PROVE BackoffRecorded'
  <2>1. r \in Nat /\ r # NULL
    BY LimitAssumption, NullAssumption
  <2> QED
    BY <1>5, <2>1 DEF Limited, BackoffRecorded
<1> QED
  BY <1>1, <1>2, <1>3, <1>4, <1>5 DEF Outcome

LEMMA RecordNext == TypeOK /\ BackoffRecorded /\ [Next]_vars => BackoffRecorded'
<1> SUFFICES ASSUME TypeOK, BackoffRecorded, [Next]_vars PROVE BackoffRecorded'
  OBVIOUS
<1>1. CASE UNCHANGED <<plan, sched, asked>>
  BY <1>1 DEF BackoffRecorded
<1>2. CASE Tick
  <2> SUFFICES ASSUME NEW f \in Feeds, asked'[f] > 0
               PROVE  plan'[f] # NULL /\ plan'[f] >= asked'[f] /\ ~sched'[f]
    BY DEF BackoffRecorded
  <2>1. asked[f] \in Nat /\ plan[f] \in Int \cup {NULL} /\ MaxLate \in Nat
    BY BoundAssumption DEF TypeOK, RowType, ObserverType
  <2>2. asked'[f] = asked[f] - 1 /\ asked[f] > 0
    BY <1>2, <2>1 DEF Tick, Down
  <2>3. plan[f] # NULL /\ plan[f] >= asked[f] /\ ~sched[f]
    BY <2>2 DEF BackoffRecorded
  <2>4. plan'[f] = plan[f] - 1 /\ sched'[f] = sched[f]
    BY <1>2, <2>1, <2>2, <2>3 DEF Tick, MaxOf
  <2> QED
    BY <2>1, <2>2, <2>3, <2>4, NullAssumption
<1>3. ASSUME NEW h \in Hosts, HostStep(h) PROVE BackoffRecorded'
  <2>1. CASE EndFetch(h)
    <3>1. inflight[h] \in Feeds /\ Outcome(inflight[h])
      BY <2>1 DEF EndFetch, TypeOK, CycleType
    <3> QED
      BY <3>1, OutcomeRecorded
  <2>2. HostDrained(h) \/ HostHeld(h) \/ BeginFetch(h) => UNCHANGED <<plan, sched, asked>>
    BY DEF HostDrained, HostHeld, BeginFetch, rowVars
  <2> QED
    BY <1>1, <1>3, <2>1, <2>2 DEF HostStep
<1>4. ASSUME NEW f \in Feeds, Refresh(f) \/ Toggle(f) PROVE BackoffRecorded'
  <2>1. CASE Refresh(f)
    BY <2>1, OutcomeRecorded DEF Refresh
  <2>2. CASE Toggle(f)
    BY <1>1, <2>2 DEF Toggle
  <2> QED
    BY <1>4, <2>1, <2>2
<1>5. ASSUME NEW h \in Hosts, NEW r \in PluginBackoffs, PluginLimited(h, r)
      PROVE  BackoffRecorded'
  BY <1>1, <1>5 DEF PluginLimited, rowVars
<1>6. LoopStep \/ Restart \/ UNCHANGED vars => UNCHANGED <<plan, sched, asked>>
  BY DEF LoopStep, IdleCycle, StartCycle, Dispatch, EndCycle, Restart, vars, rowVars
<1> QED
  BY <1>1, <1>2, <1>3, <1>4, <1>5, <1>6 DEF Next

(* A rate limit stays on record for as long as the host asked. *)
THEOREM BackoffStaysRecorded == Spec => []BackoffRecorded
<1>1. Init => TypeOK /\ BackoffRecorded
  BY TypeInit, RecordInit
<1>2. TypeOK /\ BackoffRecorded /\ [Next]_vars => (TypeOK /\ BackoffRecorded)'
  BY TypeNext, RecordNext
<1> QED
  BY <1>1, <1>2, PTL DEF Spec

-----------------------------------------------------------------------------
(* Rate limits honoured.  A worker pops feeds from a queue filled when the  *)
(* cycle began, so the record alone does not stop it: a limit met since     *)
(* then stops it because it also cools the host.                            *)

Served == serving \cup Elements(pending)

(* A feed still to be popped in this cycle that carries a running limit has *)
(* a host that cools at least as long.                                      *)
CoolWhileAsked ==
  \A h \in Served : \A f \in Elements(queue[h]) : cool[h] >= asked[f]

(* Between the start of a cycle and its end, fewer hosts and fewer feeds    *)
(* are left, from the same snapshot.                                        *)
LEMMA CycleShrinks ==
  ASSUME TypeOK, QueueInv, [Next]_vars, ~StartCycle
  PROVE  \A h \in Served' : /\ h \in Served /\ h \in Hosts
                            /\ Elements(queue'[h]) \subseteq Elements(queue[h])
                            /\ due' = due
                            /\ ~Restart
<1>0. /\ Served \subseteq Hosts /\ pending \in Seq(Hosts) /\ Elements(<<>>) = {}
      /\ queue \in [Hosts -> Seq(Feeds)]
  BY LenProperties DEF Served, Elements, TypeOK, CycleType, MemoryType
<1>1. CASE UNCHANGED <<serving, pending, queue, due>> /\ ~Restart
  BY <1>0, <1>1 DEF Served
<1>2. CASE Restart
  BY <1>0, <1>2 DEF Restart, Served
<1>3. CASE IdleCycle
  BY <1>0, <1>3 DEF IdleCycle, Served, QueueInv, WorkersInCycle
<1>4. CASE EndCycle
  BY <1>0, <1>4 DEF EndCycle, Served
<1>5. CASE Dispatch
  <2>1. Head(pending) \in Elements(pending) /\ Elements(Tail(pending)) \subseteq Elements(pending)
    BY <1>0, <1>5, RestProperties DEF Dispatch, Rest
  <2>2. Served' \subseteq Served
    BY <1>5, <2>1 DEF Dispatch, Served
  <2>3. queue' = queue /\ due' = due
    BY <1>5 DEF Dispatch
  <2>4. ~Restart
    BY <1>5 DEF Dispatch, Restart
  <2> QED
    BY <1>0, <2>2, <2>3, <2>4
<1>6. ASSUME NEW k \in Hosts, HostStep(k)
      PROVE  \A h \in Served' : /\ h \in Served /\ h \in Hosts
                                /\ Elements(queue'[h]) \subseteq Elements(queue[h])
                                /\ due' = due
                                /\ ~Restart
  <2>1. Served' \subseteq Served /\ due' = due
    BY <1>6 DEF HostStep, HostDrained, HostHeld, BeginFetch, EndFetch, Leave, Served
  <2>2. \A h \in Hosts : Elements(queue'[h]) \subseteq Elements(queue[h])
    <3>1. CASE BeginFetch(k)
      <4>1. queue[k] # <<>> /\ queue' = [queue EXCEPT ![k] = Rest(@)]
        BY <3>1 DEF BeginFetch
      <4> QED
        BY <1>0, <4>1, RestProperties
    <3>2. CASE UNCHANGED queue
      BY <3>2
    <3> QED
      BY <1>6, <3>1, <3>2 DEF HostStep, HostDrained, HostHeld, EndFetch
  <2>3. ~Restart
    BY <1>6 DEF HostStep, HostDrained, HostHeld, BeginFetch, EndFetch, Restart, TypeOK, CycleType
  <2> QED
    BY <1>0, <2>1, <2>2, <2>3
<1>7. ASSUME NEW f \in Feeds, Refresh(f) \/ Toggle(f)
      PROVE  UNCHANGED <<serving, pending, queue, due>> /\ ~Restart
  BY <1>7 DEF Refresh, Toggle, cycleVars, Restart, TypeOK, CycleType
<1>8. ASSUME NEW h \in Hosts, NEW r \in PluginBackoffs, PluginLimited(h, r)
      PROVE  UNCHANGED <<serving, pending, queue, due>> /\ ~Restart
  BY <1>8 DEF PluginLimited, cycleVars, Restart, TypeOK, CycleType
<1>9. Tick \/ UNCHANGED vars => UNCHANGED <<serving, pending, queue, due>> /\ ~Restart
  BY DEF Tick, vars, Restart, TypeOK, CycleType
<1> QED
  BY <1>1, <1>2, <1>3, <1>4, <1>5, <1>6, <1>7, <1>8, <1>9 DEF Next, LoopStep

LEMMA SnapshotInit == Init => QueuedIsDue
  BY DEF Init, QueuedIsDue, Elements

LEMMA SnapshotNext ==
  TypeOK /\ QueueInv /\ QueuedIsDue /\ [Next]_vars => QueuedIsDue'
<1> SUFFICES ASSUME TypeOK, QueueInv, QueuedIsDue, [Next]_vars PROVE QueuedIsDue'
  OBVIOUS
<1>1. CASE StartCycle
  <2>1. pending' \in Seq(Hosts) /\ serving' \subseteq Hosts
    BY <1>1, TypeNext DEF TypeOK, CycleType
  <2>2. \A h \in serving' \cup Elements(pending)' : h \in Hosts
    BY <2>1, LenProperties DEF Elements
  <2>3. \A h \in Hosts : Elements(queue'[h]) \subseteq due'
    BY <1>1, ReconciledDistinct DEF StartCycle
  <2> QED
    BY <2>2, <2>3 DEF QueuedIsDue
<1>2. CASE ~StartCycle
  BY <1>2, CycleShrinks DEF QueuedIsDue, Served
<1> QED
  BY <1>1, <1>2

(* Every feed a worker may pop has a snapshot: reconciliation removed it    *)
(* otherwise, so the defensive branch of pollHost is never taken.           *)
THEOREM SnapshotsComplete == Spec => []QueuedIsDue
<1>1. Init => TypeOK /\ QueueInv /\ QueuedIsDue
  BY TypeInit, QueueInit, SnapshotInit
<1>2. TypeOK /\ QueueInv /\ QueuedIsDue /\ [Next]_vars
        => (TypeOK /\ QueueInv /\ QueuedIsDue)'
  BY TypeNext, QueueNext, SnapshotNext
<1> QED
  BY <1>1, <1>2, PTL DEF Spec

(* No step but a restart lets a limit outlive the cooldown that covers it.  *)
LEMMA OutcomeCools ==
  ASSUME TypeOK, NEW f \in Feeds, Outcome(f),
         NEW g \in Feeds, cool[HostOf[g]] >= asked[g]
  PROVE  cool'[HostOf[g]] >= asked'[g]
<1> USE TopologyAssumption DEF TypeOK, MemoryType, ObserverType
<1>1. CASE Success(f) \/ Failure(f) \/ Gone(f)
  <2>1. cool' = cool /\ asked' = [asked EXCEPT ![f] = 0]
    BY <1>1 DEF Success, Failure, Gone
  <2> QED
    BY <2>1
<1>2. CASE StoreFailure(f)
  BY <1>2 DEF StoreFailure, limitVars
<1>3. ASSUME NEW r \in Backoffs, Limited(f, r) PROVE cool'[HostOf[g]] >= asked'[g]
  <2>1. /\ cool' = [cool EXCEPT ![HostOf[f]] = MaxOf(@, r)]
        /\ asked' = [asked EXCEPT ![f] = r]
        /\ r \in Nat
    BY <1>3, LimitAssumption DEF Limited
  <2> QED
    BY <2>1 DEF MaxOf
<1> QED
  BY <1>1, <1>2, <1>3 DEF Outcome

LEMMA StepCools ==
  ASSUME TypeOK, [Next]_vars, ~Restart,
         NEW g \in Feeds, cool[HostOf[g]] >= asked[g]
  PROVE  cool'[HostOf[g]] >= asked'[g]
<1> USE TopologyAssumption DEF TypeOK, MemoryType, ObserverType
<1>1. CASE UNCHANGED <<cool, asked>>
  BY <1>1
<1>2. CASE Tick
  BY <1>2 DEF Tick, Down
<1>3. ASSUME NEW h \in Hosts, NEW r \in PluginBackoffs, PluginLimited(h, r)
      PROVE  cool'[HostOf[g]] >= asked'[g]
  <2>1. cool' = [cool EXCEPT ![h] = MaxOf(@, r)] /\ asked' = asked /\ r \in Nat
    BY <1>3, LimitAssumption DEF PluginLimited
  <2> QED
    BY <2>1 DEF MaxOf
<1>4. ASSUME NEW h \in Hosts, HostStep(h) PROVE cool'[HostOf[g]] >= asked'[g]
  <2>1. CASE EndFetch(h)
    <3>1. inflight[h] \in Feeds /\ Outcome(inflight[h])
      BY <2>1 DEF EndFetch, CycleType
    <3> QED
      BY <3>1, OutcomeCools
  <2>2. HostDrained(h) \/ HostHeld(h) \/ BeginFetch(h) => UNCHANGED <<cool, asked>>
    BY DEF HostDrained, HostHeld, BeginFetch, limitVars
  <2> QED
    BY <1>1, <1>4, <2>1, <2>2 DEF HostStep
<1>5. ASSUME NEW f \in Feeds, Refresh(f) PROVE cool'[HostOf[g]] >= asked'[g]
  BY <1>5, OutcomeCools DEF Refresh
<1>6. ASSUME NEW f \in Feeds, Toggle(f) PROVE UNCHANGED <<cool, asked>>
  BY <1>6 DEF Toggle, limitVars
<1>7. LoopStep \/ UNCHANGED vars => UNCHANGED <<cool, asked>>
  BY DEF LoopStep, IdleCycle, StartCycle, Dispatch, EndCycle, limitVars, vars
<1> QED
  BY <1>1, <1>2, <1>3, <1>4, <1>5, <1>6, <1>7 DEF Next

LEMMA CoolInit == Init => CoolWhileAsked
  BY DEF Init, CoolWhileAsked, Served, Elements

LEMMA CoolNext ==
  TypeOK /\ QueueInv /\ BackoffRecorded /\ CoolWhileAsked /\ [Next]_vars
    => CoolWhileAsked'
<1> SUFFICES ASSUME TypeOK, QueueInv, BackoffRecorded, CoolWhileAsked, [Next]_vars,
                    NEW h \in Served', NEW f \in Elements(queue'[h])
             PROVE  cool'[h] >= asked'[f]
  BY DEF CoolWhileAsked
<1>1. h \in Hosts
  <2>1. pending' \in Seq(Hosts) /\ serving' \subseteq Hosts
    BY TypeNext DEF TypeOK, CycleType
  <2> QED
    BY <2>1, LenProperties DEF Served, Elements
<1>2. CASE StartCycle
  <2>1. f \in Due /\ f \in Feeds
    BY <1>1, <1>2, ReconciledDistinct DEF StartCycle, Due, Listed
  <2>2. asked[f] = 0
    BY <2>1 DEF Due, Listed, BackoffRecorded, TypeOK, RowType, ObserverType
  <2>3. cool' = cool /\ asked' = asked
    BY <1>2 DEF StartCycle, limitVars
  <2> QED
    BY <1>1, <2>2, <2>3 DEF TypeOK, MemoryType
<1>3. CASE ~StartCycle
  <2>1. h \in Served /\ f \in Elements(queue[h]) /\ ~Restart
    BY <1>3, CycleShrinks
  <2>2. f \in Feeds /\ HostOf[f] = h
    BY <1>1, <2>1, LenProperties DEF TypeOK, MemoryType, QueueInv, QueuesDisjoint, Elements
  <2> QED
    BY <2>1, <2>2, StepCools DEF CoolWhileAsked
<1> QED
  BY <1>2, <1>3

(* The poller's request for f is sent by its host's worker, which pops f.   *)
LEMMA FetchBegins ==
  ASSUME TypeOK, QueueInv, Next, NEW f \in Feeds, Begins(f)
  PROVE  LET h == HostOf[f]
         IN /\ h \in Hosts /\ BeginFetch(h) /\ h \in Served /\ queue[h] # <<>>
            /\ f = Head(queue[h]) /\ f \in Elements(queue[h]) /\ inflight[h] = NULL
            /\ cool[h] = 0 /\ nextHit[h] = 0
<1> DEFINE h == HostOf[f]
<1>1. h \in Hosts /\ inflight'[h] = f /\ inflight[h] # f /\ f # NULL
  BY TopologyAssumption, NullAssumption DEF Begins
<1>2. PICK k \in Hosts : BeginFetch(k) \/ EndFetch(k)
  BY <1>1
  DEF Next, LoopStep, IdleCycle, StartCycle, Dispatch, EndCycle, HostStep, HostDrained,
      HostHeld, Refresh, Toggle, PluginLimited, Restart, Tick, cycleVars
<1>3. ~EndFetch(k)
  BY <1>1 DEF EndFetch, TypeOK, CycleType
<1>4. BeginFetch(k) /\ k = h
  BY <1>1, <1>2, <1>3 DEF BeginFetch, TypeOK, CycleType
<1>5. /\ h \in Served /\ inflight[h] = NULL /\ cool[h] = 0 /\ nextHit[h] = 0
      /\ queue[h] # <<>> /\ f = Head(queue[h])
  BY <1>1, <1>4 DEF BeginFetch, AtQueue, Served, TypeOK, CycleType
<1>6. f \in Elements(queue[h])
  BY <1>1, <1>5, RestProperties DEF TypeOK, MemoryType
<1> QED
  BY <1>1, <1>4, <1>5, <1>6

(* A step that sends the poller's request for f finds no limit running. *)
LEMMA FetchAllowed ==
  TypeOK /\ QueueInv /\ CoolWhileAsked /\ [Next]_vars
    => [\A f \in Feeds : Begins(f) => asked[f] = 0]_vars
<1> SUFFICES ASSUME TypeOK, QueueInv, CoolWhileAsked, Next,
                    NEW f \in Feeds, Begins(f)
             PROVE  asked[f] = 0
  OBVIOUS
<1>1. HostOf[f] \in Served /\ cool[HostOf[f]] = 0 /\ f \in Elements(queue[HostOf[f]])
  BY FetchBegins
<1> QED
  BY <1>1 DEF CoolWhileAsked, TypeOK, ObserverType

(* The poller fetches no feed whose last rate limit still runs, whatever    *)
(* refreshes, plugin requests and restarts happen meanwhile.                *)
THEOREM BackoffIsHonoured == Spec => BackoffHonoured
<1> DEFINE IInv == TypeOK /\ QueueInv /\ BackoffRecorded /\ CoolWhileAsked
<1>1. Init => IInv
  BY TypeInit, QueueInit, RecordInit, CoolInit
<1>2. IInv /\ [Next]_vars => IInv'
  BY TypeNext, QueueNext, RecordNext, CoolNext
<1>3. IInv /\ [Next]_vars => [\A f \in Feeds : Begins(f) => asked[f] = 0]_vars
  BY FetchAllowed
<1> QED
  BY <1>1, <1>2, <1>3, PTL DEF Spec, BackoffHonoured

-----------------------------------------------------------------------------
(* The poller implements HostLine. *)

(* A fetch's outcome shortens no cooldown. *)
LEMMA OutcomeRaises ==
  ASSUME TypeOK, NEW f \in Feeds, Outcome(f), NEW k \in Hosts
  PROVE  cool'[k] >= cool[k] /\ cool[k] \in Nat /\ cool'[k] \in Nat /\ window'[k] \in Nat
<1> USE TopologyAssumption DEF TypeOK, MemoryType
<1>1. cool' \in [Hosts -> Nat] /\ window' \in [Hosts -> Nat]
  BY OutcomeType
<1>2. CASE Success(f) \/ Failure(f) \/ Gone(f) \/ StoreFailure(f)
  <2>1. cool' = cool
    BY <1>2 DEF Success, Failure, Gone, StoreFailure, limitVars
  <2> QED
    BY <1>1, <2>1
<1>3. ASSUME NEW r \in Backoffs, Limited(f, r) PROVE cool'[k] >= cool[k]
  <2>1. cool' = [cool EXCEPT ![HostOf[f]] = MaxOf(@, r)] /\ r \in Nat
    BY <1>3, LimitAssumption DEF Limited
  <2> QED
    BY <2>1 DEF MaxOf
<1> QED
  BY <1>1, <1>2, <1>3 DEF Outcome

(* The gate stays as it is while neither limit moves. *)
LEMMA GateSame ==
  ASSUME cool' = cool, nextHit' = nextHit
  PROVE  Gate' = Gate
  BY DEF Gate

(* The gate does not open while both limits only rise. *)
LEMMA GateRises ==
  ASSUME TypeOK, cool' \in [Hosts -> Nat], nextHit' \in [Hosts -> Nat],
         \A k \in Hosts : cool'[k] >= cool[k] /\ nextHit'[k] >= nextHit[k]
  PROVE  Line!Closing
<1> SUFFICES ASSUME NEW k \in Hosts PROVE Gate'[k] >= Gate[k]
  BY DEF Line!Closing
<1>1. /\ Gate[k] = MaxOf(cool[k], nextHit[k])
      /\ Gate'[k] = MaxOf(cool'[k], nextHit'[k])
  BY DEF Gate
<1>2. cool[k] \in Nat /\ nextHit[k] \in Nat /\ cool'[k] \in Nat /\ nextHit'[k] \in Nat
  BY DEF TypeOK, MemoryType
<1> QED
  BY <1>1, <1>2 DEF MaxOf

LEMMA LineInit == Init => Line!Init
  BY DEF Init, Line!Init, Gate, MaxOf

(* A reconciled queue is the old one with feeds gone and feeds at the end. *)
LEMMA ReconciledJoins ==
  ASSUME NEW h \in Hosts, NEW s \in Reconciled(h)
  PROVE  Line!Joined(queue[h], s)
<1> SUFFICES ASSUME NEW i \in DOMAIN s, NEW j \in DOMAIN s, i < j
             PROVE  /\ s[i] # s[j]
                    /\ (\E k \in DOMAIN queue[h] : queue[h][k] = s[j])
                         => Line!Before(queue[h], s[i], s[j])
  BY DEF Line!Joined
<1>1. Ahead(h, s[i], s[j]) /\ s[i] # s[j]
  BY DEF Reconciled, Arranged
<1>2. SUFFICES ASSUME s[j] \in Elements(queue[h])
               PROVE  Line!Before(queue[h], s[i], s[j])
  BY <1>1 DEF Elements
<1>3. WaitsAhead(h, s[i], s[j])
  BY <1>1, <1>2 DEF Ahead
<1> QED
  BY <1>3 DEF WaitsAhead, Line!Before

(* Each step of a host's worker is one of the line's, or none. *)
LEMMA HostStepInLine ==
  ASSUME TypeOK, NEW h \in Hosts, HostStep(h)
  PROVE  Line!Admit(h) \/ Line!Answer(h) \/ UNCHANGED Line!state
<1> USE DEF TypeOK, MemoryType, CycleType
<1>1. CASE HostDrained(h) \/ HostHeld(h)
  <2>1. UNCHANGED <<queue, inflight, cool, nextHit>>
    BY <1>1 DEF HostDrained, HostHeld, limitVars
  <2> QED
    BY <2>1, GateSame DEF Line!state
<1>2. CASE BeginFetch(h)
  <2>1. /\ inflight[h] = NULL /\ queue[h] # <<>> /\ cool[h] = 0 /\ nextHit[h] = 0
        /\ inflight' = [inflight EXCEPT ![h] = Head(queue[h])]
        /\ queue' = [queue EXCEPT ![h] = Tail(queue[h])]
        /\ cool' = cool /\ nextHit' = nextHit
    BY <1>2 DEF BeginFetch, AtQueue, Rest, limitVars
  <2>2. Gate[h] = 0 /\ Gate' = Gate
    BY <2>1, GateSame DEF Gate, MaxOf
  <2> QED
    BY <2>1, <2>2 DEF Line!Admit
<1>3. CASE EndFetch(h)
  <2>1. /\ inflight[h] # NULL /\ inflight[h] \in Feeds /\ Outcome(inflight[h])
        /\ inflight' = [inflight EXCEPT ![h] = NULL]
        /\ queue' = queue
    BY <1>3 DEF EndFetch
  <2>2. /\ cool' \in [Hosts -> Nat] /\ window' \in [Hosts -> Nat]
        /\ \A k \in Hosts : cool'[k] >= cool[k]
    BY <2>1, OutcomeType, OutcomeRaises
  <2>3. EffectiveSpacing(h) \in Nat /\ EffectiveSpacing(h) >= Spacing
    BY <2>2, TimingAssumption DEF EffectiveSpacing, MaxOf
  <2>4. CASE queue[h] # <<>> /\ EffectiveSpacing(h) > 0
    <3>1. nextHit' = [nextHit EXCEPT ![h] = MaxOf(@, EffectiveSpacing(h))]
      BY <1>3, <2>4 DEF EndFetch
    <3>2. /\ nextHit' \in [Hosts -> Nat]
          /\ \A k \in Hosts : nextHit'[k] >= nextHit[k]
          /\ nextHit'[h] >= EffectiveSpacing(h)
      BY <2>3, <3>1 DEF MaxOf
    <3>3. Line!Closing
      BY <2>2, <3>2, GateRises
    <3>4. Gate'[h] >= Spacing
      BY <2>2, <2>3, <3>2, TimingAssumption DEF Gate, MaxOf
    <3> QED
      BY <2>1, <3>3, <3>4 DEF Line!Answer
  <2>5. CASE ~(queue[h] # <<>> /\ EffectiveSpacing(h) > 0)
    <3>1. nextHit' = nextHit
      BY <1>3, <2>5 DEF EndFetch
    <3>2. Line!Closing
      BY <2>2, <3>1, GateRises
    <3>3. queue[h] # <<>> => Gate'[h] >= Spacing
      BY <2>2, <2>3, <2>5, <3>1, TimingAssumption DEF Gate, MaxOf
    <3> QED
      BY <2>1, <3>2, <3>3 DEF Line!Answer
  <2> QED
    BY <2>4, <2>5
<1> QED
  BY <1>1, <1>2, <1>3 DEF HostStep

(* Every step of the poller is a step of the line, or leaves it as it is. *)
LEMMA LineNext == TypeOK /\ [Next]_vars => [Line!Next]_(Line!state)
<1> SUFFICES ASSUME TypeOK, [Next]_vars PROVE Line!Next \/ UNCHANGED Line!state
  OBVIOUS
<1>1. CASE IdleCycle
  <2>1. /\ queue' = [h \in Hosts |-> <<>>]
        /\ UNCHANGED <<inflight, cool, nextHit>>
    BY <1>1 DEF IdleCycle, limitVars
  <2>2. Line!Renew
    BY <2>1, GateSame DEF Line!Renew, Line!Joined
  <2> QED
    BY <2>2 DEF Line!Next
<1>2. CASE StartCycle
  <2>1. /\ \A h \in Hosts : queue'[h] \in Reconciled(h)
        /\ UNCHANGED <<inflight, cool, nextHit>>
    BY <1>2 DEF StartCycle, limitVars
  <2>2. \A h \in Hosts : Line!Joined(queue[h], queue'[h])
    BY <2>1, ReconciledJoins
  <2>3. \A h \in Hosts : \A i \in DOMAIN queue'[h] : HostOf[queue'[h][i]] = h
    BY <2>1, ReconciledDistinct DEF Elements
  <2>4. Line!Renew
    BY <2>1, <2>2, <2>3, GateSame DEF Line!Renew
  <2> QED
    BY <2>4 DEF Line!Next
<1>3. CASE Dispatch \/ EndCycle \/ UNCHANGED vars
  <2>1. UNCHANGED <<queue, inflight, cool, nextHit>>
    BY <1>3 DEF Dispatch, EndCycle, vars, limitVars
  <2> QED
    BY <2>1, GateSame DEF Line!state
<1>4. ASSUME NEW h \in Hosts, HostStep(h) PROVE Line!Next \/ UNCHANGED Line!state
  BY <1>4, HostStepInLine DEF Line!Next
<1>5. ASSUME NEW f \in Feeds, Refresh(f) PROVE Line!Next
  <2>1. Outcome(f) /\ UNCHANGED <<queue, inflight, nextHit>>
    BY <1>5 DEF Refresh, cycleVars
  <2>2. cool' \in [Hosts -> Nat] /\ \A k \in Hosts : cool'[k] >= cool[k]
    BY <2>1, OutcomeType, OutcomeRaises
  <2>3. Line!Closing
    BY <2>1, <2>2, GateRises DEF TypeOK, MemoryType
  <2> QED
    BY <2>1, <2>3 DEF Line!Close, Line!Next
<1>6. ASSUME NEW f \in Feeds, Toggle(f) PROVE UNCHANGED Line!state
  <2>1. UNCHANGED <<queue, inflight, cool, nextHit>>
    BY <1>6 DEF Toggle, limitVars, cycleVars
  <2> QED
    BY <2>1, GateSame DEF Line!state
<1>7. ASSUME NEW h \in Hosts, NEW r \in PluginBackoffs, PluginLimited(h, r) PROVE Line!Next
  <2>1. /\ cool' = [cool EXCEPT ![h] = MaxOf(@, r)] /\ r \in Nat
        /\ UNCHANGED <<queue, inflight, nextHit>>
    BY <1>7, LimitAssumption DEF PluginLimited, cycleVars
  <2>2. cool' \in [Hosts -> Nat] /\ \A k \in Hosts : cool'[k] >= cool[k]
    BY <2>1 DEF MaxOf, TypeOK, MemoryType
  <2>3. Line!Closing
    BY <2>1, <2>2, GateRises DEF TypeOK, MemoryType
  <2> QED
    BY <2>1, <2>3 DEF Line!Close, Line!Next
<1>8. CASE Restart
  <2>1. Gate' = [h \in Hosts |-> 0]
    BY <1>8 DEF Restart, Gate, MaxOf
  <2> QED
    BY <1>8, <2>1 DEF Restart, Line!Forget, Line!Next
<1>9. CASE Tick
  <2>1. /\ nextHit' = [h \in Hosts |-> Down(nextHit[h])]
        /\ cool' = [h \in Hosts |-> Down(cool[h])]
        /\ UNCHANGED <<queue, inflight>>
    BY <1>9 DEF Tick
  <2>2. \A h \in Hosts : MaxOf(Down(cool[h]), Down(nextHit[h])) = Down(MaxOf(cool[h], nextHit[h]))
    BY DEF MaxOf, Down, TypeOK, MemoryType
  <2>3. Gate' = [h \in Hosts |-> Down(Gate[h])]
    BY <2>1, <2>2 DEF Gate
  <2>4. Gate' = [h \in Hosts |-> IF Gate[h] > 0 THEN Gate[h] - 1 ELSE 0]
    BY <2>3 DEF Down
  <2> QED
    BY <2>1, <2>4 DEF Line!Pass, Line!Next
<1> QED
  BY <1>1, <1>2, <1>3, <1>4, <1>5, <1>6, <1>7, <1>8, <1>9 DEF Next, LoopStep

(* The poller implements the line it promises each site, for every set of   *)
(* feeds and hosts, every cadence, floor, limit and spacing, and whatever   *)
(* refreshes, toggles, plugin requests and restarts happen meanwhile.       *)
THEOREM LineImplemented == Spec => LineKept
<1>1. Init => TypeOK /\ Line!Init
  BY TypeInit, LineInit
<1>2. TypeOK /\ [Next]_vars => TypeOK' /\ [Line!Next]_(Line!state)
  BY TypeNext, LineNext
<1> QED
  BY <1>1, <1>2, PTL DEF Spec, LineKept, Line!Spec

-----------------------------------------------------------------------------
(* Host spacing.  What keeps the next fetch of a host away after one that   *)
(* left a backlog is nextHit: it never runs out before the spacing has      *)
(* passed.  While the fetch is under way its backlog is still there.        *)

Paced ==
  \A h \in Hosts :
    /\ inflight[h] = NULL /\ backlog[h] => since[h] + nextHit[h] >= Spacing
    /\ inflight[h] # NULL /\ backlog[h] => queue[h] # <<>>

LEMMA PacedInit == Init => Paced
  BY DEF Init, Paced

LEMMA PacedNext == TypeOK /\ QueueInv /\ Paced /\ [Next]_vars => Paced'
<1> SUFFICES ASSUME TypeOK, QueueInv, Paced, [Next]_vars PROVE Paced'
  OBVIOUS
<1>0. /\ queue \in [Hosts -> Seq(Feeds)] /\ window' \in [Hosts -> Nat] /\ nextHit \in [Hosts -> Nat]
      /\ inflight \in [Hosts -> Feeds \cup {NULL}]
      /\ since \in [Hosts -> Nat] /\ backlog \in [Hosts -> BOOLEAN]
  BY TypeNext DEF TypeOK, MemoryType, CycleType, ObserverType
<1>1. CASE IdleCycle \/ StartCycle
  <2>1. \A h \in Hosts : inflight[h] = NULL
    BY <1>1 DEF IdleCycle, StartCycle, QueueInv, WorkersInCycle
  <2>2. UNCHANGED <<inflight, backlog, since, nextHit>>
    BY <1>1 DEF IdleCycle, StartCycle
  <2> QED
    BY <2>1, <2>2 DEF Paced
<1>2. CASE UNCHANGED <<inflight, backlog, since, nextHit, queue>>
  BY <1>2 DEF Paced
<1>3. ASSUME NEW k \in Hosts, BeginFetch(k) PROVE Paced'
  <2>1. /\ queue[k] # <<>> /\ queue' = [queue EXCEPT ![k] = Rest(@)]
        /\ inflight' = [inflight EXCEPT ![k] = Head(queue[k])]
        /\ backlog' = [backlog EXCEPT ![k] = Len(queue[k]) > 1]
        /\ since' = [since EXCEPT ![k] = 0] /\ nextHit' = nextHit
    BY <1>3 DEF BeginFetch
  <2>2. Head(queue[k]) # NULL
    BY <1>0, <2>1, HeadTailProperties, NullAssumption
  <2>3. Len(queue[k]) > 1 => Rest(queue[k]) # <<>>
    <3> SUFFICES ASSUME Len(queue[k]) > 1 PROVE Rest(queue[k]) # <<>>
      OBVIOUS
    <3>1. Len(queue[k]) \in Nat /\ DOMAIN Rest(queue[k]) = 1..(Len(queue[k]) - 1)
      BY <1>0, <2>1, RestProperties
    <3>2. 1 \in DOMAIN Rest(queue[k])
      BY <3>1
    <3> QED
      BY <3>2
  <2>4. \A h \in Hosts \ {k} : /\ queue'[h] = queue[h] /\ inflight'[h] = inflight[h]
                               /\ backlog'[h] = backlog[h] /\ since'[h] = since[h]
    BY <1>0, <2>1
  <2>5. /\ inflight'[k] # NULL /\ backlog'[k] = (Len(queue[k]) > 1)
        /\ queue'[k] = Rest(queue[k])
    BY <1>0, <2>1, <2>2
  <2> QED
    BY <2>1, <2>3, <2>4, <2>5 DEF Paced
<1>4. ASSUME NEW k \in Hosts, EndFetch(k) PROVE Paced'
  <2>1. /\ inflight[k] # NULL /\ inflight' = [inflight EXCEPT ![k] = NULL]
        /\ since' = [since EXCEPT ![k] = 0] /\ UNCHANGED <<queue, backlog>>
        /\ IF queue[k] # <<>> /\ EffectiveSpacing(k) > 0
           THEN nextHit' = [nextHit EXCEPT ![k] = MaxOf(@, EffectiveSpacing(k))]
           ELSE UNCHANGED nextHit
    BY <1>4 DEF EndFetch
  <2>2. EffectiveSpacing(k) >= Spacing /\ EffectiveSpacing(k) \in Nat
    BY <1>0, TimingAssumption DEF EffectiveSpacing, MaxOf
  <2>3. \A h \in Hosts \ {k} : /\ inflight'[h] = inflight[h] /\ since'[h] = since[h]
                               /\ nextHit'[h] = nextHit[h]
    BY <1>0, <2>1
  <2>4. backlog[k] => nextHit'[k] >= Spacing /\ nextHit'[k] \in Nat
    BY <1>0, <2>1, <2>2, TimingAssumption DEF Paced, MaxOf
  <2>5. since'[k] = 0 /\ inflight'[k] = NULL
    BY <1>0, <2>1
  <2> QED
    BY <2>1, <2>3, <2>4, <2>5, TimingAssumption DEF Paced
<1>5. CASE Restart
  BY <1>5, TimingAssumption DEF Restart, Paced
<1>6. CASE Tick
  <2>1. UNCHANGED <<inflight, backlog, queue>>
    BY <1>6 DEF Tick
  <2>2. \A h \in Hosts : since'[h] = MinOf(since[h] + 1, Spacing) /\ nextHit'[h] = Down(nextHit[h])
    BY <1>6 DEF Tick
  <2>3. \A h \in Hosts : since[h] + nextHit[h] >= Spacing => since'[h] + nextHit'[h] >= Spacing
    BY <1>0, <2>2, TimingAssumption DEF MinOf, Down
  <2> QED
    BY <2>1, <2>3 DEF Paced
<1>7. ASSUME NEW k \in Hosts, HostDrained(k) \/ HostHeld(k)
      PROVE  UNCHANGED <<inflight, backlog, since, nextHit, queue>>
  BY <1>7 DEF HostDrained, HostHeld, hostHistory
<1>8. ASSUME NEW f \in Feeds, Refresh(f) \/ Toggle(f)
      PROVE  UNCHANGED <<inflight, backlog, since, nextHit, queue>>
  BY <1>8 DEF Refresh, Toggle, cycleVars, hostHistory
<1>9. ASSUME NEW k \in Hosts, NEW r \in PluginBackoffs, PluginLimited(k, r)
      PROVE  UNCHANGED <<inflight, backlog, since, nextHit, queue>>
  BY <1>9 DEF PluginLimited, cycleVars, hostHistory
<1>10. Dispatch \/ EndCycle \/ UNCHANGED vars
         => UNCHANGED <<inflight, backlog, since, nextHit, queue>>
  BY DEF Dispatch, EndCycle, hostHistory, vars
<1> QED
  BY <1>1, <1>2, <1>3, <1>4, <1>5, <1>6, <1>7, <1>8, <1>9, <1>10
  DEF Next, LoopStep, HostStep

(* A fetch that left a backlog is followed by the next one of that host no  *)
(* sooner than the spacing, whatever windows are learned and whoever cools  *)
(* the host; a restart forgets the spacing together with the backlog.       *)
THEOREM BacklogIsSpaced == Spec => SpacedBacklog
<1> DEFINE IInv == TypeOK /\ QueueInv /\ Paced
<1>1. Init => IInv
  BY TypeInit, QueueInit, PacedInit
<1>2. IInv /\ [Next]_vars => IInv'
  BY TypeNext, QueueNext, PacedNext
<1>3. IInv /\ [Next]_vars
        => [\A f \in Feeds :
              Begins(f) /\ backlog[HostOf[f]] => since[HostOf[f]] >= Spacing]_vars
  <2> SUFFICES ASSUME TypeOK, QueueInv, Paced, Next, NEW f \in Feeds, Begins(f), backlog[HostOf[f]]
               PROVE  since[HostOf[f]] >= Spacing
    OBVIOUS
  <2>1. HostOf[f] \in Hosts /\ inflight[HostOf[f]] = NULL /\ nextHit[HostOf[f]] = 0
    BY FetchBegins
  <2> QED
    BY <2>1, TimingAssumption DEF Paced, TypeOK, ObserverType
<1> QED
  BY <1>1, <1>2, <1>3, PTL DEF Spec, SpacedBacklog

-----------------------------------------------------------------------------
(* How long Run sleeps.  A host left with a backlog has told the cycle when *)
(* to come back: the wake collected so far is no later than its limits.     *)

WakeCovers ==
  phase = "cycle" =>
    \A h \in Hosts \ Served :
      queue[h] # <<>> => wake # NULL /\ wake <= MaxOf(cool[h], nextHit[h])

LEMMA SoonerLeast ==
  ASSUME NEW a \in Nat \cup {NULL}, NEW b \in Nat \cup {NULL}
  PROVE  /\ a # NULL => Sooner(a, b) # NULL /\ Sooner(a, b) <= a
         /\ b # NULL => Sooner(a, b) # NULL /\ Sooner(a, b) <= b
  BY NullAssumption DEF Sooner, MinOf

LEMMA DelayBounds ==
  ASSUME NEW w \in Nat \cup {NULL}
  PROVE  /\ NextWakeDelay(w) \in MinWake..MaxOf(MinWake, BaseInterval)
         /\ \A v \in Nat : w # NULL /\ w <= v => NextWakeDelay(w) <= MaxOf(MinWake, v)
  BY NullAssumption, TimingAssumption DEF NextWakeDelay, MaxOf, MinOf

LEMMA DeadlineCovers ==
  ASSUME TypeOK, NEW f \in Feeds, enabled[f], plan[f] # NULL, plan[f] > 0
  PROVE  /\ plan[f] \in Nat
         /\ Earliest(Deadlines) # NULL /\ Earliest(Deadlines) <= plan[f]
<1>1. Deadlines \in SUBSET Nat
  BY NullAssumption DEF Deadlines, TypeOK, RowType
<1>2. plan[f] \in Deadlines
  BY DEF Deadlines
<1>3. Earliest(Deadlines) \in Deadlines /\ Earliest(Deadlines) <= plan[f]
  BY <1>1, <1>2, EarliestProperties
<1>4. plan[f] \in Nat /\ Earliest(Deadlines) \in Nat
  BY <1>1, <1>2, <1>3
<1> QED
  BY <1>3, <1>4, NullAssumption

LEMMA WakeInit == Init => WakeCovers
  BY DEF Init, WakeCovers

(* Limits that only rise, and a wake that only gets sooner, keep it. *)
LEMMA WakeSooner ==
  ASSUME TypeOK, TypeOK', WakeCovers, NEW h \in Hosts, h \notin Served, phase = "cycle",
         queue[h] # <<>>, cool'[h] >= cool[h], nextHit'[h] >= nextHit[h],
         wake # NULL => wake' # NULL /\ wake' <= wake
  PROVE  wake' # NULL /\ wake' <= MaxOf(cool'[h], nextHit'[h])
<1>1. wake # NULL /\ wake <= MaxOf(cool[h], nextHit[h])
  BY DEF WakeCovers
<1>2. /\ cool[h] \in Nat /\ nextHit[h] \in Nat /\ cool'[h] \in Nat /\ nextHit'[h] \in Nat
      /\ wake \in Nat \cup {NULL} /\ wake' \in Nat \cup {NULL}
  BY DEF TypeOK, MemoryType, CycleType
<1> QED
  BY <1>1, <1>2 DEF MaxOf

(* A worker that leaves a backlog behind covers it. *)
LEMMA WakeHostStep ==
  ASSUME TypeOK, TypeOK', QueueInv, WakeCovers, NEW k \in Hosts, HostStep(k)
  PROVE  WakeCovers'
<1> SUFFICES ASSUME phase' = "cycle", NEW h \in Hosts, h \notin Served', queue'[h] # <<>>
             PROVE  wake' # NULL /\ wake' <= MaxOf(cool'[h], nextHit'[h])
  BY DEF WakeCovers
<1>0. /\ phase = phase' /\ wake \in Nat \cup {NULL} /\ wake' \in Nat \cup {NULL}
      /\ cool \in [Hosts -> Nat] /\ nextHit \in [Hosts -> Nat]
      /\ cool' \in [Hosts -> Nat] /\ nextHit' \in [Hosts -> Nat]
  BY DEF HostStep, HostDrained, HostHeld, BeginFetch, EndFetch, TypeOK, MemoryType, CycleType
<1>1. CASE HostDrained(k)
  <2>1. /\ queue[k] = <<>> /\ wake' = Sooner(wake, NULL) /\ serving' = serving \ {k}
        /\ UNCHANGED <<queue, pending, cool, nextHit>>
    BY <1>1 DEF HostDrained, Leave, limitVars
  <2>2. h # k /\ h \notin Served
    BY <2>1 DEF Served
  <2>3. wake # NULL => wake' # NULL /\ wake' <= wake
    BY <1>0, <2>1, SoonerLeast
  <2> QED
    BY <1>0, <2>1, <2>2, <2>3, WakeSooner
<1>2. CASE HostHeld(k)
  <2> DEFINE w == IF cool[k] > 0 THEN cool[k] ELSE nextHit[k]
  <2>1. /\ wake' = Sooner(wake, w) /\ serving' = serving \ {k}
        /\ UNCHANGED <<queue, pending, cool, nextHit>>
    BY <1>2 DEF HostHeld, Leave, limitVars
  <2>2. w \in Nat /\ w # NULL /\ w <= MaxOf(cool[k], nextHit[k])
    BY <1>0, NullAssumption DEF MaxOf
  <2> HIDE DEF w
  <2>3. /\ wake # NULL => wake' # NULL /\ wake' <= wake
        /\ wake' # NULL /\ wake' <= w
    BY <1>0, <2>1, <2>2, SoonerLeast
  <2>4. CASE h = k
    BY <1>0, <2>1, <2>2, <2>3, <2>4 DEF MaxOf
  <2>5. CASE h # k
    <3>1. h \notin Served
      BY <2>1, <2>5 DEF Served
    <3> QED
      BY <1>0, <2>1, <2>3, <3>1, WakeSooner
  <2> QED
    BY <2>4, <2>5
<1>3. CASE BeginFetch(k)
  <2>1. /\ k \in serving /\ queue' = [queue EXCEPT ![k] = Rest(@)]
        /\ UNCHANGED <<serving, pending, cool, nextHit, wake>>
    BY <1>3 DEF BeginFetch, AtQueue, limitVars
  <2>2. h \notin Served /\ queue'[h] = queue[h]
    BY <2>1 DEF Served, TypeOK, MemoryType
  <2> QED
    BY <1>0, <2>1, <2>2, WakeSooner
<1>4. CASE EndFetch(k)
  <2>1. /\ k \in serving /\ inflight[k] \in Feeds /\ Outcome(inflight[k])
        /\ UNCHANGED <<queue, pending>>
    BY <1>4 DEF EndFetch, TypeOK, CycleType
  <2>2. cool'[h] >= cool[h]
    BY <2>1, OutcomeRaises
  <2>3. CASE queue[k] # <<>> /\ EffectiveSpacing(k) > 0
    <3> DEFINE w == EffectiveSpacing(k)
    <3>1. w \in Nat /\ w # NULL
      BY TimingAssumption, NullAssumption DEF EffectiveSpacing, MaxOf, TypeOK, MemoryType
    <3>2. /\ nextHit' = [nextHit EXCEPT ![k] = MaxOf(@, w)]
          /\ wake' = Sooner(wake, w) /\ serving' = serving \ {k}
      BY <1>4, <2>3 DEF EndFetch, Leave
    <3> HIDE DEF w
    <3>3. /\ wake # NULL => wake' # NULL /\ wake' <= wake
          /\ wake' # NULL /\ wake' <= w
      BY <1>0, <3>1, <3>2, SoonerLeast
    <3>4. CASE h = k
      <4>1. nextHit'[k] >= w
        BY <1>0, <3>1, <3>2 DEF MaxOf
      <4> QED
        BY <1>0, <3>1, <3>3, <3>4, <4>1 DEF MaxOf
    <3>5. CASE h # k
      <4>1. h \notin Served /\ nextHit'[h] = nextHit[h]
        BY <1>0, <2>1, <3>2, <3>5 DEF Served
      <4> QED
        BY <1>0, <2>1, <2>2, <3>3, <4>1, WakeSooner
    <3> QED
      BY <3>4, <3>5
  <2>4. CASE ~(queue[k] # <<>> /\ EffectiveSpacing(k) > 0)
    <3>1. UNCHANGED <<nextHit, serving, wake>>
      BY <1>4, <2>4 DEF EndFetch
    <3>2. h \notin Served
      BY <2>1, <3>1 DEF Served
    <3> QED
      BY <1>0, <2>1, <2>2, <3>1, <3>2, WakeSooner
  <2> QED
    BY <2>3, <2>4
<1> QED
  BY <1>1, <1>2, <1>3, <1>4 DEF HostStep

LEMMA WakeNext == TypeOK /\ QueueInv /\ WakeCovers /\ [Next]_vars => WakeCovers'
<1> SUFFICES ASSUME TypeOK, QueueInv, WakeCovers, [Next]_vars PROVE WakeCovers'
  OBVIOUS
<1>0. TypeOK'
  BY TypeNext
<1>1. CASE IdleCycle \/ EndCycle \/ Restart
  BY <1>1 DEF IdleCycle, EndCycle, Restart, WakeCovers
<1>2. CASE StartCycle
  <2> SUFFICES ASSUME NEW h \in Hosts, h \notin Served' PROVE queue'[h] = <<>>
    BY DEF WakeCovers
  <2>1. queue'[h] \in Reconciled(h) /\ pending' \in HostOrders(queue')
    BY <1>2 DEF StartCycle
  <2>2. Elements(pending') = {k \in Hosts : Group(k) # {}}
    BY <2>1 DEF HostOrders
  <2>3. Group(h) = {}
    BY <2>2 DEF Served
  <2>4. Elements(queue'[h]) = {} /\ queue'[h] \in Seq(Feeds)
    BY <2>1, <2>3, ReconciledType
  <2> QED
    BY <2>4, RestProperties
<1>3. CASE Dispatch
  <2>1. /\ serving' = serving \cup {Head(pending)} /\ pending' = Tail(pending)
        /\ pending # <<>> /\ pending \in Seq(Hosts)
        /\ UNCHANGED <<phase, queue, cool, nextHit, wake>>
    BY <1>3 DEF Dispatch, limitVars, TypeOK, CycleType
  <2>2. \A i \in DOMAIN pending : pending[i] = Head(pending) \/ pending[i] \in Elements(Tail(pending))
    <3> TAKE i \in DOMAIN pending
    <3>1. /\ DOMAIN pending = 1..Len(pending) /\ Head(pending) = pending[1]
          /\ DOMAIN Tail(pending) = 1..(Len(pending) - 1) /\ Len(pending) \in Nat
      BY <2>1, RestProperties DEF Rest
    <3>2. \A j \in 1..(Len(pending) - 1) : Tail(pending)[j] = pending[j + 1]
      BY <2>1, <3>1, RestProperties DEF Rest
    <3>3. i = 1 \/ i - 1 \in 1..(Len(pending) - 1)
      BY <3>1
    <3>4. i - 1 \in 1..(Len(pending) - 1) => Tail(pending)[i - 1] = pending[i]
      BY <3>1, <3>2
    <3> QED
      BY <3>1, <3>3, <3>4 DEF Elements
  <2>3. Served \subseteq Served'
    BY <2>1, <2>2 DEF Served, Elements
  <2> QED
    BY <2>1, <2>3 DEF WakeCovers
<1>4. ASSUME NEW k \in Hosts, HostStep(k) PROVE WakeCovers'
  BY <1>0, <1>4, WakeHostStep
<1>5. ASSUME UNCHANGED <<phase, queue, serving, pending, nextHit, wake>>,
             \A h \in Hosts : cool'[h] >= cool[h]
      PROVE  WakeCovers'
  <2> SUFFICES ASSUME phase' = "cycle", NEW h \in Hosts, h \notin Served', queue'[h] # <<>>
               PROVE  wake' # NULL /\ wake' <= MaxOf(cool'[h], nextHit'[h])
    BY DEF WakeCovers
  <2>1. h \notin Served /\ nextHit'[h] >= nextHit[h] /\ (wake # NULL => wake' <= wake)
    BY <1>0, <1>5 DEF Served, TypeOK, MemoryType, CycleType
  <2> QED
    BY <1>0, <1>5, <2>1, WakeSooner
<1>6. ASSUME NEW f \in Feeds, Refresh(f) PROVE WakeCovers'
  BY <1>5, <1>6, OutcomeRaises DEF Refresh, cycleVars
<1>7. ASSUME NEW f \in Feeds, Toggle(f) PROVE WakeCovers'
  BY <1>5, <1>7 DEF Toggle, cycleVars, limitVars, TypeOK, MemoryType
<1>8. ASSUME NEW k \in Hosts, NEW r \in PluginBackoffs, PluginLimited(k, r) PROVE WakeCovers'
  <2>1. cool' = [cool EXCEPT ![k] = MaxOf(@, r)] /\ r \in Nat
    BY <1>8, LimitAssumption DEF PluginLimited
  <2>2. \A h \in Hosts : cool'[h] >= cool[h]
    BY <2>1 DEF MaxOf, TypeOK, MemoryType
  <2> QED
    BY <1>5, <1>8, <2>2 DEF PluginLimited, cycleVars
<1>9. CASE Tick
  <2> SUFFICES ASSUME phase = "cycle", NEW h \in Hosts, h \notin Served, queue[h] # <<>>
               PROVE  wake' # NULL /\ wake' <= MaxOf(cool'[h], nextHit'[h])
    BY <1>9 DEF Tick, WakeCovers, Served
  <2>1. wake # NULL /\ wake <= MaxOf(cool[h], nextHit[h])
    BY DEF WakeCovers
  <2>2. wake' = Down(wake) /\ cool'[h] = Down(cool[h]) /\ nextHit'[h] = Down(nextHit[h])
    BY <1>9, <2>1 DEF Tick
  <2>3. wake \in Nat /\ cool[h] \in Nat /\ nextHit[h] \in Nat
    BY <2>1 DEF TypeOK, MemoryType, CycleType
  <2> QED
    BY <2>1, <2>2, <2>3, NullAssumption DEF Down, MaxOf
<1>10. CASE UNCHANGED vars
  BY <1>5, <1>10 DEF vars, TypeOK, MemoryType
<1> QED
  BY <1>1, <1>2, <1>3, <1>4, <1>6, <1>7, <1>8, <1>9, <1>10 DEF Next, LoopStep

(* Only the end of a cycle sets the timer. *)
LEMMA SleepBegins ==
  ASSUME TypeOK, Next, timer' > timer
  PROVE  IdleCycle \/ EndCycle
<1>1. timer \in Nat
  BY DEF TypeOK, CycleType
<1>2. ~Tick /\ ~Restart
  BY <1>1 DEF Tick, Restart, Down
<1>3. ASSUME UNCHANGED timer PROVE FALSE
  BY <1>1, <1>3
<1> QED
  BY <1>2, <1>3
  DEF Next, LoopStep, StartCycle, Dispatch, HostStep, HostDrained, HostHeld, BeginFetch,
      EndFetch, Refresh, Toggle, PluginLimited, cycleVars

(* Run never oversleeps: it is back for the soonest planned fetch and for   *)
(* every host whose backlog its workers left, whichever worker returned     *)
(* last and whoever cooled a host meanwhile, and never sooner than minWake. *)
THEOREM NeverOversleeps == Spec => SleepsNoLonger
<1> DEFINE IInv == TypeOK /\ QueueInv /\ WakeCovers
           Bounds ==
             timer' > timer =>
               /\ timer' \in MinWake..MaxOf(MinWake, BaseInterval)
               /\ \A f \in Feeds : enabled[f] /\ plan[f] # NULL /\ plan[f] > 0
                                     => timer' <= MaxOf(MinWake, plan[f])
               /\ \A h \in Hosts : queue'[h] # <<>>
                                     => timer' <= MaxOf(MinWake, MaxOf(cool[h], nextHit[h]))
<1>1. Init => IInv
  BY TypeInit, QueueInit, WakeInit
<1>2. IInv /\ [Next]_vars => IInv'
  BY TypeNext, QueueNext, WakeNext
<1>3. IInv /\ [Next]_vars => [Bounds]_vars
  <2> SUFFICES ASSUME TypeOK, QueueInv, WakeCovers, Next, timer' > timer PROVE Bounds
    OBVIOUS
  <2>1. Earliest(Deadlines) \in Nat \cup {NULL} /\ wake \in Nat \cup {NULL}
    BY DeadlinesType DEF TypeOK, CycleType
  <2>2. CASE IdleCycle
    <3>1. timer' = NextWakeDelay(CycleWake) /\ \A h \in Hosts : queue'[h] = <<>>
      BY <2>2 DEF IdleCycle
    <3>2. CycleWake \in Nat \cup {NULL}
      BY CycleWakeType
    <3>3. ASSUME NEW f \in Feeds, enabled[f], plan[f] # NULL, plan[f] > 0
          PROVE  timer' <= MaxOf(MinWake, plan[f])
      <4> DEFINE held == Earliest({Floor[g] - age[g] : g \in Listed \ Due})
      <4>1. plan[f] \in Nat /\ Earliest(Deadlines) # NULL /\ Earliest(Deadlines) <= plan[f]
        BY <3>3, DeadlineCovers
      <4>2. held \in Nat \cup {NULL}
        <5> DEFINE Held == {Floor[g] - age[g] : g \in Listed \ Due}
        <5>1. Held \in SUBSET Nat
          BY CadenceAssumption DEF Listed, Due, FloorHeld, TypeOK, RowType
        <5> QED
          BY <5>1, EarliestProperties
      <4>3. CycleWake = Sooner(Earliest(Deadlines), held)
        BY DEF CycleWake
      <4> HIDE DEF held
      <4>4. CycleWake # NULL /\ CycleWake <= Earliest(Deadlines)
        BY <2>1, <4>1, <4>2, <4>3, SoonerLeast
      <4>5. CycleWake <= plan[f]
        BY <2>1, <3>2, <4>1, <4>4
      <4> QED
        BY <3>1, <3>2, <4>1, <4>4, <4>5, DelayBounds
    <3> QED
      BY <3>1, <3>2, <3>3, DelayBounds
  <2>3. CASE EndCycle
    <3> DEFINE w == Sooner(wake, Earliest(Deadlines))
    <3>1. /\ timer' = NextWakeDelay(w) /\ queue' = queue /\ phase = "cycle"
          /\ pending = <<>> /\ serving = {}
      BY <2>3 DEF EndCycle
    <3>2. /\ w \in Nat \cup {NULL}
          /\ wake # NULL => w # NULL /\ w <= wake
          /\ Earliest(Deadlines) # NULL => w # NULL /\ w <= Earliest(Deadlines)
      BY <2>1, SoonerLeast, SoonerType
    <3> HIDE DEF w
    <3>3. ASSUME NEW f \in Feeds, enabled[f], plan[f] # NULL, plan[f] > 0
          PROVE  timer' <= MaxOf(MinWake, plan[f])
      <4>1. plan[f] \in Nat /\ Earliest(Deadlines) # NULL /\ Earliest(Deadlines) <= plan[f]
        BY <3>3, DeadlineCovers
      <4>2. w # NULL /\ w <= plan[f]
        BY <2>1, <3>2, <4>1
      <4> QED
        BY <3>1, <3>2, <4>1, <4>2, DelayBounds
    <3>4. ASSUME NEW h \in Hosts, queue'[h] # <<>>
          PROVE  timer' <= MaxOf(MinWake, MaxOf(cool[h], nextHit[h]))
      <4>1. h \notin Served
        BY <3>1 DEF Served, Elements
      <4>2. wake # NULL /\ wake <= MaxOf(cool[h], nextHit[h])
        BY <3>1, <3>4, <4>1 DEF WakeCovers
      <4>3. MaxOf(cool[h], nextHit[h]) \in Nat
        BY DEF MaxOf, TypeOK, MemoryType
      <4>4. w # NULL /\ w <= MaxOf(cool[h], nextHit[h])
        BY <2>1, <3>2, <4>2, <4>3
      <4> QED
        BY <3>1, <3>2, <4>3, <4>4, DelayBounds
    <3> QED
      BY <3>1, <3>2, <3>3, <3>4, DelayBounds
  <2> QED
    BY <2>2, <2>3, SleepBegins
<1> QED
  BY <1>1, <1>2, <1>3, PTL DEF Spec, SleepsNoLonger

-----------------------------------------------------------------------------
(* The floor.  A planned fetch that has come due is past the floor too: the *)
(* plan was raised to it.  Between the snapshot and the fetch only a        *)
(* refresh by hand could poll a feed that still waits, and only a rate      *)
(* limit shorter than the floor brings a feed back before it.               *)

FloorsCover ==
  /\ Manual = {}
  /\ \A f \in Feeds : Floor[f] <= MaxAge /\ \A r \in Backoffs : r >= Floor[f]

PlanPastFloor(f) ==
  polled[f] /\ plan[f] # NULL => age[f] >= Floor[f] \/ age[f] + plan[f] >= Floor[f]

FloorInv ==
  /\ \A f \in Feeds : PlanPastFloor(f)
  /\ \A h \in Served : \A f \in Elements(queue[h]) : polled[f] => age[f] >= Floor[f]
  /\ \A h \in Hosts : inflight[h] # NULL => HostOf[inflight[h]] = h

LEMMA FloorInit == Init => FloorInv
<1> SUFFICES ASSUME Init PROVE FloorInv
  OBVIOUS
<1>1. \A h \in Served : Elements(queue[h]) = {}
  BY DEF Init, Served, Elements
<1> QED
  BY <1>1 DEF Init, FloorInv, PlanPastFloor

LEMMA DuePastFloor ==
  ASSUME TypeOK, NEW f \in Due, PlanPastFloor(f), polled[f]
  PROVE  age[f] >= Floor[f]
  BY CadenceAssumption DEF Due, Listed, FloorHeld, PlanPastFloor, TypeOK, RowType

(* What a fetch leaves in the row of f alone. *)
LEMMA OutcomeFloor ==
  ASSUME TypeOK, FloorsCover, NEW f \in Feeds, Outcome(f), PlanPastFloor(f)
  PROVE  /\ PlanPastFloor(f)'
         /\ \A g \in Feeds \ {f} : /\ polled'[g] = polled[g] /\ age'[g] = age[g]
                                   /\ plan'[g] = plan[g]
<1> USE DEF TypeOK, RowType
<1>1. CASE Success(f)
  <2>1. PICK i \in Intervals[f], o \in Offsets[f] \cup {NULL} :
          plan' = [plan EXCEPT ![f] = IF o = NULL THEN NULL ELSE Schedule(o, f, i)]
    BY <1>1 DEF Success
  <2>2. /\ age' = [age EXCEPT ![f] = 0] /\ polled' = [polled EXCEPT ![f] = TRUE]
    BY <1>1 DEF Success
  <2>3. o # NULL => Schedule(o, f, i) >= Floor[f] /\ Schedule(o, f, i) \in Nat
    BY CadenceAssumption DEF Schedule, MinOf, MaxOf
  <2> QED
    BY <2>1, <2>2, <2>3 DEF PlanPastFloor
<1>2. CASE Failure(f) \/ Gone(f)
  <2>1. /\ plan' = [plan EXCEPT ![f] = NULL] /\ age' = [age EXCEPT ![f] = 0]
        /\ polled' = [polled EXCEPT ![f] = TRUE]
    BY <1>2 DEF Failure, Gone
  <2> QED
    BY <2>1 DEF PlanPastFloor
<1>3. CASE StoreFailure(f)
  BY <1>3 DEF StoreFailure, rowVars, PlanPastFloor
<1>4. ASSUME NEW r \in Backoffs, Limited(f, r)
      PROVE  /\ PlanPastFloor(f)'
             /\ \A g \in Feeds \ {f} : /\ polled'[g] = polled[g] /\ age'[g] = age[g]
                                       /\ plan'[g] = plan[g]
  <2>1. /\ plan' = [plan EXCEPT ![f] = r] /\ age' = [age EXCEPT ![f] = 0]
        /\ polled' = [polled EXCEPT ![f] = TRUE]
    BY <1>4 DEF Limited
  <2>2. r \in Nat /\ r >= Floor[f] /\ Floor[f] \in Nat
    BY LimitAssumption, CadenceAssumption DEF FloorsCover
  <2> QED
    BY <2>1, <2>2 DEF PlanPastFloor
<1> QED
  BY <1>1, <1>2, <1>3, <1>4 DEF Outcome

(* The hosts a cycle has left and their queues hold feeds of those hosts. *)
LEMMA WaitingFeeds ==
  ASSUME TypeOK, QueueInv, NEW h \in Hosts, NEW f \in Elements(queue[h])
  PROVE  f \in Feeds /\ HostOf[f] = h /\ inflight[h] # f
<1>1. f \in Feeds
  BY LenProperties DEF TypeOK, MemoryType, Elements
<1>2. HostOf[f] = h /\ inflight[h] # f
  BY DEF QueueInv, QueuesDisjoint
<1> QED
  BY <1>1, <1>2

(* Rows that are left alone leave the floor held. *)
LEMMA FloorSameRows ==
  ASSUME TypeOK, QueueInv, FloorInv, [Next]_vars, ~StartCycle,
         UNCHANGED <<polled, age, plan>>,
         \A h \in Hosts : inflight'[h] # NULL => HostOf[inflight'[h]] = h
  PROVE  FloorInv'
<1>1. \A f \in Feeds : PlanPastFloor(f)'
  BY DEF FloorInv, PlanPastFloor
<1>2. \A h \in Served' : h \in Served /\ Elements(queue'[h]) \subseteq Elements(queue[h])
  BY CycleShrinks
<1> QED
  BY <1>1, <1>2 DEF FloorInv

LEMMA FloorNext ==
  ASSUME FloorsCover
  PROVE  TypeOK /\ QueueInv /\ FloorInv /\ [Next]_vars => FloorInv'
<1> SUFFICES ASSUME TypeOK, QueueInv, FloorInv, [Next]_vars PROVE FloorInv'
  OBVIOUS
<1>0. \A h \in Hosts : inflight[h] # NULL => HostOf[inflight[h]] = h
  BY DEF FloorInv
<1>1. CASE StartCycle
  <2>1. UNCHANGED <<polled, age, plan, inflight>> /\ \A h \in Hosts : queue'[h] \in Reconciled(h)
    BY <1>1 DEF StartCycle, rowVars
  <2>2. \A f \in Feeds : PlanPastFloor(f)'
    BY <2>1 DEF FloorInv, PlanPastFloor
  <2>3. ASSUME NEW h \in Served', NEW f \in Elements(queue'[h]), polled'[f]
        PROVE  age'[f] >= Floor[f]
    <3>1. pending' \in Seq(Hosts) /\ serving' \subseteq Hosts
      BY TypeNext DEF TypeOK, CycleType
    <3>2. h \in Hosts
      BY <3>1, LenProperties DEF Served, Elements
    <3>3. f \in Due /\ f \in Feeds
      BY <2>1, <3>2, ReconciledDistinct DEF Due, Listed
    <3> QED
      BY <2>1, <2>3, <3>3, DuePastFloor DEF FloorInv
  <2> QED
    BY <1>0, <2>1, <2>2, <2>3 DEF FloorInv
<1>2. ASSUME NEW k \in Hosts, EndFetch(k) PROVE FloorInv'
  <2>1. PICK f \in Feeds : /\ f = inflight[k] /\ Outcome(f) /\ HostOf[f] = k
                           /\ inflight' = [inflight EXCEPT ![k] = NULL]
    BY <1>0, <1>2 DEF EndFetch, TypeOK, CycleType
  <2>2. /\ PlanPastFloor(f)'
        /\ \A g \in Feeds \ {f} : /\ polled'[g] = polled[g] /\ age'[g] = age[g]
                                  /\ plan'[g] = plan[g]
    BY <2>1, OutcomeFloor DEF FloorInv
  <2>3. \A g \in Feeds : PlanPastFloor(g)'
    BY <2>2 DEF FloorInv, PlanPastFloor
  <2>4. ~StartCycle
    BY <1>2 DEF EndFetch, StartCycle, QueueInv, WorkersInCycle
  <2>5. \A h \in Served' : /\ h \in Served /\ h \in Hosts
                           /\ Elements(queue'[h]) \subseteq Elements(queue[h])
    BY <2>4, CycleShrinks
  <2>6. ASSUME NEW h \in Hosts, NEW g \in Elements(queue[h]) PROVE g \in Feeds \ {f}
    BY <2>1, WaitingFeeds
  <2>7. \A h \in Hosts : inflight'[h] # NULL => HostOf[inflight'[h]] = h
    BY <1>0, <2>1 DEF TypeOK, CycleType
  <2> QED
    BY <2>2, <2>3, <2>5, <2>6, <2>7 DEF FloorInv
<1>3. ASSUME NEW k \in Hosts, BeginFetch(k) PROVE FloorInv'
  <2>1. /\ queue[k] # <<>> /\ inflight' = [inflight EXCEPT ![k] = Head(queue[k])]
        /\ UNCHANGED <<polled, age, plan>> /\ k \in serving
    BY <1>3 DEF BeginFetch, AtQueue, rowVars
  <2>2. Head(queue[k]) \in Elements(queue[k])
    BY <2>1, RestProperties DEF TypeOK, MemoryType
  <2>3. HostOf[Head(queue[k])] = k
    BY <2>2, WaitingFeeds
  <2>4. \A h \in Hosts : inflight'[h] # NULL => HostOf[inflight'[h]] = h
    BY <1>0, <2>1, <2>3 DEF TypeOK, CycleType
  <2>5. ~StartCycle
    BY <2>1 DEF StartCycle, QueueInv, WorkersInCycle
  <2> QED
    BY <2>1, <2>4, <2>5, FloorSameRows
<1>4. CASE Tick
  <2>1. /\ age' = [f \in Feeds |-> MinOf(age[f] + 1, MaxAge)]
        /\ plan' = [f \in Feeds |-> IF plan[f] = NULL THEN NULL ELSE MaxOf(plan[f] - 1, -MaxLate)]
        /\ UNCHANGED <<polled, inflight, phase>>
    BY <1>4 DEF Tick
  <2>2. \A f \in Feeds : /\ age[f] \in Nat /\ Floor[f] \in Nat /\ Floor[f] <= MaxAge
                         /\ plan[f] \in Int \cup {NULL}
    BY CadenceAssumption DEF FloorsCover, TypeOK, RowType
  <2>3. \A f \in Feeds : age[f] >= Floor[f] => age'[f] >= Floor[f]
    BY <2>1, <2>2, BoundAssumption DEF MinOf
  <2>4. \A f \in Feeds : PlanPastFloor(f)'
    <3> TAKE f \in Feeds
    <3>1. CASE plan[f] = NULL
      BY <2>1, <3>1 DEF PlanPastFloor
    <3>2. CASE plan[f] # NULL
      <4>1. plan'[f] = MaxOf(plan[f] - 1, -MaxLate) /\ age'[f] = MinOf(age[f] + 1, MaxAge)
        BY <2>1, <3>2
      <4>2. PlanPastFloor(f)
        BY DEF FloorInv
      <4> QED
        BY <2>1, <2>2, <2>3, <3>2, <4>1, <4>2, BoundAssumption DEF PlanPastFloor, MinOf, MaxOf
    <3> QED
      BY <3>1, <3>2
  <2>5. UNCHANGED <<serving, pending, queue>>
    BY <1>4 DEF Tick
  <2>6. \A h \in Served : h \in Hosts
    BY LenProperties DEF Served, Elements, TypeOK, CycleType
  <2>7. \A h \in Served : \A f \in Elements(queue[h]) : f \in Feeds
    BY <2>6, WaitingFeeds
  <2>8. Served' = Served
    BY <2>5 DEF Served
  <2> QED
    BY <1>0, <2>1, <2>3, <2>4, <2>5, <2>7, <2>8 DEF FloorInv
<1>5. CASE Restart
  <2>1. /\ UNCHANGED <<polled, age, plan>> /\ inflight' = [h \in Hosts |-> NULL]
        /\ phase' = "sleep" /\ restarts' = restarts + 1
    BY <1>5 DEF Restart, rowVars
  <2>2. ~StartCycle
    BY <2>1 DEF StartCycle
  <2> QED
    BY <2>1, <2>2, FloorSameRows
<1>6. ASSUME UNCHANGED <<polled, age, plan, inflight>>, ~StartCycle PROVE FloorInv'
  BY <1>0, <1>6, FloorSameRows
<1>7. ASSUME NEW f \in Feeds, Refresh(f) PROVE FALSE
  BY <1>7 DEF Refresh, FloorsCover
<1>8. ASSUME NEW f \in Feeds, Toggle(f) PROVE UNCHANGED <<polled, age, plan, inflight>>
  BY <1>8 DEF Toggle, cycleVars
<1>9. ASSUME NEW k \in Hosts, HostDrained(k) \/ HostHeld(k)
      PROVE  UNCHANGED <<polled, age, plan, inflight>>
  BY <1>9 DEF HostDrained, HostHeld, rowVars
<1>10. ASSUME NEW k \in Hosts, NEW r \in PluginBackoffs, PluginLimited(k, r)
       PROVE  UNCHANGED <<polled, age, plan, inflight>>
  BY <1>10 DEF PluginLimited, rowVars, cycleVars
<1>11. IdleCycle \/ Dispatch \/ EndCycle \/ UNCHANGED vars
         => UNCHANGED <<polled, age, plan, inflight>>
  BY DEF IdleCycle, Dispatch, EndCycle, rowVars, vars
<1> QED
  BY <1>1, <1>2, <1>3, <1>4, <1>5, <1>6, <1>7, <1>8, <1>9, <1>10, <1>11
  DEF Next, LoopStep, HostStep

(* The floor caps automatic polling: no due snapshot, planned fetch, host   *)
(* queue or restart lets the poller at a feed again before its floor, while *)
(* nobody refreshes by hand and rate limits last at least as long.          *)
THEOREM FloorCapsPolls ==
  ASSUME FloorsCover
  PROVE  Spec => FloorHolds
<1> DEFINE IInv == TypeOK /\ QueueInv /\ FloorInv
<1>1. Init => IInv
  BY TypeInit, QueueInit, FloorInit
<1>2. IInv /\ [Next]_vars => IInv'
  BY TypeNext, QueueNext, FloorNext
<1>3. IInv /\ [Next]_vars
        => [\A f \in Feeds : Begins(f) /\ polled[f] => age[f] >= Floor[f]]_vars
  <2> SUFFICES ASSUME TypeOK, QueueInv, FloorInv, Next, NEW f \in Feeds, Begins(f), polled[f]
               PROVE  age[f] >= Floor[f]
    OBVIOUS
  <2>1. HostOf[f] \in Served /\ f \in Elements(queue[HostOf[f]])
    BY FetchBegins
  <2> QED
    BY <2>1 DEF FloorInv
<1> QED
  BY <1>1, <1>2, <1>3, PTL DEF Spec, FloorHolds

=============================================================================
