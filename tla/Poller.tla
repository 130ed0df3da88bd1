------------------------------- MODULE Poller -------------------------------
(***************************************************************************)
(* The background poller (internal/poller): the sleep/poll loop of Run,    *)
(* the due list, the per-host FIFO queues, the bounded pool of host        *)
(* workers, host pacing, the learned rate-limit window, the cooldown shared *)
(* with the plugin host, and the actors that write the same feed rows while *)
(* a cycle runs: manual refresh, pause/resume, plugin requests, a restart. *)
(*                                                                         *)
(* Time is counted in ticks and every stored instant is kept as the number *)
(* of ticks from now: `age` counts up from the last poll, `plan`, `cool`,  *)
(* `nextHit`, `timer` and `wake` count down.  Tick moves them all, so the  *)
(* system runs forever in a finite state space.                            *)
(***************************************************************************)
EXTENDS Integers, Sequences, FiniteSets

CONSTANTS
  Feeds,          \* feed ids
  Hosts,          \* registrable hosts
  HostOf,         \* the host of each feed
  Intervals,      \* poll_interval_sec values a feed's cadence may choose
  Floor,          \* feedFloorSec of each feed
  Offsets,        \* preferred-time offsets the posting pattern may suggest
  Backoffs,       \* Retry-After values a host may answer a feed fetch with
  PluginBackoffs, \* Retry-After values a plugin request may be answered with
  Spacing,        \* NF_POLL_HOST_SPACING
  WindowFloor,    \* rateLimitFloor
  BaseInterval,   \* NF_POLL_INTERVAL
  MinWake,        \* minWake
  Workers,        \* NF_POLL_WORKERS
  Manual,         \* feeds a user refreshes by hand
  Toggled,        \* feeds a user pauses and resumes
  MaxRestarts,    \* bound: process restarts
  MaxAge,         \* bound: ages saturate here
  MaxLate,        \* bound: a passed deadline is remembered this long
  NULL            \* SQL NULL, the zero time, "no feed"

ASSUME FeedsAssumption == IsFiniteSet(Feeds) /\ IsFiniteSet(Hosts)
ASSUME NullAssumption == NULL \notin Int /\ NULL \notin Feeds
ASSUME TopologyAssumption == HostOf \in [Feeds -> Hosts]
ASSUME CadenceAssumption ==
  /\ Intervals \in [Feeds -> SUBSET Nat]
  /\ \A f \in Feeds : Intervals[f] # {}
  /\ Floor \in [Feeds -> Nat]
  /\ Offsets \in [Feeds -> SUBSET Nat]
ASSUME LimitAssumption ==
  /\ Backoffs \subseteq Nat \ {0}
  /\ PluginBackoffs \subseteq Nat \ {0}
ASSUME TimingAssumption ==
  /\ Spacing \in Nat
  /\ WindowFloor \in Nat
  /\ BaseInterval \in Nat \ {0}
  /\ MinWake \in Nat \ {0}
  /\ Workers \in Nat \ {0}
ASSUME BoundAssumption ==
  /\ Manual \subseteq Feeds
  /\ Toggled \subseteq Feeds
  /\ MaxRestarts \in Nat
  /\ MaxAge \in Nat
  /\ MaxLate \in Nat

VARIABLES
  (* the feeds table *)
  enabled,   \* feeds.enabled
  polled,    \* last_polled_at is set
  age,       \* ticks since last_polled_at, or since created_at
  plan,      \* ticks until next_poll_at, or NULL
  sched,     \* next_poll_scheduled
  interval,  \* poll_interval_sec
  (* Poller and Cooldown, in memory *)
  queue,     \* queues: the FIFO of due feeds of each host
  window,    \* hostWindow (0: none learned)
  nextHit,   \* ticks until hostNextHit (0: ready)
  cool,      \* ticks until the shared cooldown of the host clears
  (* one pollDue cycle and the Run loop *)
  phase,     \* "sleep" in Run's select, "cycle" inside pollDue
  timer,     \* ticks until Run's timer fires
  wake,      \* ticks until the wake the cycle has collected, or NULL
  due,       \* the feeds of the cycle's snapshot
  pending,   \* plans whose worker has not been started, in order
  serving,   \* hosts whose worker goroutine runs
  inflight,  \* the feed a host's worker is fetching, or NULL
  restarts,
  (* observers: what happened, read by no action *)
  asked,     \* ticks a host still asked to be left alone for this feed
  passed,    \* feeds of the host fetched since this feed joined its queue
  since,     \* ticks since the poller's last fetch of the host, up to Spacing
  backlog    \* that fetch left other feeds in the queue

rowVars == <<enabled, polled, age, plan, sched, interval>>
limitVars == <<window, cool>>
cycleVars == <<phase, timer, wake, due, pending, serving, inflight>>
hostHistory == <<passed, since, backlog>>
vars == <<enabled, polled, age, plan, sched, interval, queue, window, nextHit,
          cool, phase, timer, wake, due, pending, serving, inflight, restarts,
          asked, passed, since, backlog>>

-----------------------------------------------------------------------------
MaxOf(a, b) == IF a >= b THEN a ELSE b
MinOf(a, b) == IF a <= b THEN a ELSE b
Down(t) == IF t > 0 THEN t - 1 ELSE 0
Elements(s) == {s[i] : i \in DOMAIN s}

(* Mutated form of Sooner: the wake of the last worker to return wins. *)
LastWake(a, b) == IF b = NULL THEN a ELSE b

(* The earlier of two instants, either of which may be the zero time. *)
Sooner(a, b) ==
  IF a = NULL THEN b ELSE IF b = NULL THEN a ELSE MinOf(a, b)

(* The least of a set of instants, or the zero time. *)
Earliest(S) == IF S = {} THEN NULL ELSE CHOOSE t \in S : \A u \in S : t <= u

EffectiveInterval(f) == MaxOf(interval[f], Floor[f])

(* Mutated form of Listed: a due interval masks a deadline in the future. *)
ListedByInterval ==
  {f \in Feeds : /\ enabled[f]
                 /\ \/ plan[f] # NULL /\ plan[f] <= 0
                    \/ polled[f] => age[f] >= interval[f]}

(* ListFeedsDue: an explicit deadline gates alone; else the interval does. *)
Listed ==
  {f \in Feeds : /\ enabled[f]
                 /\ \/ plan[f] # NULL /\ plan[f] <= 0
                    \/ plan[f] = NULL /\ (polled[f] => age[f] >= interval[f])}

(* Mutated form of FloorHeld: the elapsed time is not compared. *)
FloorAlwaysHeld(f) == plan[f] = NULL /\ polled[f] /\ interval[f] < Floor[f]

(* applyPollFloor: a listed feed its floor still holds back. *)
FloorHeld(f) ==
  /\ plan[f] = NULL
  /\ polled[f]
  /\ interval[f] < Floor[f]
  /\ age[f] < Floor[f]

Due == {f \in Listed : ~FloorHeld(f)}

(* EarliestNextPollAt: only deadlines still in the future. *)
Deadlines == {plan[f] : f \in {g \in Feeds : enabled[g] /\ plan[g] # NULL /\ plan[g] > 0}}

(* How long ago dueDeadline was: larger is more overdue. *)
Overdue(f) == IF plan[f] # NULL THEN -plan[f] ELSE age[f] - EffectiveInterval(f)

Group(h) == {f \in Due : HostOf[f] = h}

WaitsAhead(h, f, g) ==
  \E i, j \in DOMAIN queue[h] : i < j /\ queue[h][i] = f /\ queue[h][j] = g

(* Mutated form of Ahead: newly due feeds go to the front. *)
AheadWhenFresh(h, f, g) ==
  IF f \in Elements(queue[h]) THEN WaitsAhead(h, f, g)
  ELSE g \in Elements(queue[h]) \/ Overdue(f) >= Overdue(g)

(* Feeds already waiting keep their order; newly due ones go to the tail,   *)
(* most overdue first.                                                      *)
Ahead(h, f, g) ==
  IF f \in Elements(queue[h])
  THEN g \notin Elements(queue[h]) \/ WaitsAhead(h, f, g)
  ELSE g \notin Elements(queue[h]) /\ Overdue(f) >= Overdue(g)

Arranged(h, S) ==
  {s \in [1..Cardinality(S) -> S] :
     /\ Elements(s) = S
     /\ \A i, j \in 1..Cardinality(S) : i < j => s[i] # s[j] /\ Ahead(h, s[i], s[j])}

(* Mutated form of Reconciled: feeds no longer due are not dropped. *)
ReconciledKeepingAll(h) == Arranged(h, Group(h) \cup Elements(queue[h]))

(* reconcileQueues: the queues h may come out of a reconciliation with. *)
Reconciled(h) == Arranged(h, Group(h))

(* The order in which hosts with something due are started, by queue head. *)
HostOrders(q) ==
  LET ready == {h \in Hosts : Group(h) # {}}
  IN {s \in [1..Cardinality(ready) -> ready] :
        /\ Elements(s) = ready
        /\ \A i, j \in 1..Cardinality(ready) :
             i < j => s[i] # s[j] /\ Overdue(q[s[i]][1]) >= Overdue(q[s[j]][1])}

(* hostQueue.pop: what is left once the head is taken. *)
Rest(s) == Tail(s)

(* nextWakeDelay: how long Run sleeps for a wake, within its two bounds. *)
NextWakeDelay(w) ==
  IF w = NULL THEN BaseInterval
  ELSE MaxOf(MinWake, MinOf(BaseInterval, IF w <= 0 THEN MinWake ELSE w))

-----------------------------------------------------------------------------
Init ==
  /\ enabled = [f \in Feeds |-> TRUE]
  /\ polled = [f \in Feeds |-> FALSE]
  /\ age = [f \in Feeds |-> 0]
  /\ plan = [f \in Feeds |-> NULL]
  /\ sched = [f \in Feeds |-> FALSE]
  /\ interval \in {i \in [Feeds -> UNION {Intervals[f] : f \in Feeds}] :
                     \A f \in Feeds : i[f] \in Intervals[f]}
  /\ queue = [h \in Hosts |-> <<>>]
  /\ window = [h \in Hosts |-> 0]
  /\ nextHit = [h \in Hosts |-> 0]
  /\ cool = [h \in Hosts |-> 0]
  /\ phase = "sleep"
  /\ timer = 0
  /\ wake = NULL
  /\ due = {}
  /\ pending = <<>>
  /\ serving = {}
  /\ inflight = [h \in Hosts |-> NULL]
  /\ restarts = 0
  /\ asked = [f \in Feeds |-> 0]
  /\ passed = [f \in Feeds |-> {}]
  /\ since = [h \in Hosts |-> Spacing]
  /\ backlog = [h \in Hosts |-> FALSE]

(* The wake a cycle starts from: the soonest deadline, a floor's included. *)
CycleWake ==
  Sooner(Earliest(Deadlines), Earliest({Floor[f] - age[f] : f \in Listed \ Due}))

(* pollDue with nothing to fetch: the queues are dropped and Run sleeps. *)
IdleCycle ==
  /\ phase = "sleep" /\ timer = 0
  /\ Due = {}
  /\ queue' = [h \in Hosts |-> <<>>]
  /\ passed' = [f \in Feeds |-> {}]
  /\ timer' = NextWakeDelay(CycleWake)
  /\ UNCHANGED <<rowVars, limitVars, nextHit, phase, wake, due, pending,
                 serving, inflight, restarts, asked, since, backlog>>

(* pollDue up to the worker loop: due list, floor, queues, host order. *)
StartCycle ==
  /\ phase = "sleep" /\ timer = 0
  /\ Due # {}
  /\ phase' = "cycle"
  /\ due' = Due
  /\ wake' = CycleWake
  /\ queue' \in {q \in [Hosts -> UNION {Reconciled(h) : h \in Hosts}] :
                   \A h \in Hosts : q[h] \in Reconciled(h)}
  /\ pending' \in HostOrders(queue')
  /\ passed' = [f \in Feeds |-> IF f \in Elements(queue[HostOf[f]]) /\ f \in Due
                                THEN passed[f] ELSE {}]
  /\ UNCHANGED <<rowVars, limitVars, nextHit, timer, serving, inflight,
                 restarts, asked, since, backlog>>

(* The main goroutine takes a worker slot and starts the next host. *)
Dispatch ==
  /\ phase = "cycle"
  /\ pending # <<>>
  /\ Cardinality(serving) < Workers
  /\ serving' = serving \cup {Head(pending)}
  /\ pending' = Tail(pending)
  /\ UNCHANGED <<rowVars, limitVars, nextHit, queue, phase, timer, wake, due,
                 inflight, restarts, asked, hostHistory>>

(* A worker returns; its wake, if any, is merged into the cycle's. *)
Leave(h, w) ==
  /\ serving' = serving \ {h}
  /\ wake' = Sooner(wake, w)

(* pollHost: between two fetches of h, at the top of its loop. *)
AtQueue(h) == h \in serving /\ inflight[h] = NULL

(* pollHost returns: drained, or cooling, or inside the spacing window. *)
HostDrained(h) ==
  /\ AtQueue(h) /\ queue[h] = <<>>
  /\ Leave(h, NULL)
  /\ UNCHANGED <<rowVars, limitVars, nextHit, queue, phase, timer, due,
                 pending, inflight, restarts, asked, hostHistory>>

HostHeld(h) ==
  /\ AtQueue(h) /\ queue[h] # <<>>
  /\ cool[h] > 0 \/ nextHit[h] > 0
  /\ Leave(h, IF cool[h] > 0 THEN cool[h] ELSE nextHit[h])
  /\ UNCHANGED <<rowVars, limitVars, nextHit, queue, phase, timer, due,
                 pending, inflight, restarts, asked, hostHistory>>

(* Mutated form of BeginFetch: the shared cooldown is not looked at. *)
BeginFetchCooling(h) ==
  /\ AtQueue(h) /\ queue[h] # <<>>
  /\ nextHit[h] = 0
  /\ inflight' = [inflight EXCEPT ![h] = Head(queue[h])]
  /\ queue' = [queue EXCEPT ![h] = Rest(@)]
  /\ passed' = passed
  /\ since' = [since EXCEPT ![h] = 0]
  /\ backlog' = backlog
  /\ UNCHANGED <<rowVars, limitVars, nextHit, phase, timer, wake, due,
                 pending, serving, restarts, asked>>

(* pollHost admits the head of the queue and PollOne sends its request. *)
BeginFetch(h) ==
  /\ AtQueue(h) /\ queue[h] # <<>>
  /\ cool[h] = 0 /\ nextHit[h] = 0
  /\ inflight' = [inflight EXCEPT ![h] = Head(queue[h])]
  /\ queue' = [queue EXCEPT ![h] = Rest(@)]
  /\ passed' = [f \in Feeds |->
                  IF f = Head(queue[h]) THEN {}
                  ELSE IF f \in Elements(Rest(queue[h]))
                       THEN passed[f] \cup {Head(queue[h])} ELSE passed[f]]
  /\ since' = [since EXCEPT ![h] = 0]
  /\ backlog' = [backlog EXCEPT ![h] = Len(queue[h]) > 1]
  /\ UNCHANGED <<rowVars, limitVars, nextHit, phase, timer, wake, due,
                 pending, serving, restarts, asked>>

-----------------------------------------------------------------------------
(* PollOne's outcomes: what one fetch of f leaves in its row and, for a    *)
(* rate limit, in the poller's window and the shared cooldown.             *)

(* Mutated form of Schedule: the plan is not raised to the floor. *)
ScheduleUnfloored(offset, f, i) == MinOf(offset, MaxOf(i, Floor[f]))

(* scheduleNextPoll: raised to the floor, then lowered to the interval. *)
Schedule(offset, f, i) == MinOf(MaxOf(offset, Floor[f]), MaxOf(i, Floor[f]))

(* Success or 304: the deadline is cleared, the cadence picks an interval   *)
(* and may plan a time-of-day fetch.                                        *)
Success(f) ==
  /\ \E i \in Intervals[f], o \in Offsets[f] \cup {NULL} :
       /\ interval' = [interval EXCEPT ![f] = i]
       /\ plan' = [plan EXCEPT ![f] = IF o = NULL THEN NULL ELSE Schedule(o, f, i)]
       /\ sched' = [sched EXCEPT ![f] = o # NULL]
  /\ polled' = [polled EXCEPT ![f] = TRUE]
  /\ age' = [age EXCEPT ![f] = 0]
  /\ asked' = [asked EXCEPT ![f] = 0]
  /\ UNCHANGED <<enabled, window, cool>>

(* Any other error: recorded, and retried on the normal interval. *)
Failure(f) ==
  /\ polled' = [polled EXCEPT ![f] = TRUE]
  /\ age' = [age EXCEPT ![f] = 0]
  /\ plan' = [plan EXCEPT ![f] = NULL]
  /\ sched' = [sched EXCEPT ![f] = FALSE]
  /\ asked' = [asked EXCEPT ![f] = 0]
  /\ UNCHANGED <<enabled, interval, window, cool>>

(* The items could not be stored: PollOne returns before any row write. *)
StoreFailure(f) == UNCHANGED <<rowVars, limitVars, asked>>

(* A permanent failure: Feeds.Pause. *)
Gone(f) ==
  /\ enabled' = [enabled EXCEPT ![f] = FALSE]
  /\ polled' = [polled EXCEPT ![f] = TRUE]
  /\ age' = [age EXCEPT ![f] = 0]
  /\ plan' = [plan EXCEPT ![f] = NULL]
  /\ sched' = [sched EXCEPT ![f] = FALSE]
  /\ asked' = [asked EXCEPT ![f] = 0]
  /\ UNCHANGED <<interval, window, cool>>

(* Mutated form of Limited: next_poll_scheduled keeps its old value. *)
LimitedAsPlanned(f, r) ==
  /\ plan' = [plan EXCEPT ![f] = r]
  /\ polled' = [polled EXCEPT ![f] = TRUE]
  /\ age' = [age EXCEPT ![f] = 0]
  /\ window' = [window EXCEPT ![HostOf[f]] = MaxOf(@, MaxOf(r, WindowFloor))]
  /\ cool' = [cool EXCEPT ![HostOf[f]] = MaxOf(@, r)]
  /\ asked' = [asked EXCEPT ![f] = r]
  /\ UNCHANGED <<enabled, sched, interval>>

(* A rate limit asking for r: next_poll_at, learnWindow and Cool. *)
Limited(f, r) ==
  /\ plan' = [plan EXCEPT ![f] = r]
  /\ sched' = [sched EXCEPT ![f] = FALSE]
  /\ polled' = [polled EXCEPT ![f] = TRUE]
  /\ age' = [age EXCEPT ![f] = 0]
  /\ window' = [window EXCEPT ![HostOf[f]] = MaxOf(@, MaxOf(r, WindowFloor))]
  /\ cool' = [cool EXCEPT ![HostOf[f]] = MaxOf(@, r)]
  /\ asked' = [asked EXCEPT ![f] = r]
  /\ UNCHANGED <<enabled, interval>>

Outcome(f) ==
  \/ Success(f)
  \/ Failure(f)
  \/ StoreFailure(f)
  \/ Gone(f)
  \/ \E r \in Backoffs : Limited(f, r)

(* Mutated form of EffectiveSpacing: only a learned window spaces a host. *)
LearnedSpacing(h) == window'[h]

(* effectiveSpacing, once the fetch's own rate limit has been learned. *)
EffectiveSpacing(h) == MaxOf(Spacing, window'[h])

(* pollHost after PollOne: space the host when others still wait, else loop. *)
EndFetch(h) ==
  /\ h \in serving /\ inflight[h] # NULL
  /\ Outcome(inflight[h])
  /\ inflight' = [inflight EXCEPT ![h] = NULL]
  /\ IF queue[h] # <<>> /\ EffectiveSpacing(h) > 0
     THEN /\ nextHit' = [nextHit EXCEPT ![h] = MaxOf(@, EffectiveSpacing(h))]
          /\ Leave(h, EffectiveSpacing(h))
     ELSE UNCHANGED <<nextHit, serving, wake>>
  /\ since' = [since EXCEPT ![h] = 0]
  /\ UNCHANGED <<queue, phase, timer, due, pending, restarts, passed, backlog>>

(* pollDue returns: a last look at the deadlines, then Run's timer. *)
EndCycle ==
  /\ phase = "cycle" /\ pending = <<>> /\ serving = {}
  /\ phase' = "sleep"
  /\ timer' = NextWakeDelay(Sooner(wake, Earliest(Deadlines)))
  /\ wake' = NULL
  /\ due' = {}
  /\ UNCHANGED <<rowVars, limitVars, nextHit, queue, pending, serving,
                 inflight, restarts, asked, hostHistory>>

-----------------------------------------------------------------------------
(* The other writers of the same state. *)

(* feedRefresh: refused during a rate-limit backoff, not by pacing. *)
Refresh(f) ==
  /\ f \in Manual
  /\ (plan[f] # NULL /\ plan[f] > 0) => sched[f]
  /\ Outcome(f)
  /\ UNCHANGED <<queue, nextHit, cycleVars, restarts, hostHistory>>

(* feedToggle: SetEnabled leaves next_poll_at alone. *)
Toggle(f) ==
  /\ f \in Toggled
  /\ enabled' = [enabled EXCEPT ![f] = ~@]
  /\ UNCHANGED <<polled, age, plan, sched, interval, limitVars, queue, nextHit,
                 cycleVars, restarts, asked, hostHistory>>

(* Host.Do is answered with a rate limit.  The request may have been sent   *)
(* before the host began cooling, so there is no guard on cool.             *)
PluginLimited(h, r) ==
  /\ cool' = [cool EXCEPT ![h] = MaxOf(@, r)]
  /\ UNCHANGED <<rowVars, window, queue, nextHit, cycleVars, restarts, asked,
                 hostHistory>>

(* The process stops, in-flight fetches unanswered, and starts again. *)
Restart ==
  /\ restarts < MaxRestarts
  /\ restarts' = restarts + 1
  /\ queue' = [h \in Hosts |-> <<>>]
  /\ window' = [h \in Hosts |-> 0]
  /\ nextHit' = [h \in Hosts |-> 0]
  /\ cool' = [h \in Hosts |-> 0]
  /\ phase' = "sleep" /\ timer' = 0 /\ wake' = NULL
  /\ due' = {} /\ pending' = <<>> /\ serving' = {}
  /\ inflight' = [h \in Hosts |-> NULL]
  /\ passed' = [f \in Feeds |-> {}]
  /\ since' = [h \in Hosts |-> Spacing]
  /\ backlog' = [h \in Hosts |-> FALSE]
  /\ UNCHANGED <<rowVars, asked>>

Tick ==
  /\ age' = [f \in Feeds |-> MinOf(age[f] + 1, MaxAge)]
  /\ plan' = [f \in Feeds |->
                IF plan[f] = NULL THEN NULL ELSE MaxOf(plan[f] - 1, -MaxLate)]
  /\ nextHit' = [h \in Hosts |-> Down(nextHit[h])]
  /\ cool' = [h \in Hosts |-> Down(cool[h])]
  /\ timer' = Down(timer)
  /\ wake' = IF wake = NULL THEN NULL ELSE Down(wake)
  /\ asked' = [f \in Feeds |-> Down(asked[f])]
  /\ since' = [h \in Hosts |-> MinOf(since[h] + 1, Spacing)]
  /\ UNCHANGED <<enabled, polled, sched, interval, window, queue, phase, due,
                 pending, serving, inflight, restarts, passed, backlog>>

HostStep(h) == HostDrained(h) \/ HostHeld(h) \/ BeginFetch(h) \/ EndFetch(h)
LoopStep == IdleCycle \/ StartCycle \/ Dispatch \/ EndCycle

Next ==
  \/ LoopStep
  \/ \E h \in Hosts : HostStep(h)
  \/ \E f \in Feeds : Refresh(f) \/ Toggle(f)
  \/ \E h \in Hosts, r \in PluginBackoffs : PluginLimited(h, r)
  \/ Restart
  \/ Tick

Spec == Init /\ [][Next]_vars

(* The loop and every worker are goroutines that keep running, a fetch ends *)
(* because its client times out, and the clock advances.                    *)
Fairness ==
  /\ WF_vars(LoopStep)
  /\ \A h \in Hosts : WF_vars(HostStep(h))
  /\ WF_vars(Tick)

FairSpec == Spec /\ Fairness

-----------------------------------------------------------------------------
RowType ==
  /\ enabled \in [Feeds -> BOOLEAN]
  /\ polled \in [Feeds -> BOOLEAN]
  /\ age \in [Feeds -> Nat]
  /\ plan \in [Feeds -> Int \cup {NULL}]
  /\ sched \in [Feeds -> BOOLEAN]
  /\ interval \in [Feeds -> Nat]

MemoryType ==
  /\ queue \in [Hosts -> Seq(Feeds)]
  /\ window \in [Hosts -> Nat]
  /\ nextHit \in [Hosts -> Nat]
  /\ cool \in [Hosts -> Nat]

CycleType ==
  /\ phase \in {"sleep", "cycle"}
  /\ timer \in Nat
  /\ wake \in Nat \cup {NULL}
  /\ due \subseteq Feeds
  /\ pending \in Seq(Hosts)
  /\ serving \subseteq Hosts
  /\ inflight \in [Hosts -> Feeds \cup {NULL}]
  /\ restarts \in Nat

ObserverType ==
  /\ asked \in [Feeds -> Nat]
  /\ passed \in [Feeds -> SUBSET Feeds]
  /\ since \in [Hosts -> Nat]
  /\ backlog \in [Hosts -> BOOLEAN]

(* The type of every variable. *)
TypeOK == RowType /\ MemoryType /\ CycleType /\ ObserverType

(* A feed waits at most once, in its own host's queue, and not while its    *)
(* host's worker is fetching it (hostQueue.add, reconcileQueues).           *)
QueuesDisjoint ==
  \A h \in Hosts :
    /\ \A i, j \in DOMAIN queue[h] : i # j => queue[h][i] # queue[h][j]
    /\ \A f \in Elements(queue[h]) : HostOf[f] = h /\ inflight[h] # f

(* Inside a cycle every feed a worker can still pop has a snapshot in the   *)
(* cycle's due map: the "defensive" branch of pollHost is dead code.        *)
QueuedIsDue ==
  \A h \in serving \cup Elements(pending) : Elements(queue[h]) \subseteq due

(* A feed that becomes due again cannot jump ahead of the backlog: nothing  *)
(* ahead of f in its queue was already fetched while f was waiting.         *)
FirstComeFirstServed ==
  \A h \in Hosts : \A i, j \in DOMAIN queue[h] :
    i < j => queue[h][i] \notin passed[queue[h][j]]

(* What a host asked for in a 429 stays on record, as a backoff and not as  *)
(* a planned fetch, for as long as it asked, whoever writes the row.        *)
BackoffRecorded ==
  \A f \in Feeds :
    asked[f] > 0 => plan[f] # NULL /\ plan[f] >= asked[f] /\ ~sched[f]

Begins(f) == inflight[HostOf[f]] # f /\ inflight'[HostOf[f]] = f

(* The poller does not fetch a feed while its last rate limit runs: not     *)
(* from a due snapshot taken before it, nor after a restart.                *)
BackoffHonoured == [][\A f \in Feeds : Begins(f) => asked[f] = 0]_vars

(* A fetch that left other feeds of its host waiting is followed by the     *)
(* next one no sooner than the host spacing.                                *)
SpacedBacklog ==
  [][\A f \in Feeds :
       Begins(f) /\ backlog[HostOf[f]] => since[HostOf[f]] >= Spacing]_vars

(* The floor caps how often one feed polls automatically (applyPollFloor). *)
FloorHolds ==
  [][\A f \in Feeds : Begins(f) /\ polled[f] => age[f] >= Floor[f]]_vars

(* When Run goes to sleep it wakes for every planned deadline and for every *)
(* host with a backlog no later than it must, up to minWake.                *)
SleepsNoLonger ==
  [][timer' > timer =>
       /\ timer' \in MinWake..MaxOf(MinWake, BaseInterval)
       /\ \A f \in Feeds : enabled[f] /\ plan[f] # NULL /\ plan[f] > 0
                             => timer' <= MaxOf(MinWake, plan[f])
       /\ \A h \in Hosts : queue'[h] # <<>>
                             => timer' <= MaxOf(MinWake, MaxOf(cool[h], nextHit[h]))]_vars

(* The poller implements HostLine: the queue of each host is its line, and  *)
(* its gate is the later of the shared cooldown and the host spacing, which *)
(* the plugin host, the refresh button and three workers' outcomes raise.   *)
Gate == [h \in Hosts |-> MaxOf(cool[h], nextHit[h])]
Line == INSTANCE HostLine WITH line <- queue, current <- inflight, gate <- Gate
LineKept == Line!Spec

(* Every due feed is fetched, paused, or stops being due: no feed starves   *)
(* behind a fast neighbour, a paced host or a full worker pool.             *)
DueServed ==
  \A f \in Feeds :
    (enabled[f] /\ f \in Due) ~> (inflight[HostOf[f]] = f \/ f \notin Due)
=============================================================================
