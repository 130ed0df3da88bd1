---------------------------- MODULE ManagedPlugin ----------------------------
(***************************************************************************)
(* One external plugin (internal/plugin/managed.go): a subprocess started   *)
(* at load, killed when idle and respawned by the next call, whose answers  *)
(* to Match are cached, and whose settings an admin saves and pushes while  *)
(* readers and the poller use it.  Each lock section is one action.         *)
(***************************************************************************)
EXTENDS Naturals, FiniteSets

CONSTANTS
  Readers,      \* requests and workers that use the plugin
  Admins,       \* requests that save its settings
  Urls,         \* what Match is asked about: a URL and a capability
  Settings,     \* values an admin may save
  Stored,       \* the values stored at startup
  Claims,       \* the URLs the plugin matches under each setting
  CacheLimit,   \* matchCacheLimit
  IdleTimeout,  \* NF_PLUGIN_IDLE_TIMEOUT in ticks, 0 to keep it resident
  MaxSaves,     \* bound: saves
  MaxFaults,    \* bound: failed starts and crashes of the subprocess
  NULL          \* nil

Callers == Readers \cup Admins

ASSUME CallersAssumption == IsFiniteSet(Callers) /\ Readers \cap Admins = {}
ASSUME SettingsAssumption ==
  Stored \in Settings /\ NULL \notin Settings /\ Claims \in [Settings -> SUBSET Urls]
ASSUME NullAssumption == NULL \notin Urls /\ NULL \notin [conf : Settings, alive : BOOLEAN]
ASSUME LimitAssumption == CacheLimit \in Nat /\ IdleTimeout \in Nat
ASSUME BoundAssumption == MaxSaves \in Nat /\ MaxFaults \in Nat

VARIABLES
  settings,  \* the settings table
  config,    \* managedExternal.config
  proc,      \* client and inner: NULL, or the subprocess
  meta,      \* the setting the cached Meta was described under
  users,     \* calls counted as running
  idle,      \* ticks since lastUsed, up to the timeout and one more
  matches,   \* the cached answer for each URL
  stopped,   \* Close has stopped the reaper
  call,      \* where each caller is, and its local variables
  saves,
  faults

vars == <<settings, config, proc, meta, users, idle, matches, stopped, call,
          saves, faults>>

Process == [conf : Settings, alive : BOOLEAN]
Answer == {"unknown", "yes", "no"}

(* live: fn has not run yet and the process it was given is still running. *)
Call ==
  [op : {"none", "match", "work", "peek", "configure"},
   pc : {"idle", "enter", "using", "leave", "store", "readBack", "setConfig",
         "clear", "setMeta"},
   url : Urls \cup {NULL}, values : Settings \cup {NULL}, live : BOOLEAN,
   answer : Answer, described : BOOLEAN]

NoCall == [op |-> "none", pc |-> "idle", url |-> NULL, values |-> NULL,
           live |-> FALSE, answer |-> "no", described |-> FALSE]

(* Loaded by newManagedExternal and given its stored values by ConfigureAll. *)
Init ==
  /\ settings = Stored
  /\ config = Stored
  /\ proc = [conf |-> Stored, alive |-> TRUE]
  /\ meta = Stored
  /\ users = 0
  /\ idle = 0
  /\ matches = [u \in Urls |-> "unknown"]
  /\ stopped = FALSE
  /\ call = [p \in Callers |-> NoCall]
  /\ saves = 0
  /\ faults = 0

-----------------------------------------------------------------------------
At(p, step) == call[p].pc = step
Goto(p, step) == call' = [call EXCEPT ![p].pc = step]
Finish(p) == call' = [call EXCEPT ![p] = NoCall]
Using(p) == call[p].pc \in {"using", "leave"}

(* Match, and the answer is not cached. *)
Ask(p, u) ==
  /\ p \in Readers /\ At(p, "idle")
  /\ matches[u] = "unknown"
  /\ call' = [call EXCEPT ![p] = [NoCall EXCEPT !.op = "match", !.pc = "enter", !.url = u]]
  /\ UNCHANGED <<settings, config, proc, meta, users, idle, matches, stopped, saves, faults>>

(* Fetch, Render, Enrich and the other calls that count as use; Icon, the    *)
(* URL policy, FeedFields and Settings, which do not (peek).                 *)
Work(p) ==
  /\ p \in Readers /\ At(p, "idle")
  /\ \E op \in {"work", "peek"} :
       call' = [call EXCEPT ![p] = [NoCall EXCEPT !.op = op, !.pc = "enter"]]
  /\ UNCHANGED <<settings, config, proc, meta, users, idle, matches, stopped, saves, faults>>

(* Mutated form of Spawned: the new process is not configured again. *)
SpawnedBare == [conf |-> Stored, alive |-> TRUE]

(* spawnLocked: what a started subprocess has been told. *)
Spawned == [conf |-> config, alive |-> TRUE]

(* call, first lock section: the process is running, or is started. *)
Enter(p) ==
  /\ At(p, "enter")
  /\ IF proc = NULL
     THEN proc' = Spawned /\ meta' = config /\ idle' = 0
     ELSE UNCHANGED <<proc, meta, idle>>
  /\ users' = users + 1
  /\ call' = [call EXCEPT ![p].pc = "using", ![p].live = proc'.alive]
  /\ UNCHANGED <<settings, config, matches, stopped, saves, faults>>

(* Where a caller goes when its call has returned, failed or not. *)
Return(p) ==
  CASE call[p].op = "match" -> Goto(p, "store")
    [] call[p].op = "configure" -> Goto(p, "clear")
    [] OTHER -> Finish(p)

(* The subprocess does not start: call fails, and Match ignores the error. *)
SpawnFails(p) ==
  /\ At(p, "enter") /\ proc = NULL
  /\ faults < MaxFaults
  /\ faults' = faults + 1
  /\ Return(p)
  /\ UNCHANGED <<settings, config, proc, meta, users, idle, matches, stopped, saves>>

(* fn runs outside the lock, on the process the call was given. *)
Use(p) ==
  /\ At(p, "using")
  /\ IF call[p].op = "configure" /\ call[p].live
     THEN proc' = [proc EXCEPT !.conf = call[p].values] ELSE UNCHANGED proc
  /\ call' = [call EXCEPT ![p].pc = "leave", ![p].live = FALSE,
                ![p].described = call[p].live /\ call[p].op = "configure",
                ![p].answer = IF call[p].live /\ call[p].url \in Claims[proc.conf]
                              THEN "yes" ELSE "no"]
  /\ UNCHANGED <<settings, config, meta, users, idle, matches, stopped, saves, faults>>

(* Mutated form of Leave: a call that does not count as use stays counted. *)
LeaveUncounted(p) ==
  /\ At(p, "leave")
  /\ users' = IF call[p].op = "peek" THEN users ELSE users - 1
  /\ idle' = IF call[p].op \in {"work", "configure"} THEN 0 ELSE idle
  /\ Return(p)
  /\ UNCHANGED <<settings, config, proc, meta, matches, stopped, saves, faults>>

(* call, second lock section: only real work extends the process's life. *)
Leave(p) ==
  /\ At(p, "leave")
  /\ users' = users - 1
  /\ idle' = IF call[p].op \in {"work", "configure"} THEN 0 ELSE idle
  /\ Return(p)
  /\ UNCHANGED <<settings, config, proc, meta, matches, stopped, saves, faults>>

(* Mutated form of Kept: a "no" is not cached. *)
KeptIfYes(u, answer) ==
  IF answer = "no" THEN matches ELSE [matches EXCEPT ![u] = answer]

(* The cache with one more answer; a full one is emptied first. *)
Kept(u, answer) ==
  [v \in Urls |->
     IF v = u THEN answer
     ELSE IF Cardinality({w \in Urls : matches[w] # "unknown"}) >= CacheLimit
          THEN "unknown" ELSE matches[v]]

Store(p) ==
  /\ At(p, "store")
  /\ matches' = Kept(call[p].url, call[p].answer)
  /\ Finish(p)
  /\ UNCHANGED <<settings, config, proc, meta, users, idle, stopped, saves, faults>>

-----------------------------------------------------------------------------
(* adminSavePluginSettings: the values are stored, read back and pushed. *)
Save(a, v) ==
  /\ a \in Admins /\ At(a, "idle")
  /\ saves < MaxSaves
  /\ saves' = saves + 1
  /\ settings' = v
  /\ call' = [call EXCEPT ![a] = [NoCall EXCEPT !.op = "configure", !.pc = "readBack"]]
  /\ UNCHANGED <<config, proc, meta, users, idle, matches, stopped, faults>>

ReadBack(a) ==
  /\ At(a, "readBack")
  /\ call' = [call EXCEPT ![a].pc = "setConfig", ![a].values = settings]
  /\ UNCHANGED <<settings, config, proc, meta, users, idle, matches, stopped, saves, faults>>

(* Configure: remembered for a respawn, pushed, the cache dropped, Meta set. *)
SetConfig(a) ==
  /\ At(a, "setConfig")
  /\ config' = call[a].values
  /\ Goto(a, "enter")
  /\ UNCHANGED <<settings, proc, meta, users, idle, matches, stopped, saves, faults>>

Clear(a) ==
  /\ At(a, "clear")
  /\ matches' = [u \in Urls |-> "unknown"]
  /\ IF call[a].described THEN Goto(a, "setMeta") ELSE Finish(a)
  /\ UNCHANGED <<settings, config, proc, meta, users, idle, stopped, saves, faults>>

SetMeta(a) ==
  /\ At(a, "setMeta")
  /\ meta' = call[a].values
  /\ Finish(a)
  /\ UNCHANGED <<settings, config, proc, users, idle, matches, stopped, saves, faults>>

-----------------------------------------------------------------------------
(* Mutated form of Reapable: calls in flight are not looked at. *)
ReapableInUse == proc # NULL /\ idle > IdleTimeout

Reapable == proc # NULL /\ users = 0 /\ idle > IdleTimeout

(* reapLoop, at a tick that finds the process unused for long enough. *)
Reap ==
  /\ IdleTimeout > 0 /\ ~stopped
  /\ Reapable
  /\ proc' = NULL
  /\ UNCHANGED <<settings, config, meta, users, idle, matches, stopped, call, saves, faults>>

(* Every call in flight loses the process it was given. *)
Orphaned == [p \in Callers |-> [call[p] EXCEPT !.live = FALSE]]

(* Close, at shutdown; calls may still run, and start the plugin again. *)
Close ==
  /\ ~stopped
  /\ stopped' = TRUE
  /\ proc' = NULL
  /\ call' = Orphaned
  /\ UNCHANGED <<settings, config, meta, users, idle, matches, saves, faults>>

(* The subprocess dies; client is not nil, so nothing notices. *)
Die ==
  /\ proc # NULL /\ proc.alive
  /\ faults < MaxFaults
  /\ faults' = faults + 1
  /\ proc' = [proc EXCEPT !.alive = FALSE]
  /\ call' = Orphaned
  /\ UNCHANGED <<settings, config, meta, users, idle, matches, stopped, saves>>

Tick ==
  /\ idle <= IdleTimeout
  /\ idle' = idle + 1
  /\ UNCHANGED <<settings, config, proc, meta, users, matches, stopped, call, saves, faults>>

CallStep(p) ==
  Enter(p) \/ SpawnFails(p) \/ Use(p) \/ Leave(p) \/ Store(p)
    \/ ReadBack(p) \/ SetConfig(p) \/ Clear(p) \/ SetMeta(p)

Next ==
  \/ \E p \in Callers : CallStep(p) \/ Work(p)
  \/ \E p \in Callers, u \in Urls : Ask(p, u)
  \/ \E a \in Callers, v \in Settings : Save(a, v)
  \/ Reap \/ Close \/ Die \/ Tick

Spec == Init /\ [][Next]_vars

(* A call ends, because a request's context does; the clock and the reaper's *)
(* ticker run.                                                               *)
Fairness ==
  /\ \A p \in Callers : WF_vars(CallStep(p))
  /\ WF_vars(Tick)
  /\ WF_vars(Reap)

FairSpec == Spec /\ Fairness

-----------------------------------------------------------------------------
(* The type of every variable. *)
TypeOK ==
  /\ settings \in Settings /\ config \in Settings /\ meta \in Settings
  /\ proc \in Process \cup {NULL}
  /\ users \in 0..Cardinality(Callers) /\ idle \in 0..IdleTimeout + 1
  /\ matches \in [Urls -> Answer]
  /\ stopped \in BOOLEAN
  /\ call \in [Callers -> Call]
  /\ saves \in 0..MaxSaves /\ faults \in 0..MaxFaults

Saving == \E a \in Admins : call[a].pc # "idle"

(* Once a save has returned, a running plugin works, and is described, under *)
(* the stored settings: after any crash, reaping and respawn in between, and *)
(* whichever call started the process (spawnLocked, Configure).              *)
Configured ==
  ~Saving /\ proc # NULL /\ proc.alive =>
    config = settings /\ proc.conf = config /\ meta = config

(* The reaper never kills a process under a call: only Close does. *)
NotKilledInUse ==
  [][proc # NULL /\ proc' = NULL /\ ~stopped' => \A p \in Callers : ~Using(p)]_vars

(* A plugin with no real work left is reaped, dead or alive: a page's sweep *)
(* of Match calls does not keep it resident (managedExternal).              *)
Reclaimed ==
  <>[][\A p \in Callers : Leave(p) => call[p].op = "match"]_vars
    => []<>(proc = NULL \/ stopped)

(* adminSavePluginSettings: once saved, the plugin's URL matching is updated *)
(* immediately; Configure drops answers cached against the old configuration. *)
MatchesCurrent ==
  ~Saving /\ ~stopped =>
    \A u \in Urls : matches[u] # "unknown" =>
      (matches[u] = "yes" <=> u \in Claims[config])
=============================================================================
