------------------------ MODULE ManagedPlugin_proofs ------------------------
(***************************************************************************)
(* Proofs about one managed plugin, for any number of readers, settings and *)
(* faults, and for any cache and timeout.                                   *)
(***************************************************************************)
EXTENDS ManagedPlugin, FiniteSetTheorems, TLAPS

InUse == {p \in Callers : Using(p)}

(* Calls are counted, and a call that is to run has a running process. *)
Counted == users = Cardinality(InUse)
Served == \A p \in Callers : call[p].live => At(p, "using") /\ proc # NULL /\ proc.alive

(* Only an admin's request configures, and it carries the values it read. *)
Configuring ==
  \A p \in Callers :
    /\ p \in Admins => At(p, "idle") \/ call[p].op = "configure"
    /\ call[p].op = "configure" => p \in Admins
    /\ call[p].pc \in {"readBack", "setConfig", "clear", "setMeta"} => call[p].op = "configure"
    /\ call[p].op = "configure" /\ ~At(p, "readBack") => call[p].values \in Settings

Sound == TypeOK /\ Counted /\ Served /\ Configuring

(* A state without the count of calls in it. *)
Types ==
  /\ settings \in Settings /\ config \in Settings /\ meta \in Settings
  /\ proc \in Process \cup {NULL}
  /\ idle \in 0..IdleTimeout + 1
  /\ matches \in [Urls -> Answer]
  /\ stopped \in BOOLEAN
  /\ call \in [Callers -> Call]
  /\ saves \in 0..MaxSaves /\ faults \in 0..MaxFaults

(* The counter is in its range because it counts callers. *)
LEMMA InUseFinite ==
  /\ IsFiniteSet(InUse) /\ Cardinality(InUse) \in 0..Cardinality(Callers)
  /\ Cardinality(Callers) \in Nat
  BY CallersAssumption, FS_Subset, FS_CardinalityType DEF InUse

LEMMA TypesOfCount == Types /\ Counted => TypeOK
  BY InUseFinite DEF Types, Counted, TypeOK

LEMMA NextTypesOfCount == Types' /\ Counted' => TypeOK'
<1>1. InUse' \subseteq Callers
  BY DEF InUse
<1>2. Cardinality(InUse') \in 0..Cardinality(Callers) /\ Cardinality(Callers) \in Nat
  BY <1>1, CallersAssumption, FS_Subset, FS_CardinalityType
<1> QED
  BY <1>2 DEF Types, Counted, TypeOK

LEMMA NullIsNoProcess == NULL \notin Process
  BY NullAssumption DEF Process

LEMMA NoCallType == NoCall \in Call
  BY DEF NoCall, Call, Answer

(* What the other facts ask of one caller's new local state. *)
LEMMA Moved ==
  ASSUME Sound, NEW p \in Callers, NEW c \in Call, call' = [call EXCEPT ![p] = c],
         c.live => c.pc = "using" /\ proc' # NULL /\ proc'.alive,
         (\E q \in Callers : q # p /\ call[q].live) => proc' # NULL /\ proc'.alive,
         p \in Admins => c.pc = "idle" \/ c.op = "configure",
         c.op = "configure" => p \in Admins,
         c.pc \in {"readBack", "setConfig", "clear", "setMeta"} => c.op = "configure",
         c.op = "configure" /\ c.pc # "readBack" => c.values \in Settings
  PROVE  call' \in [Callers -> Call] /\ Served' /\ Configuring'
<1>1. \A q \in Callers : call'[q] = IF q = p THEN c ELSE call[q]
  BY DEF Sound, TypeOK
<1>2. call' \in [Callers -> Call]
  BY DEF Sound, TypeOK
<1>3. Served'
  BY <1>1 DEF Sound, Served, At
<1>4. Configuring'
  BY <1>1 DEF Sound, Configuring, At
<1> QED
  BY <1>2, <1>3, <1>4

(* The counter follows when nobody starts or stops using the plugin. *)
LEMMA SameCount ==
  ASSUME Counted, users' = users, \A p \in Callers : Using(p)' = Using(p)
  PROVE  Counted'
<1>1. InUse' = InUse
  BY DEF InUse
<1> QED
  BY <1>1 DEF Counted

(* The facts of a call in progress that a process that goes on running, or  *)
(* is started, leaves alone.                                                *)
LEMMA ReturnSound ==
  ASSUME Sound, NEW p \in Callers, Return(p), ~At(p, "readBack"),
         ~At(p, "idle"), call[p].live => FALSE
  PROVE  \E c \in Call :
           /\ call' = [call EXCEPT ![p] = c]
           /\ ~c.live /\ c.pc \in {"idle", "store", "clear"}
           /\ p \in Admins => c.pc = "idle" \/ c.op = "configure"
           /\ c.op = "configure" => p \in Admins
           /\ c.pc = "clear" => c.op = "configure"
           /\ c.op = "configure" => c.values \in Settings
<1>1. call[p] \in Call /\ call \in [Callers -> Call]
  BY DEF Sound, TypeOK
<1>2. /\ p \in Admins => call[p].op = "configure"
      /\ call[p].op = "configure" => p \in Admins /\ call[p].values \in Settings
  BY DEF Sound, Configuring
<1>3. CASE call[p].op = "match"
  <2> DEFINE c == [call[p] EXCEPT !.pc = "store"]
  <2>1. call' = [call EXCEPT ![p] = c]
    BY <1>3 DEF Return, Goto
  <2>2. c \in Call /\ c.pc = "store" /\ c.op = "match" /\ ~c.live
    BY <1>1, <1>3 DEF Call
  <2> HIDE DEF c
  <2> QED
    BY <1>2, <1>3, <2>1, <2>2
<1>4. CASE call[p].op = "configure"
  <2> DEFINE c == [call[p] EXCEPT !.pc = "clear"]
  <2>1. call' = [call EXCEPT ![p] = c]
    BY <1>4 DEF Return, Goto
  <2>2. c \in Call /\ c.pc = "clear" /\ c.op = "configure" /\ c.values = call[p].values /\ ~c.live
    BY <1>1, <1>4 DEF Call
  <2> HIDE DEF c
  <2> QED
    BY <1>2, <1>4, <2>1, <2>2
<1>5. CASE call[p].op \notin {"match", "configure"}
  <2>1. call' = [call EXCEPT ![p] = NoCall]
    BY <1>5 DEF Return, Finish
  <2>2. NoCall.pc = "idle" /\ NoCall.op = "none" /\ ~NoCall.live
    BY DEF NoCall
  <2> QED
    BY <1>2, <1>5, <2>1, <2>2, NoCallType
<1> QED
  BY <1>3, <1>4, <1>5

LEMMA SoundInit == Init => Sound
<1> SUFFICES ASSUME Init PROVE Sound
  OBVIOUS
<1>1. \A p \in Callers : call[p] = NoCall
  BY DEF Init
<1>2. NoCall.pc = "idle" /\ NoCall.op = "none" /\ ~NoCall.live
  BY DEF NoCall
<1>3. Types
  <2>1. call \in [Callers -> Call]
    BY NoCallType DEF Init
  <2>2. /\ settings \in Settings /\ config \in Settings /\ meta \in Settings
        /\ proc \in Process /\ stopped \in BOOLEAN
    BY SettingsAssumption DEF Init, Process
  <2>3. matches \in [Urls -> Answer]
    BY DEF Init, Answer
  <2>4. idle \in 0..IdleTimeout + 1 /\ saves \in 0..MaxSaves /\ faults \in 0..MaxFaults
    BY LimitAssumption, BoundAssumption DEF Init
  <2> QED
    BY <2>1, <2>2, <2>3, <2>4 DEF Types
<1>4. InUse = {}
  BY <1>1, <1>2 DEF InUse, Using
<1>5. Counted
  BY <1>4, FS_EmptySet DEF Init, Counted
<1> QED
  BY <1>1, <1>2, <1>3, <1>5, TypesOfCount DEF Sound, Served, Configuring, At

-----------------------------------------------------------------------------
(* The steps of a call. *)

(* A caller that was idle, or is not using the plugin, goes on without it. *)
LEMMA AsideSound ==
  ASSUME Sound, NEW p \in Callers, NEW c \in Call, call' = [call EXCEPT ![p] = c],
         ~Using(p), c.pc \notin {"using", "leave"}, ~c.live, UNCHANGED <<proc, users>>,
         settings' \in Settings, config' \in Settings, meta' \in Settings,
         idle' \in 0..IdleTimeout + 1, matches' \in [Urls -> Answer],
         stopped' \in BOOLEAN, saves' \in 0..MaxSaves, faults' \in 0..MaxFaults,
         p \in Admins => c.pc = "idle" \/ c.op = "configure",
         c.op = "configure" => p \in Admins,
         c.pc \in {"readBack", "setConfig", "clear", "setMeta"} => c.op = "configure",
         c.op = "configure" /\ c.pc # "readBack" => c.values \in Settings
  PROVE  Sound'
<1>1. (\E q \in Callers : q # p /\ call[q].live) => proc' # NULL /\ proc'.alive
  BY DEF Sound, Served
<1>2. call' \in [Callers -> Call] /\ Served' /\ Configuring'
  BY <1>1, Moved
<1>3. \A q \in Callers : Using(q)' = Using(q)
  BY DEF Using, Sound, TypeOK
<1>4. Counted'
  BY <1>3, SameCount DEF Sound
<1>5. Types'
  BY <1>2 DEF Sound, TypeOK, Types
<1> QED
  BY <1>2, <1>4, <1>5, NextTypesOfCount DEF Sound

LEMMA AskSound ==
  ASSUME Sound, NEW p \in Callers, NEW u \in Urls, Ask(p, u) PROVE Sound'
<1> DEFINE c == [NoCall EXCEPT !.op = "match", !.pc = "enter", !.url = u]
<1>1. c \in Call /\ c.pc = "enter" /\ c.op = "match" /\ ~c.live
  BY DEF NoCall, Call, Answer
<1>2. /\ call' = [call EXCEPT ![p] = c] /\ p \in Readers /\ ~Using(p)
      /\ UNCHANGED <<settings, config, proc, meta, users, idle, matches, stopped, saves, faults>>
  BY DEF Ask, At, Using
<1>3. p \notin Admins
  BY <1>2, CallersAssumption
<1> HIDE DEF c
<1> QED
  BY <1>1, <1>2, <1>3, AsideSound DEF Sound, TypeOK

LEMMA WorkSound ==
  ASSUME Sound, NEW p \in Callers, Work(p) PROVE Sound'
<1>1. PICK op \in {"work", "peek"} :
        call' = [call EXCEPT ![p] = [NoCall EXCEPT !.op = op, !.pc = "enter"]]
  BY DEF Work
<1> DEFINE c == [NoCall EXCEPT !.op = op, !.pc = "enter"]
<1>2. c \in Call /\ c.pc = "enter" /\ c.op # "configure" /\ ~c.live
  BY DEF NoCall, Call, Answer
<1>3. /\ call' = [call EXCEPT ![p] = c] /\ p \in Readers /\ ~Using(p)
      /\ UNCHANGED <<settings, config, proc, meta, users, idle, matches, stopped, saves, faults>>
  BY <1>1 DEF Work, At, Using
<1>4. p \notin Admins
  BY <1>3, CallersAssumption
<1> HIDE DEF c
<1> QED
  BY <1>2, <1>3, <1>4, AsideSound DEF Sound, TypeOK

LEMMA SaveSound ==
  ASSUME Sound, NEW a \in Callers, NEW v \in Settings, Save(a, v) PROVE Sound'
<1> DEFINE c == [NoCall EXCEPT !.op = "configure", !.pc = "readBack"]
<1>1. c \in Call /\ c.pc = "readBack" /\ c.op = "configure" /\ ~c.live
  BY DEF NoCall, Call, Answer
<1>2. /\ call' = [call EXCEPT ![a] = c] /\ a \in Admins /\ ~Using(a) /\ settings' = v
      /\ UNCHANGED <<config, proc, meta, users, idle, matches, stopped, faults>>
  BY DEF Save, At, Using
<1>3. saves' \in 0..MaxSaves
  BY BoundAssumption DEF Save, Sound, TypeOK
<1> HIDE DEF c
<1> QED
  BY <1>1, <1>2, <1>3, AsideSound DEF Sound, TypeOK

LEMMA ReadBackSound ==
  ASSUME Sound, NEW a \in Callers, ReadBack(a) PROVE Sound'
<1> DEFINE c == [call[a] EXCEPT !.pc = "setConfig", !.values = settings]
<1>1. call[a] \in Call /\ call[a].pc = "readBack" /\ call[a].op = "configure" /\ a \in Admins
  BY DEF Sound, TypeOK, Configuring, ReadBack, At
<1>2. /\ call' = [call EXCEPT ![a] = c] /\ ~Using(a)
      /\ UNCHANGED <<settings, config, proc, meta, users, idle, matches, stopped, saves, faults>>
  BY <1>1 DEF ReadBack, Using
<1>3. ~call[a].live /\ settings \in Settings
  BY <1>1 DEF Sound, Served, At, TypeOK
<1>4. c \in Call /\ c.pc = "setConfig" /\ c.op = "configure" /\ ~c.live /\ c.values = settings
  BY <1>1, <1>3 DEF Call
<1> HIDE DEF c
<1> QED
  BY <1>1, <1>2, <1>3, <1>4, AsideSound DEF Sound, TypeOK

LEMMA SetConfigSound ==
  ASSUME Sound, NEW a \in Callers, SetConfig(a) PROVE Sound'
<1> DEFINE c == [call[a] EXCEPT !.pc = "enter"]
<1>1. call[a] \in Call /\ call[a].pc = "setConfig" /\ call[a].op = "configure" /\ a \in Admins
  BY DEF Sound, TypeOK, Configuring, SetConfig, At
<1>2. /\ call' = [call EXCEPT ![a] = c] /\ ~Using(a) /\ config' = call[a].values
      /\ UNCHANGED <<settings, proc, meta, users, idle, matches, stopped, saves, faults>>
  BY <1>1 DEF SetConfig, Using, Goto
<1>3. ~call[a].live /\ call[a].values \in Settings
  BY <1>1 DEF Sound, Served, At, Configuring
<1>4. c \in Call /\ c.pc = "enter" /\ c.op = "configure" /\ ~c.live /\ c.values = call[a].values
  BY <1>1, <1>3 DEF Call
<1> HIDE DEF c
<1> QED
  BY <1>1, <1>2, <1>3, <1>4, AsideSound DEF Sound, TypeOK

LEMMA ClearSound ==
  ASSUME Sound, NEW a \in Callers, Clear(a) PROVE Sound'
<1> DEFINE c == IF call[a].described THEN [call[a] EXCEPT !.pc = "setMeta"] ELSE NoCall
<1>1. call[a] \in Call /\ call[a].pc = "clear" /\ call[a].op = "configure" /\ a \in Admins
  BY DEF Sound, TypeOK, Configuring, Clear, At
<1>2. /\ call' = [call EXCEPT ![a] = c] /\ ~Using(a) /\ matches' = [u \in Urls |-> "unknown"]
      /\ UNCHANGED <<settings, config, proc, meta, users, idle, stopped, saves, faults>>
  BY <1>1 DEF Clear, Using, Goto, Finish
<1>3. ~call[a].live /\ call[a].values \in Settings /\ matches' \in [Urls -> Answer]
  BY <1>1, <1>2 DEF Sound, Served, At, Configuring, Answer
<1>4. /\ c \in Call /\ ~c.live
      /\ \/ c.pc = "setMeta" /\ c.op = "configure" /\ c.values = call[a].values
         \/ c.pc = "idle" /\ c.op = "none"
  <2>1. CASE call[a].described
    BY <1>1, <1>3, <2>1 DEF Call
  <2>2. CASE ~call[a].described
    BY <2>2, NoCallType DEF NoCall
  <2> QED
    BY <2>1, <2>2
<1> HIDE DEF c
<1> QED
  BY <1>1, <1>2, <1>3, <1>4, AsideSound DEF Sound, TypeOK

LEMMA IdleCall == NoCall.pc = "idle" /\ NoCall.op = "none" /\ ~NoCall.live
  BY DEF NoCall

LEMMA SetMetaSound ==
  ASSUME Sound, NEW a \in Callers, SetMeta(a) PROVE Sound'
<1>1. call[a].pc = "setMeta" /\ call[a].op = "configure" /\ call[a].values \in Settings
  BY DEF Sound, Configuring, SetMeta, At
<1>2. /\ call' = [call EXCEPT ![a] = NoCall] /\ ~Using(a) /\ meta' = call[a].values
      /\ UNCHANGED <<settings, config, proc, users, idle, matches, stopped, saves, faults>>
  BY <1>1 DEF SetMeta, Using, Finish
<1> QED
  BY <1>1, <1>2, NoCallType, IdleCall, AsideSound DEF Sound, TypeOK

LEMMA StoreSound ==
  ASSUME Sound, NEW p \in Callers, Store(p) PROVE Sound'
<1>1. call[p] \in Call /\ matches' = Kept(call[p].url, call[p].answer)
  BY DEF Sound, TypeOK, Store
<1>2. call[p].answer \in Answer /\ "unknown" \in Answer
  BY <1>1 DEF Call, Answer
<1>3. matches' \in [Urls -> Answer]
  BY <1>1, <1>2 DEF Kept, Sound, TypeOK
<1>4. /\ call' = [call EXCEPT ![p] = NoCall] /\ ~Using(p)
      /\ UNCHANGED <<settings, config, proc, meta, users, idle, stopped, saves, faults>>
  BY DEF Store, Using, Finish, At
<1> QED
  BY <1>3, <1>4, NoCallType, IdleCall, AsideSound DEF Sound, TypeOK

LEMMA SpawnFailsSound ==
  ASSUME Sound, NEW p \in Callers, SpawnFails(p) PROVE Sound'
<1>1. ~At(p, "readBack") /\ ~At(p, "idle") /\ ~call[p].live /\ ~Using(p)
  BY DEF Sound, Served, SpawnFails, At, Using
<1>2. PICK c \in Call :
           /\ call' = [call EXCEPT ![p] = c]
           /\ ~c.live /\ c.pc \in {"idle", "store", "clear"}
           /\ p \in Admins => c.pc = "idle" \/ c.op = "configure"
           /\ c.op = "configure" => p \in Admins
           /\ c.pc = "clear" => c.op = "configure"
           /\ c.op = "configure" => c.values \in Settings
  BY <1>1, ReturnSound DEF SpawnFails
<1>3. faults' \in 0..MaxFaults
  BY BoundAssumption DEF SpawnFails, Sound, TypeOK
<1>4. UNCHANGED <<settings, config, proc, meta, users, idle, matches, stopped, saves>>
  BY DEF SpawnFails
<1> QED
  BY <1>1, <1>2, <1>3, <1>4, AsideSound DEF Sound, TypeOK

(* A call enters, and the process it is given runs or is started. *)
LEMMA EnterSound ==
  ASSUME Sound, NEW p \in Callers, Enter(p) PROVE Sound'
<1> DEFINE c == [call[p] EXCEPT !.pc = "using", !.live = proc'.alive]
<1>1. call[p] \in Call /\ call[p].pc = "enter" /\ ~Using(p)
  BY DEF Sound, TypeOK, Enter, At, Using
<1>2. /\ call' = [call EXCEPT ![p] = c] /\ users' = users + 1
      /\ UNCHANGED <<settings, config, matches, stopped, saves, faults>>
  BY DEF Enter
<1>3. /\ proc' \in Process /\ meta' \in Settings /\ idle' \in 0..IdleTimeout + 1
      /\ proc = NULL \/ proc' = proc
      /\ proc = NULL => proc'.alive
  <2>1. CASE proc = NULL
    <3>1. proc' = Spawned /\ meta' = config /\ idle' = 0 /\ config \in Settings
      BY <2>1 DEF Enter, Sound, TypeOK
    <3>2. Spawned \in Process /\ Spawned.alive
      BY <3>1 DEF Spawned, Process
    <3> QED
      BY <2>1, <3>1, <3>2, LimitAssumption
  <2>2. CASE proc # NULL
    BY <2>2 DEF Enter, Sound, TypeOK
  <2> QED
    BY <2>1, <2>2
<1>4. proc' # NULL /\ proc'.alive \in BOOLEAN
  BY <1>3, NullIsNoProcess DEF Process
<1>5. /\ c \in Call /\ c.pc = "using" /\ c.live = proc'.alive
      /\ c.op = call[p].op /\ c.values = call[p].values
  BY <1>1, <1>4 DEF Call
<1>6. (\E q \in Callers : q # p /\ call[q].live) => proc' # NULL /\ proc'.alive
  BY <1>3, <1>4 DEF Sound, Served
<1>7. /\ p \in Admins => call[p].op = "configure"
      /\ call[p].op = "configure" => p \in Admins /\ call[p].values \in Settings
  BY <1>1 DEF Sound, Configuring, At
<1> HIDE DEF c
<1>8. call' \in [Callers -> Call] /\ Served' /\ Configuring'
  BY <1>2, <1>4, <1>5, <1>6, <1>7, Moved
<1>9. Counted'
  <2>1. InUse' = InUse \cup {p} /\ p \notin InUse
    BY <1>1, <1>2, <1>5 DEF InUse, Using, Sound, TypeOK
  <2> QED
    BY <1>2, <2>1, InUseFinite, FS_AddElement DEF Counted, Sound
<1>10. Types'
  BY <1>2, <1>3, <1>8 DEF Sound, TypeOK, Types
<1> QED
  BY <1>8, <1>9, <1>10, NextTypesOfCount DEF Sound

(* A call runs on its process; a push changes what the process was told. *)
LEMMA UseSound ==
  ASSUME Sound, NEW p \in Callers, Use(p) PROVE Sound'
<1> DEFINE c == [call[p] EXCEPT !.pc = "leave", !.live = FALSE,
                   !.described = call[p].live /\ call[p].op = "configure",
                   !.answer = IF call[p].live /\ call[p].url \in Claims[proc.conf]
                              THEN "yes" ELSE "no"]
<1>1. call[p] \in Call /\ call[p].pc = "using" /\ Using(p)
  BY DEF Sound, TypeOK, Use, At, Using
<1>2. /\ call' = [call EXCEPT ![p] = c]
      /\ UNCHANGED <<settings, config, meta, users, idle, matches, stopped, saves, faults>>
  BY DEF Use
<1>3. /\ c \in Call /\ c.pc = "leave" /\ ~c.live
      /\ c.op = call[p].op /\ c.values = call[p].values
  BY <1>1 DEF Call, Answer
<1>4. /\ p \in Admins => call[p].op = "configure"
      /\ call[p].op = "configure" => p \in Admins /\ call[p].values \in Settings
  BY <1>1 DEF Sound, Configuring, At
<1>5. /\ proc' \in Process \cup {NULL}
      /\ proc # NULL /\ proc.alive => proc' # NULL /\ proc'.alive
  <2>1. CASE call[p].op = "configure" /\ call[p].live
    <3>1. proc' = [proc EXCEPT !.conf = call[p].values] /\ proc \in Process
      BY <2>1 DEF Use, Sound, Served, TypeOK
    <3> QED
      BY <1>4, <2>1, <3>1, NullIsNoProcess DEF Process
  <2>2. CASE ~(call[p].op = "configure" /\ call[p].live)
    BY <2>2 DEF Use, Sound, TypeOK
  <2> QED
    BY <2>1, <2>2
<1>6. (\E q \in Callers : q # p /\ call[q].live) => proc' # NULL /\ proc'.alive
  BY <1>5 DEF Sound, Served
<1> HIDE DEF c
<1>7. call' \in [Callers -> Call] /\ Served' /\ Configuring'
  BY <1>2, <1>3, <1>4, <1>6, Moved
<1>8. \A q \in Callers : Using(q)' = Using(q)
  BY <1>1, <1>2, <1>3 DEF Using, Sound, TypeOK
<1>9. Types' /\ Counted'
  BY <1>2, <1>5, <1>7, <1>8, SameCount DEF Sound, TypeOK, Types
<1> QED
  BY <1>7, <1>9, NextTypesOfCount DEF Sound

(* A call has returned: it is no longer counted. *)
LEMMA LeaveSound ==
  ASSUME Sound, NEW p \in Callers, Leave(p) PROVE Sound'
<1>1. /\ ~At(p, "readBack") /\ ~At(p, "idle") /\ ~call[p].live /\ Using(p)
      /\ users' = users - 1 /\ Return(p)
      /\ UNCHANGED <<settings, config, proc, meta, matches, stopped, saves, faults>>
  BY DEF Sound, Served, Leave, At, Using
<1>2. PICK c \in Call :
           /\ call' = [call EXCEPT ![p] = c]
           /\ ~c.live /\ c.pc \in {"idle", "store", "clear"}
           /\ p \in Admins => c.pc = "idle" \/ c.op = "configure"
           /\ c.op = "configure" => p \in Admins
           /\ c.pc = "clear" => c.op = "configure"
           /\ c.op = "configure" => c.values \in Settings
  BY <1>1, ReturnSound
<1>3. (\E q \in Callers : q # p /\ call[q].live) => proc' # NULL /\ proc'.alive
  BY <1>1 DEF Sound, Served
<1>4. call' \in [Callers -> Call] /\ Served' /\ Configuring'
  BY <1>2, <1>3, Moved
<1>5. Counted'
  <2>1. InUse' = InUse \ {p} /\ p \in InUse
    BY <1>1, <1>2 DEF InUse, Using, Sound, TypeOK
  <2> QED
    BY <1>1, <2>1, InUseFinite, FS_RemoveElement DEF Counted, Sound
<1>6. idle' \in 0..IdleTimeout + 1
  BY LimitAssumption DEF Leave, Sound, TypeOK
<1>7. Types'
  BY <1>1, <1>4, <1>6 DEF Sound, TypeOK, Types
<1> QED
  BY <1>4, <1>5, <1>7, NextTypesOfCount DEF Sound

-----------------------------------------------------------------------------
(* The process itself: reaped, closed, or dead; and the clock. *)

(* Nobody is using a plugin whose count of calls is zero. *)
LEMMA ZeroIsUnused ==
  ASSUME Counted, users = 0 PROVE \A p \in Callers : ~Using(p)
<1>1. InUse = {}
  BY InUseFinite, FS_EmptySet DEF Counted
<1> QED
  BY <1>1 DEF InUse

LEMMA ReapSound ==
  ASSUME Sound, Reap PROVE Sound'
<1>1. /\ proc' = NULL /\ users = 0
      /\ UNCHANGED <<settings, config, meta, users, idle, matches, stopped, call, saves, faults>>
  BY DEF Reap, Reapable
<1>2. \A p \in Callers : ~Using(p)
  BY <1>1, ZeroIsUnused DEF Sound
<1>3. Served'
  BY <1>1, <1>2 DEF Sound, Served, At, Using
<1>4. Types' /\ Configuring'
  BY <1>1 DEF Sound, TypeOK, Types, Configuring, At
<1>5. Counted'
  BY <1>1, SameCount DEF Sound, Using
<1> QED
  BY <1>3, <1>4, <1>5, NextTypesOfCount DEF Sound

(* Calls that lose their process are counted until they return. *)
LEMMA OrphanedSound ==
  ASSUME Sound, call' = Orphaned, UNCHANGED users
  PROVE  call' \in [Callers -> Call] /\ Counted' /\ Served' /\ Configuring'
<1>1. \A p \in Callers : call[p] \in Call /\ call'[p] = [call[p] EXCEPT !.live = FALSE]
  BY DEF Orphaned, Sound, TypeOK
<1>2. \A p \in Callers :
        /\ call'[p] \in Call /\ ~call'[p].live /\ call'[p].pc = call[p].pc
        /\ call'[p].op = call[p].op /\ call'[p].values = call[p].values
  <2> SUFFICES ASSUME NEW p \in Callers, NEW c, c = [call[p] EXCEPT !.live = FALSE]
               PROVE  /\ c \in Call /\ ~c.live /\ c.pc = call[p].pc
                      /\ c.op = call[p].op /\ c.values = call[p].values
    BY <1>1
  <2> QED
    BY <1>1 DEF Call
<1>3. call' \in [Callers -> Call]
  BY <1>2 DEF Orphaned
<1>4. Served' /\ Configuring'
  BY <1>2 DEF Served, Configuring, Sound, At
<1>5. Counted'
  BY <1>2, SameCount DEF Sound, Using
<1> QED
  BY <1>3, <1>4, <1>5

LEMMA CloseSound ==
  ASSUME Sound, Close PROVE Sound'
<1>1. /\ proc' = NULL /\ stopped' = TRUE /\ call' = Orphaned
      /\ UNCHANGED <<settings, config, meta, users, idle, matches, saves, faults>>
  BY DEF Close
<1>2. call' \in [Callers -> Call] /\ Counted' /\ Served' /\ Configuring'
  BY <1>1, OrphanedSound
<1>3. Types'
  BY <1>1, <1>2 DEF Sound, TypeOK, Types
<1> QED
  BY <1>2, <1>3, NextTypesOfCount DEF Sound

LEMMA DieSound ==
  ASSUME Sound, Die PROVE Sound'
<1>1. /\ proc' = [proc EXCEPT !.alive = FALSE] /\ proc # NULL /\ call' = Orphaned
      /\ faults < MaxFaults /\ faults' = faults + 1
      /\ UNCHANGED <<settings, config, meta, users, idle, matches, stopped, saves>>
  BY DEF Die
<1>2. call' \in [Callers -> Call] /\ Counted' /\ Served' /\ Configuring'
  BY <1>1, OrphanedSound
<1>3. proc' \in Process \cup {NULL}
  BY <1>1 DEF Sound, TypeOK, Process
<1>4. faults' \in 0..MaxFaults
  BY <1>1, BoundAssumption DEF Sound, TypeOK
<1>5. Types'
  BY <1>1, <1>2, <1>3, <1>4 DEF Sound, TypeOK, Types
<1> QED
  BY <1>2, <1>5, NextTypesOfCount DEF Sound

LEMMA TickSound ==
  ASSUME Sound, Tick \/ UNCHANGED vars PROVE Sound'
<1>1. UNCHANGED <<settings, config, proc, meta, users, matches, stopped, call, saves, faults>>
  BY DEF Tick, vars
<1>2. idle' \in 0..IdleTimeout + 1
  BY LimitAssumption DEF Tick, vars, Sound, TypeOK
<1>3. Types'
  BY <1>1, <1>2 DEF Sound, TypeOK, Types
<1>4. Counted'
  BY <1>1, SameCount DEF Sound, Using
<1>5. Served' /\ Configuring'
  BY <1>1 DEF Sound, Served, Configuring, At
<1> QED
  BY <1>3, <1>4, <1>5, NextTypesOfCount DEF Sound

-----------------------------------------------------------------------------
LEMMA SoundNext == Sound /\ [Next]_vars => Sound'
<1> SUFFICES ASSUME Sound, [Next]_vars PROVE Sound'
  OBVIOUS
<1>1. ASSUME NEW p \in Callers, CallStep(p) PROVE Sound'
  BY <1>1, EnterSound, SpawnFailsSound, UseSound, LeaveSound, StoreSound,
     ReadBackSound, SetConfigSound, ClearSound, SetMetaSound DEF CallStep
<1>2. ASSUME NEW p \in Callers, Work(p) PROVE Sound'
  BY <1>2, WorkSound
<1>3. ASSUME NEW p \in Callers, NEW u \in Urls, Ask(p, u) PROVE Sound'
  BY <1>3, AskSound
<1>4. ASSUME NEW a \in Callers, NEW v \in Settings, Save(a, v) PROVE Sound'
  BY <1>4, SaveSound
<1>5. ASSUME Reap \/ Close \/ Die \/ Tick \/ UNCHANGED vars PROVE Sound'
  BY <1>5, ReapSound, CloseSound, DieSound, TickSound
<1> QED
  BY <1>1, <1>2, <1>3, <1>4, <1>5 DEF Next

LEMMA SoundAlways == Spec => []Sound
<1> QED
  BY SoundInit, SoundNext, PTL DEF Spec

(* Every variable keeps its type: the number of calls counted as running, in *)
(* particular, is never negative and never more than the callers there are   *)
(* (managedExternal.running in call).                                        *)
THEOREM TypeCorrect == Spec => []TypeOK
<1>1. Sound => TypeOK
  BY DEF Sound
<1> QED
  BY <1>1, SoundAlways, PTL

(* The reaper never kills the process under a call, however many callers     *)
(* overlap and whatever crashes: the counter it looks at under the lock is   *)
(* the number of calls between their two lock sections (call, reap).         *)
THEOREM NeverKilledInUse == Spec => NotKilledInUse
<1>1. ASSUME Sound, [Next]_vars
      PROVE  [proc # NULL /\ proc' = NULL /\ ~stopped' => \A p \in Callers : ~Using(p)]_vars
  <2> SUFFICES ASSUME proc # NULL, proc' = NULL, ~stopped' PROVE \A p \in Callers : ~Using(p)
    OBVIOUS
  <2>1. ASSUME NEW p \in Callers, CallStep(p) PROVE FALSE
    <3>1. CASE Enter(p)
      BY <3>1 DEF Enter
    <3>2. CASE Use(p) /\ call[p].op = "configure" /\ call[p].live
      <4>1. proc \in Process /\ proc' = [proc EXCEPT !.conf = call[p].values]
            /\ call[p].values \in Settings
        BY <1>1, <3>2 DEF Sound, Served, TypeOK, Use, Configuring, At
      <4> QED
        BY <4>1, NullIsNoProcess DEF Process
    <3>3. CASE Use(p) /\ ~(call[p].op = "configure" /\ call[p].live)
      BY <3>3 DEF Use
    <3> QED
      BY <2>1, <3>1, <3>2, <3>3
         DEF CallStep, SpawnFails, Leave, Store, ReadBack, SetConfig, Clear, SetMeta
  <2>2. CASE Reap
    BY <1>1, <2>2, ZeroIsUnused DEF Reap, Reapable, Sound
  <2>3. CASE Die
    <3>1. proc \in Process /\ proc' = [proc EXCEPT !.alive = FALSE]
      BY <1>1, <2>3 DEF Die, Sound, TypeOK
    <3> QED
      BY <3>1, NullIsNoProcess DEF Process
  <2>4. ASSUME NEW p \in Callers,
               Work(p) \/ (\E u \in Urls : Ask(p, u)) \/ (\E v \in Settings : Save(p, v))
        PROVE  FALSE
    BY <2>4 DEF Work, Ask, Save
  <2>5. CASE Close \/ Tick \/ UNCHANGED vars
    BY <2>5 DEF Close, Tick, vars
  <2> QED
    BY <1>1, <2>1, <2>2, <2>3, <2>4, <2>5 DEF Next
<1> QED
  BY <1>1, SoundAlways, PTL DEF Spec, NotKilledInUse

-----------------------------------------------------------------------------
(* Configured, when one admin saves at a time. *)

OneAdmin == \E a \in Callers : Admins = {a}

Running == proc # NULL /\ proc.alive
Told == Running => proc.conf = config
Known == Running => proc.conf = config /\ meta = config

(* What a save has brought about, at each of its steps. *)
Step(a) ==
  /\ ~At(a, "readBack") /\ ~At(a, "setConfig") => config = settings
  /\ ~At(a, "idle") /\ ~At(a, "readBack") => call[a].values = settings
  /\ call[a].described => call[a].pc \in {"leave", "clear", "setMeta"}
  /\ At(a, "idle") \/ (At(a, "using") /\ ~call[a].live) => Known
  /\ call[a].pc \in {"leave", "clear", "setMeta"} => Told
  /\ call[a].pc \in {"leave", "clear"} /\ ~call[a].described => Known
  /\ At(a, "setMeta") => call[a].described
  /\ ~At(a, "store")

Pushed == \A a \in Admins : Step(a)

LEMMA PushedInit == OneAdmin /\ Init => Pushed
  BY CallersAssumption, IdleCall DEF OneAdmin, Init, Pushed, Step, At, Known, Told, Running, NoCall, Callers

(* What anybody else does leaves the save where it is: the process it finds *)
(* is the same, is gone, or is new and was told the remembered values.      *)
LEMMA Bystander ==
  ASSUME Sound, Pushed, UNCHANGED <<settings, config>>,
         \/ UNCHANGED <<proc, meta>>
         \/ ~Running'
         \/ proc'.conf = config /\ meta' = config,
         \A a \in Admins :
           /\ call'[a].pc = call[a].pc /\ call'[a].values = call[a].values
           /\ call'[a].described = call[a].described
           /\ call'[a].live = call[a].live \/ ~Running'
  PROVE  Pushed'
<1> SUFFICES ASSUME NEW a \in Admins PROVE Step(a)'
  BY DEF Pushed
<1>1. Step(a)
  BY DEF Pushed
<1>2. (Known => Known') /\ (Told => Told')
  BY DEF Known, Told, Running
<1>3. ~Running' => Known' /\ Told'
  BY DEF Known, Told, Running
<1> QED
  BY <1>1, <1>2, <1>3 DEF Step, At

(* A step of another caller leaves the admin's call alone. *)
LEMMA OthersAlone ==
  ASSUME Sound, NEW p \in Callers, p \notin Admins, NEW c, call' = [call EXCEPT ![p] = c]
  PROVE  \A a \in Admins : call'[a] = call[a]
  BY DEF Sound, TypeOK

LEMMA PushedReader ==
  ASSUME Sound, Pushed, NEW p \in Callers, p \notin Admins,
         CallStep(p) \/ Work(p) \/ (\E u \in Urls : Ask(p, u))
  PROVE  Pushed'
<1>1. call[p].op # "configure" /\ call[p].pc \notin {"readBack", "setConfig", "clear", "setMeta"}
  BY DEF Sound, Configuring
<1>2. \E c : call' = [call EXCEPT ![p] = c]
  <2>1. ASSUME Return(p) PROVE \E c : call' = [call EXCEPT ![p] = c]
    BY <2>1 DEF Return, Goto, Finish
  <2> QED
    BY <1>1, <2>1 DEF CallStep, Enter, SpawnFails, Use, Leave, Store, ReadBack, SetConfig,
                      Clear, SetMeta, Work, Ask, At, Finish
<1>3. \A a \in Admins : call'[a] = call[a]
  BY <1>2, OthersAlone
<1>4. UNCHANGED <<settings, config>>
  BY <1>1 DEF CallStep, Enter, SpawnFails, Use, Leave, Store, ReadBack, SetConfig,
              Clear, SetMeta, Work, Ask, At
<1>5. UNCHANGED <<proc, meta>> \/ (proc'.conf = config /\ meta' = config)
  <2>1. CASE Enter(p)
    BY <2>1 DEF Enter, Spawned
  <2>2. CASE ~Enter(p)
    BY <1>1, <2>2 DEF CallStep, SpawnFails, Use, Leave, Store, ReadBack, SetConfig,
                      Clear, SetMeta, Work, Ask, At
  <2> QED
    BY <2>1, <2>2
<1> QED
  BY <1>3, <1>4, <1>5, Bystander

LEMMA PushedProcess ==
  ASSUME Sound, Pushed, Reap \/ Close \/ Die \/ Tick \/ UNCHANGED vars
  PROVE  Pushed'
<1>1. CASE Reap
  BY <1>1, Bystander DEF Reap, Running
<1>2. ASSUME call' = Orphaned, ~Running', UNCHANGED <<settings, config>> PROVE Pushed'
  <2>1. \A a \in Admins :
          /\ call[a] \in Call /\ a \in Callers
          /\ call'[a] = [call[a] EXCEPT !.live = FALSE]
    BY <1>2 DEF Orphaned, Sound, TypeOK, Callers
  <2>2. \A a \in Admins :
          /\ call'[a].pc = call[a].pc /\ call'[a].values = call[a].values
          /\ call'[a].described = call[a].described
    <3> SUFFICES ASSUME NEW a \in Admins, NEW c, c = [call[a] EXCEPT !.live = FALSE]
                 PROVE  /\ c.pc = call[a].pc /\ c.values = call[a].values
                        /\ c.described = call[a].described
      BY <2>1
    <3> QED
      BY <2>1 DEF Call
  <2> QED
    BY <1>2, <2>2, Bystander
<1>3. CASE Close
  BY <1>2, <1>3 DEF Close, Running
<1>4. CASE Die
  <2>1. proc \in Process /\ proc' = [proc EXCEPT !.alive = FALSE]
    BY <1>4 DEF Die, Sound, TypeOK
  <2>2. ~Running'
    BY <2>1 DEF Process, Running
  <2> QED
    BY <1>2, <1>4, <2>2 DEF Die
<1>5. CASE Tick \/ UNCHANGED vars
  BY <1>5, Bystander DEF Tick, vars
<1> QED
  BY <1>1, <1>3, <1>4, <1>5

(* The save itself, step by step. *)
LEMMA PushedSave ==
  ASSUME Sound, NEW p \in Callers, Admins = {p}, Step(p),
         CallStep(p) \/ (\E v \in Settings : Save(p, v))
  PROVE  Step(p)'
<1>1. call \in [Callers -> Call] /\ call[p] \in Call
  BY DEF Sound, TypeOK
<1>2. At(p, "idle") \/ call[p].op = "configure"
  BY DEF Sound, Configuring
<1>3. ASSUME NEW c, call' = [call EXCEPT ![p] = c] PROVE call'[p] = c
  BY <1>1, <1>3
<1>4. CASE \E v \in Settings : Save(p, v)
  <2> DEFINE c == [NoCall EXCEPT !.op = "configure", !.pc = "readBack"]
  <2>1. call'[p] = c
    BY <1>3, <1>4 DEF Save
  <2>2. c.pc = "readBack" /\ ~c.described
    BY DEF NoCall
  <2> HIDE DEF c
  <2> QED
    BY <2>1, <2>2 DEF Step, At
<1>5. CASE ReadBack(p)
  <2> DEFINE c == [call[p] EXCEPT !.pc = "setConfig", !.values = settings]
  <2>0. call' = [call EXCEPT ![p] = c]
    BY <1>1, <1>5 DEF ReadBack
  <2>1. call'[p] = c /\ settings' = settings /\ ~call[p].described
    BY <1>3, <1>5, <2>0 DEF ReadBack, Step, At
  <2>2. c.pc = "setConfig" /\ c.values = settings /\ c.described = call[p].described
    BY <1>1 DEF Call
  <2> HIDE DEF c
  <2> QED
    BY <2>1, <2>2 DEF Step, At
<1>6. CASE SetConfig(p)
  <2> DEFINE c == [call[p] EXCEPT !.pc = "enter"]
  <2>1. /\ call'[p] = c /\ settings' = settings /\ ~call[p].described
        /\ config' = settings /\ call[p].values = settings
    BY <1>3, <1>6 DEF SetConfig, Goto, Step, At
  <2>2. c.pc = "enter" /\ c.values = call[p].values /\ c.described = call[p].described
    BY <1>1 DEF Call
  <2> HIDE DEF c
  <2> QED
    BY <2>1, <2>2 DEF Step, At
<1>7. CASE Enter(p)
  <2> DEFINE c == [call[p] EXCEPT !.pc = "using", !.live = proc'.alive]
  <2>0. call' = [call EXCEPT ![p] = c]
    BY <1>1, <1>7 DEF Enter
  <2>1. /\ call'[p] = c /\ UNCHANGED <<settings, config>> /\ ~call[p].described
        /\ config = settings /\ call[p].values = settings
    BY <1>3, <1>7, <2>0 DEF Enter, Step, At
  <2>2. /\ c.pc = "using" /\ c.values = call[p].values /\ c.described = call[p].described
        /\ c.live = proc'.alive
    BY <1>1 DEF Call
  <2>3. ~proc'.alive => Known'
    BY DEF Known, Running
  <2> HIDE DEF c
  <2> QED
    BY <2>1, <2>2, <2>3 DEF Step, At
<1>8. CASE Use(p)
  <2> DEFINE c == [call[p] EXCEPT !.pc = "leave", !.live = FALSE,
                     !.described = call[p].live /\ call[p].op = "configure",
                     !.answer = IF call[p].live /\ call[p].url \in Claims[proc.conf]
                                THEN "yes" ELSE "no"]
  <2>0. call' = [call EXCEPT ![p] = c]
    BY <1>1, <1>8 DEF Use
  <2>1. /\ call'[p] = c /\ UNCHANGED <<settings, config, meta>>
        /\ config = settings /\ call[p].values = settings /\ call[p].op = "configure"
    BY <1>2, <1>3, <1>8, <2>0 DEF Use, Step, At
  <2>2. /\ c.pc = "leave" /\ c.values = call[p].values
        /\ c.described = (call[p].live /\ call[p].op = "configure")
    BY <1>1 DEF Call
  <2>3. call[p].live => Told'
    <3> SUFFICES ASSUME call[p].live PROVE proc'.conf = config'
      BY DEF Told
    <3>1. proc \in Process /\ proc' = [proc EXCEPT !.conf = call[p].values]
      BY <1>8, <2>1 DEF Use, Sound, Served, TypeOK
    <3> QED
      BY <2>1, <3>1 DEF Process
  <2>4. ~call[p].live => Known' /\ Told'
    <3>1. ~call[p].live => Known /\ UNCHANGED <<proc, meta, config>>
      BY <1>8 DEF Use, Step, At
    <3> QED
      BY <3>1 DEF Known, Told, Running
  <2> HIDE DEF c
  <2> QED
    BY <2>1, <2>2, <2>3, <2>4 DEF Step, At
<1>9. ASSUME ~call[p].described => Known, Told, config = settings, call[p].values = settings,
             Goto(p, "clear"), UNCHANGED <<settings, config, proc, meta>>
      PROVE  Step(p)'
  <2> DEFINE c == [call[p] EXCEPT !.pc = "clear"]
  <2>1. call'[p] = c
    BY <1>3, <1>9 DEF Goto
  <2>2. c.pc = "clear" /\ c.values = call[p].values /\ c.described = call[p].described
    BY <1>1 DEF Call
  <2>3. (~call[p].described => Known') /\ Told'
    BY <1>9 DEF Known, Told, Running
  <2> HIDE DEF c
  <2> QED
    BY <1>9, <2>1, <2>2, <2>3 DEF Step, At
<1>10. CASE SpawnFails(p) \/ Leave(p)
  <2>1. Goto(p, "clear") /\ UNCHANGED <<settings, config, proc, meta>>
    BY <1>2, <1>10 DEF SpawnFails, Leave, Return, At
  <2>2. config = settings /\ call[p].values = settings
    BY <1>10 DEF SpawnFails, Leave, Step, At
  <2>3. (~call[p].described => Known) /\ Told
    BY <1>10 DEF SpawnFails, Leave, Step, At, Known, Told, Running
  <2> QED
    BY <1>9, <2>1, <2>2, <2>3
<1>11. ASSUME Finish(p), Known', config' = settings' PROVE Step(p)'
  <2>1. call'[p] = NoCall /\ NoCall.pc = "idle" /\ ~NoCall.described
    BY <1>3, <1>11 DEF Finish, NoCall
  <2> QED
    BY <1>11, <2>1 DEF Step, At
<1>12. CASE Clear(p)
  <2>1. /\ UNCHANGED <<settings, config, proc, meta>> /\ config = settings
        /\ call[p].values = settings /\ Told /\ (~call[p].described => Known)
    BY <1>12 DEF Clear, Step, At
  <2>2. CASE ~call[p].described
    BY <1>11, <1>12, <2>1, <2>2 DEF Clear, Known, Running
  <2>3. CASE call[p].described
    <3> DEFINE c == [call[p] EXCEPT !.pc = "setMeta"]
    <3>1. call'[p] = c
      BY <1>3, <1>12, <2>3 DEF Clear, Goto
    <3>2. c.pc = "setMeta" /\ c.values = call[p].values /\ c.described = call[p].described
      BY <1>1 DEF Call
    <3>3. Told'
      BY <2>1 DEF Told, Running
    <3> HIDE DEF c
    <3> QED
      BY <2>1, <2>3, <3>1, <3>2, <3>3 DEF Step, At
  <2> QED
    BY <2>2, <2>3
<1>13. CASE SetMeta(p)
  <2>1. /\ UNCHANGED <<settings, config, proc>> /\ Finish(p) /\ config = settings
        /\ meta' = config /\ Told
    BY <1>13 DEF SetMeta, Step, At
  <2> QED
    BY <1>11, <2>1 DEF Known, Told, Running
<1>14. CASE Store(p)
  BY <1>14 DEF Store, Step
<1> QED
  BY <1>4, <1>5, <1>6, <1>7, <1>8, <1>10, <1>12, <1>13, <1>14 DEF CallStep

LEMMA PushedNext == OneAdmin /\ Sound /\ Pushed /\ [Next]_vars => Pushed'
<1> SUFFICES ASSUME OneAdmin, Sound, Pushed, [Next]_vars PROVE Pushed'
  OBVIOUS
<1>1. ASSUME NEW p \in Admins, p \in Callers,
             CallStep(p) \/ (\E v \in Settings : Save(p, v))
      PROVE  Pushed'
  <2>1. Admins = {p}
    BY <1>1 DEF OneAdmin
  <2> QED
    BY <1>1, <2>1, PushedSave DEF Pushed
<1>2. ASSUME NEW p \in Callers, p \notin Admins,
             CallStep(p) \/ Work(p) \/ (\E u \in Urls : Ask(p, u))
      PROVE  Pushed'
  BY <1>2, PushedReader
<1>3. ASSUME Reap \/ Close \/ Die \/ Tick \/ UNCHANGED vars PROVE Pushed'
  BY <1>3, PushedProcess
<1>4. \A p \in Callers : Work(p) \/ (\E u \in Urls : Ask(p, u)) => p \notin Admins
  BY CallersAssumption DEF Work, Ask
<1>5. \A p \in Callers : (\E v \in Settings : Save(p, v)) => p \in Admins
  BY DEF Save
<1> QED
  BY <1>1, <1>2, <1>3, <1>4, <1>5 DEF Next

(* When admins save one at a time, a running plugin works and is described   *)
(* under the stored settings as soon as no save is in progress, whoever      *)
(* started or restarted the process meanwhile (Configure remembers the       *)
(* values before it pushes them, and spawnLocked starts from the remembered).*)
THEOREM ConfiguredAlways == OneAdmin => (Spec => []Configured)
<1> SUFFICES ASSUME OneAdmin PROVE Spec => []Configured
  OBVIOUS
<1>1. Init => Sound /\ Pushed
  BY SoundInit, PushedInit
<1>2. Sound /\ Pushed /\ [Next]_vars => Sound' /\ Pushed'
  BY SoundNext, PushedNext
<1>3. Sound /\ Pushed => Configured
  <2> SUFFICES ASSUME Sound, Pushed, ~Saving, Running
               PROVE  config = settings /\ proc.conf = config /\ meta = config
    BY DEF Configured, Running
  <2>1. PICK a \in Callers : Admins = {a}
    BY DEF OneAdmin
  <2>2. At(a, "idle") /\ Step(a)
    BY <2>1 DEF Saving, Pushed, At
  <2> QED
    BY <2>2 DEF Step, At, Known
<1> QED
  BY <1>1, <1>2, <1>3, PTL DEF Spec
=============================================================================
