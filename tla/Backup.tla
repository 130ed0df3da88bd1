-------------------------------- MODULE Backup --------------------------------
(***************************************************************************)
(* Snapshots, retention and restore: the runner (internal/backup), the      *)
(* `nanoflux backup` and `nanoflux restore` commands (internal/cli), and    *)
(* the database file and file store they work on, with a crash between any  *)
(* two file operations.                                                     *)
(*                                                                          *)
(* A database is known by its version, the number of its last commit; 0 is  *)
(* the empty one that opening a missing file creates.  The file store is    *)
(* known by the version that last changed it.  A restore is run with the    *)
(* server stopped, as `make restore` does.                                  *)
(***************************************************************************)
EXTENDS Naturals, FiniteSets

CONSTANTS
  Keep,        \* NF_BACKUP_KEEP
  MaxCommits,  \* bound: commits of the server
  MaxClock,    \* bound: seconds
  MaxBacks,    \* bound: times the wall clock is set back
  MaxCrashes,  \* bound: crashes
  MaxFailures, \* bound: restores that fail
  NULL         \* no file

ASSUME KeepAssumption == Keep \in Nat \ {0}
ASSUME BoundAssumption ==
  MaxCommits \in Nat \ {0} /\ MaxClock \in Nat /\ MaxBacks \in Nat
  /\ MaxCrashes \in Nat /\ MaxFailures \in Nat

Stamps == 0..MaxClock     \* an archive's name is the second it was begun
Versions == 0..MaxCommits

VARIABLES
  main,      \* the file NF_DB names
  wal,       \* its -wal sidecar, with commits not in the file yet
  fresh,     \* its .new sibling, the copy of a restore
  aside,     \* its .old sibling
  files,     \* the file store's version; NULL while it is emptied or refilled
  archives,  \* the archive of each name at the destination
  server,    \* "up" or "down"
  commits,   \* the last commit's number
  runner,    \* the snapshot that holds runMu
  last,      \* Status.LastArchive, in memory
  manual,    \* the name `nanoflux backup` is writing, or NULL
  restore,   \* the restore command
  clock, backs, crashes, failures,
  made       \* observer: an archive was finished once

disk == <<main, wal, fresh, aside, files>>
bounds == <<clock, backs, crashes, failures>>
vars == <<main, wal, fresh, aside, files, archives, server, commits, runner,
          last, manual, restore, clock, backs, crashes, failures, made>>

(* A database file: complete or cut short by a crash. *)
File == [ver : Versions, whole : BOOLEAN]
(* A WAL holds the commits made since its database was at version base. *)
Wal == [base : Versions, ver : Versions]
Archive == [db : Versions, files : Versions \cup {NULL}, whole : BOOLEAN]

ASSUME NullAssumption == NULL \notin Nat \cup File \cup Wal \cup Archive

Runner == [pc : {"idle", "vacuumed", "packed", "temp", "put", "prune"},
           name : Stamps, db : Versions, files : Versions \cup {NULL}, doomed : SUBSET Stamps]
NoRun == [pc |-> "idle", name |-> 0, db |-> 0, files |-> 0, doomed |-> {}]

(* held: commits the command's own connection keeps of a WAL it unlinked. *)
Restore == [pc : {"idle", "opened", "walGone", "copying", "copied", "oldGone",
                  "moved", "swapped", "dbDone", "emptied"},
            from : Stamps, held : Versions \cup {NULL}]
NoRestore == [pc |-> "idle", from |-> 0, held |-> NULL]

Committed == IF wal = NULL THEN main.ver ELSE wal.ver

Init ==
  /\ main = [ver |-> 1, whole |-> TRUE]
  /\ wal = NULL
  /\ fresh = NULL
  /\ aside = NULL
  /\ files = 1
  /\ archives = [s \in Stamps |-> NULL]
  /\ server = "up"
  /\ commits = 1
  /\ runner = NoRun
  /\ last = NULL
  /\ manual = NULL
  /\ restore = NoRestore
  /\ clock = 0
  /\ backs = 0
  /\ crashes = 0
  /\ failures = 0
  /\ made = FALSE

-----------------------------------------------------------------------------
(* The server and its database. *)

(* db.Open and Migrate: a missing database is created empty. *)
Start ==
  /\ server = "down" /\ restore.pc = "idle"
  /\ server' = "up"
  /\ main' = IF main = NULL THEN [ver |-> 0, whole |-> TRUE] ELSE main
  /\ UNCHANGED <<wal, fresh, aside, files, archives, commits, runner, last,
                 manual, restore, bounds, made>>

(* A transaction; an avatar or icon upload writes the file store first. *)
Commit ==
  /\ server = "up"
  /\ commits < MaxCommits
  /\ commits' = commits + 1
  /\ wal' = [base |-> main.ver, ver |-> commits + 1]
  /\ files' \in {files, IF files = NULL THEN NULL ELSE commits + 1}
  /\ UNCHANGED <<main, fresh, aside, archives, server, runner, last, manual,
                 restore, bounds, made>>

Checkpointed == IF wal = NULL THEN main ELSE [main EXCEPT !.ver = wal.ver]

Checkpoint ==
  /\ server = "up" /\ wal # NULL
  /\ main' = Checkpointed
  /\ wal' = NULL
  /\ UNCHANGED <<fresh, aside, files, archives, server, commits, runner, last,
                 manual, restore, bounds, made>>

(* A clean stop: the last connection checkpoints and removes the WAL. *)
Stop ==
  /\ server = "up"
  /\ server' = "down"
  /\ main' = Checkpointed
  /\ wal' = NULL
  /\ runner' = NoRun
  /\ last' = NULL
  /\ UNCHANGED <<fresh, aside, files, archives, commits, manual, restore, bounds, made>>

(* Power is lost: every process stops where it is. *)
Crash ==
  /\ crashes < MaxCrashes
  /\ crashes' = crashes + 1
  /\ server' = "down"
  /\ runner' = NoRun
  /\ last' = NULL
  /\ manual' = NULL
  /\ restore' = NoRestore
  /\ UNCHANGED <<disk, archives, commits, clock, backs, failures, made>>

-----------------------------------------------------------------------------
(* Runner.Snapshot, scheduled or manual: runMu lets one run at a time. *)
RunnerStep(from, to) ==
  /\ server = "up" /\ runner.pc = from
  /\ runner' = to
  /\ UNCHANGED <<disk, server, commits, manual, restore, bounds>>

(* The name is fixed, then VACUUM INTO copies the committed database. *)
Vacuum ==
  /\ RunnerStep("idle", [NoRun EXCEPT !.pc = "vacuumed", !.name = clock, !.db = Committed])
  /\ UNCHANGED <<archives, last, made>>

(* The file store is walked after the database was copied. *)
Pack ==
  /\ RunnerStep("vacuumed", [runner EXCEPT !.pc = "packed", !.files = files])
  /\ UNCHANGED <<archives, last, made>>

(* Any stage fails: recorded, LastArchive with it, and the run is over. *)
SnapshotFails ==
  /\ runner.pc \in {"vacuumed", "packed", "temp"}
  /\ RunnerStep(runner.pc, NoRun)
  /\ last' = NULL
  /\ UNCHANGED <<archives, made>>

(* Mutated form of Packed: the file store is left out. *)
PackedBare(whole) == [db |-> runner.db, whole |-> whole]

Packed(whole) == [db |-> runner.db, files |-> runner.files, whole |-> whole]

(* Mutated form of PutTemp: the archive is written under its own name. *)
PutTempInPlace ==
  /\ RunnerStep("packed", [runner EXCEPT !.pc = "temp"])
  /\ archives' = [archives EXCEPT ![runner.name] = Packed(FALSE)]
  /\ UNCHANGED <<last, made>>

(* LocalDestination.Put: a hidden sibling that List does not report. *)
PutTemp ==
  /\ RunnerStep("packed", [runner EXCEPT !.pc = "temp"])
  /\ UNCHANGED <<archives, last, made>>

PutRename ==
  /\ RunnerStep("temp", [NoRun EXCEPT !.pc = "put"])
  /\ archives' = [archives EXCEPT ![runner.name] = Packed(TRUE)]
  /\ last' = runner.name
  /\ made' = TRUE

Listed == {s \in Stamps : archives[s] # NULL}

(* The archives beyond the Keep newest names. *)
Beyond == {s \in Listed : Cardinality({t \in Listed : t > s}) >= Keep}

(* Prune lists once, then deletes newest first. *)
ListArchives ==
  /\ RunnerStep("put", [runner EXCEPT !.pc = "prune", !.doomed = Beyond])
  /\ UNCHANGED <<archives, last, made>>

PruneOne(s) ==
  /\ s \in runner.doomed /\ \A t \in runner.doomed : t <= s
  /\ RunnerStep("prune", [runner EXCEPT !.doomed = @ \ {s}])
  /\ archives' = [archives EXCEPT ![s] = NULL]
  /\ UNCHANGED <<last, made>>

(* All deleted, or a list or delete failed: the rest is left to the next run. *)
PruneEnds ==
  /\ runner.pc \in {"put", "prune"}
  /\ RunnerStep(runner.pc, NoRun)
  /\ UNCHANGED <<archives, last, made>>

(* `nanoflux backup` writes under the final name, in the same directory     *)
(* (docker-compose.yml), and not in a second that already named an archive. *)
ManualBegin ==
  /\ manual = NULL /\ restore.pc = "idle" /\ main # NULL
  /\ archives[clock] = NULL
  /\ manual' = clock
  /\ archives' = [archives EXCEPT ![clock] =
                    [db |-> Committed, files |-> 0, whole |-> FALSE]]
  /\ UNCHANGED <<disk, server, commits, runner, last, restore, bounds, made>>

(* It was overwritten or pruned meanwhile, or it is complete. *)
ManualEnd ==
  /\ manual # NULL
  /\ manual' = NULL
  /\ IF archives[manual] # NULL /\ ~archives[manual].whole
     THEN /\ archives' = [archives EXCEPT ![manual].files = files, ![manual].whole = TRUE]
          /\ made' = TRUE
     ELSE UNCHANGED <<archives, made>>
  /\ UNCHANGED <<disk, server, commits, runner, last, restore, bounds>>

-----------------------------------------------------------------------------
(* restoreCmd. *)
RestoreStep(from, to) ==
  /\ restore.pc = from
  /\ restore' = [restore EXCEPT !.pc = to]
  /\ UNCHANGED <<archives, server, commits, runner, last, manual, bounds, made>>

(* The command opens the database, as every command does, and validates an  *)
(* archive (one that holds something); a missing database is created.       *)
OpenRestore(s) ==
  /\ server = "down" /\ restore.pc = "idle" /\ manual = NULL
  /\ archives[s] # NULL /\ archives[s].whole /\ archives[s].db > 0
  /\ main' = IF main = NULL THEN [ver |-> 0, whole |-> TRUE] ELSE main
  /\ restore' = [pc |-> "opened", from |-> s, held |-> NULL]
  /\ UNCHANGED <<wal, fresh, aside, files, archives, server, commits, runner,
                 last, manual, bounds, made>>

(* Mutated form of RemoveWal: the sidecar is left in place. *)
KeepWal == RestoreStep("opened", "walGone") /\ UNCHANGED disk

RemoveWal ==
  /\ restore.pc = "opened"
  /\ restore' = [restore EXCEPT !.pc = "walGone",
                                !.held = IF wal = NULL THEN NULL ELSE wal.ver]
  /\ wal' = NULL
  /\ UNCHANGED <<main, fresh, aside, files, archives, server, commits, runner,
                 last, manual, bounds, made>>

(* The copy beside the database: removed, created, filled. *)
BeginCopy ==
  /\ RestoreStep("walGone", "copying")
  /\ fresh' = [ver |-> archives[restore.from].db, whole |-> FALSE]
  /\ UNCHANGED <<main, wal, aside, files>>

EndCopy ==
  /\ RestoreStep("copying", "copied")
  /\ fresh' = [fresh EXCEPT !.whole = TRUE]
  /\ UNCHANGED <<main, wal, aside, files>>

RemoveOld ==
  /\ RestoreStep("copied", "oldGone")
  /\ aside' = NULL
  /\ UNCHANGED <<main, wal, fresh, files>>

(* Mutated form of RenameAway: the database is deleted, not kept aside. *)
DeleteMain ==
  /\ RestoreStep("oldGone", "moved")
  /\ main' = NULL
  /\ UNCHANGED <<wal, fresh, aside, files>>

RenameAway ==
  /\ RestoreStep("oldGone", "moved")
  /\ aside' = main
  /\ main' = NULL
  /\ UNCHANGED <<wal, fresh, files>>

RenameIn ==
  /\ RestoreStep("moved", "swapped")
  /\ main' = fresh
  /\ fresh' = NULL
  /\ UNCHANGED <<wal, aside, files>>

DropOld ==
  /\ RestoreStep("swapped", "dbDone")
  /\ aside' = NULL
  /\ UNCHANGED <<main, wal, fresh, files>>

(* swapDir: every entry is removed, then the archive's are copied. *)
Empty ==
  /\ RestoreStep("dbDone", "emptied")
  /\ files' = NULL
  /\ UNCHANGED <<main, wal, fresh, aside>>

(* Mutated form of Refill: the archive's file store is not copied. *)
RefillNone ==
  /\ restore.pc = "emptied"
  /\ restore' = NoRestore
  /\ UNCHANGED <<disk, archives, server, commits, runner, last, manual, bounds, made>>

Refill ==
  /\ restore.pc = "emptied"
  /\ files' = archives[restore.from].files
  /\ restore' = NoRestore
  /\ UNCHANGED <<main, wal, fresh, aside, archives, server, commits, runner,
                 last, manual, bounds, made>>

(* Closing the command's connection puts the commits it held back into the *)
(* database, when that is still the file it opened.                        *)
Closed(file) ==
  IF restore.held = NULL THEN file ELSE [file EXCEPT !.ver = restore.held]

(* What a failing step leaves at the database's path. *)
PutBack == IF restore.pc = "moved" THEN aside ELSE main

(* A file operation fails.  Before the swap the old database is put back;   *)
(* after it only the file store is left as it is.                           *)
RestoreFails ==
  /\ failures < MaxFailures
  /\ failures' = failures + 1
  /\ restore.pc \in {"walGone", "copying", "oldGone", "moved", "dbDone", "emptied"}
  /\ IF restore.pc \in {"dbDone", "emptied"}
     THEN /\ files' \in {files, NULL}
          /\ UNCHANGED <<main, fresh, aside>>
     ELSE /\ main' = Closed(PutBack)
          /\ fresh' = IF restore.pc \in {"oldGone", "moved"} THEN NULL ELSE fresh
          /\ aside' = IF restore.pc = "moved" THEN NULL ELSE aside
          /\ UNCHANGED files
  /\ restore' = NoRestore
  /\ UNCHANGED <<wal, archives, server, commits, runner, last, manual, clock,
                 backs, crashes, made>>

-----------------------------------------------------------------------------
Second ==
  /\ clock < MaxClock
  /\ clock' = clock + 1
  /\ UNCHANGED <<disk, archives, server, commits, runner, last, manual, restore,
                 backs, crashes, failures, made>>

ClockSetBack ==
  /\ clock > 0 /\ backs < MaxBacks
  /\ clock' = clock - 1
  /\ backs' = backs + 1
  /\ UNCHANGED <<disk, archives, server, commits, runner, last, manual, restore,
                 crashes, failures, made>>

ServerStep == Start \/ Commit \/ Checkpoint \/ Stop
SnapshotStep ==
  \/ Vacuum \/ Pack \/ SnapshotFails \/ PutTemp \/ PutRename \/ ListArchives
  \/ \E s \in Stamps : PruneOne(s)
  \/ PruneEnds
ManualStep == ManualBegin \/ ManualEnd
SwapStep ==
  \/ RemoveWal \/ BeginCopy \/ EndCopy \/ RemoveOld \/ RenameAway \/ RenameIn
  \/ DropOld \/ Empty \/ Refill \/ RestoreFails

Next ==
  \/ ServerStep \/ SnapshotStep \/ ManualStep \/ SwapStep
  \/ \E s \in Stamps : OpenRestore(s)
  \/ Crash \/ Second \/ ClockSetBack

Spec == Init /\ [][Next]_vars

-----------------------------------------------------------------------------
(* The type of every variable. *)
TypeOK ==
  /\ main \in File \cup {NULL} /\ fresh \in File \cup {NULL} /\ aside \in File \cup {NULL}
  /\ wal \in Wal \cup {NULL}
  /\ files \in Versions \cup {NULL}
  /\ archives \in [Stamps -> Archive \cup {NULL}]
  /\ server \in {"up", "down"}
  /\ commits \in Versions
  /\ runner \in Runner
  /\ last \in Stamps \cup {NULL} /\ manual \in Stamps \cup {NULL}
  /\ restore \in Restore
  /\ clock \in Stamps /\ backs \in 0..MaxBacks /\ crashes \in 0..MaxCrashes
  /\ failures \in 0..MaxFailures
  /\ made \in BOOLEAN

HoldsData(file) == file # NULL /\ file.whole /\ file.ver > 0

(* Failures at any step of any number of restores, or one crash anywhere,   *)
(* leave a complete database with data on disk (swapDB).  A second fault    *)
(* may not: the restore run after a crash between the two renames starts    *)
(* from an empty database, and removes the .old and .new that hold the data. *)
DataSurvives ==
  crashes = 0 \/ (crashes = 1 /\ failures = 0) =>
    HoldsData(main) \/ HoldsData(fresh) \/ HoldsData(aside)

(* A sidecar only ever lies beside the database its commits were made on:   *)
(* it is never replayed onto a restored one (swapDB).                       *)
WalBelongs == wal # NULL => main # NULL /\ wal.base = main.ver

(* The archive the admin page names is there, unless Keep archives with     *)
(* later names are: a snapshot does not prune itself away.                  *)
LastListed ==
  last # NULL =>
    archives[last] # NULL \/ Cardinality({s \in Listed : s > last}) >= Keep

(* Once an archive was finished one can be restored from, whatever crashed  *)
(* and wherever the clock went, unless Keep unfinished files crowd it out;  *)
(* and the last one is there (Prune, LocalDestination.Put).                 *)
RestorePoint ==
  /\ LastListed
  /\ made /\ Cardinality({s \in Listed : ~archives[s].whole}) < Keep
       => \E s \in Listed : archives[s].whole

(* A restore that reports success leaves the archive's database and files,  *)
(* with nothing to replay; one that fails before its swap leaves the        *)
(* database with every commit it had, those of the removed WAL included     *)
(* (restoreCmd, swapDB).                                                    *)
RestoreAllOrNothing ==
  [][/\ restore.pc = "emptied" /\ restore'.pc = "idle" /\ UNCHANGED <<crashes, failures>> =>
          /\ main' = [ver |-> archives[restore.from].db, whole |-> TRUE]
          /\ files' = archives[restore.from].files
          /\ wal' = NULL
     /\ RestoreFails /\ restore.pc \notin {"dbDone", "emptied"} =>
          /\ main' # NULL
          /\ restore.held # NULL => main'.ver = restore.held]_vars
=============================================================================
