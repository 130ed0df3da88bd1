---------------------------- MODULE Backup_proofs ----------------------------
(***************************************************************************)
(* Proofs about snapshots, retention and restore, for any number of         *)
(* commits, archives, crashes and failures and any clock.                   *)
(***************************************************************************)
EXTENDS Backup, FiniteSetTheorems, TLAPS

(* The archive a restore copies, as a database file. *)
Copy == [ver |-> archives[restore.from].db, whole |-> TRUE]

(* A restore runs alone, from an archive that stays as it is. *)
Alone ==
  restore.pc # "idle" =>
    /\ server = "down" /\ manual = NULL
    /\ archives[restore.from] # NULL
    /\ archives[restore.from].whole /\ archives[restore.from].db > 0

(* Which files there are at each step of a restore, and of which database. *)
Swap ==
  /\ restore.pc \in {"opened", "walGone", "copying", "copied", "oldGone"} => main # NULL
  /\ restore.pc \notin {"idle", "opened"} => wal = NULL
  /\ restore.pc = "copying" => fresh # NULL /\ fresh.ver = Copy.ver
  /\ restore.pc \in {"copied", "oldGone", "moved"} => fresh = Copy
  /\ restore.pc = "moved" => main = NULL /\ aside # NULL
  /\ restore.pc \in {"swapped", "dbDone", "emptied"} => main = Copy

(* A server has its database open. *)
Open == server = "up" => main # NULL

Files == TypeOK /\ Alone /\ Swap /\ Open /\ WalBelongs

LEMMA NoFile == NULL \notin Nat /\ NULL \notin File /\ NULL \notin Wal /\ NULL \notin Archive
  BY NullAssumption

LEMMA FirstVersions == 0 \in Versions /\ 1 \in Versions /\ 0 \in Stamps
  BY BoundAssumption DEF Versions, Stamps

LEMMA EmptyFile == [ver |-> 0, whole |-> TRUE] \in File /\ [ver |-> 1, whole |-> TRUE] \in File
  BY FirstVersions DEF File

LEMMA RunnerIdle == NoRun \in Runner
  BY FirstVersions DEF NoRun, Runner

LEMMA RestoreIdle == NoRestore \in Restore /\ NoRestore.pc = "idle" /\ NoRestore.held = NULL
  BY FirstVersions DEF NoRestore, Restore

LEMMA FilesInit == Init => Files
<1> SUFFICES ASSUME Init PROVE Files
  OBVIOUS
<1>1. /\ main \in File /\ main # NULL
      /\ wal = NULL /\ fresh = NULL /\ aside = NULL /\ files \in Versions
      /\ commits \in Versions /\ clock \in Stamps
  BY NoFile, FirstVersions, EmptyFile DEF Init
<1>2. runner \in Runner
  BY RunnerIdle DEF Init
<1>3. restore \in Restore /\ restore.pc = "idle"
  BY RestoreIdle DEF Init
<1>4. /\ archives \in [Stamps -> Archive \cup {NULL}] /\ server \in {"up", "down"}
      /\ last = NULL /\ manual = NULL /\ made \in BOOLEAN
  BY DEF Init
<1>5. backs \in 0..MaxBacks /\ crashes \in 0..MaxCrashes /\ failures \in 0..MaxFailures
  BY BoundAssumption DEF Init
<1> QED
  BY <1>1, <1>2, <1>3, <1>4, <1>5 DEF Files, TypeOK, Alone, Swap, Open, WalBelongs

-----------------------------------------------------------------------------
(* Steps of the server. *)

LEMMA StartFiles == Files /\ Start => Files'
<1> SUFFICES ASSUME Files, Start PROVE Files'
  OBVIOUS
<1>2. main' \in File /\ main' # NULL
  BY EmptyFile, NoFile DEF Start, Files, TypeOK
<1>3. TypeOK'
  BY <1>2 DEF Start, Files, TypeOK, bounds
<1>4. Alone' /\ Swap' /\ Open'
  BY <1>2 DEF Start, Files, Alone, Swap, Open
<1>5. WalBelongs'
  BY DEF Start, Files, WalBelongs
<1> QED
  BY <1>3, <1>4, <1>5 DEF Files

LEMMA CommitFiles == Files /\ Commit => Files'
<1> SUFFICES ASSUME Files, Commit PROVE Files'
  OBVIOUS
<1>1. main \in File /\ main # NULL
  BY DEF Commit, Files, Open, TypeOK
<1>2. commits + 1 \in Versions /\ main.ver \in Versions
  BY <1>1, BoundAssumption DEF Commit, Files, TypeOK, File, Versions
<1>3. wal' \in Wal /\ wal' # NULL /\ wal'.base = main.ver
  BY <1>2, NoFile DEF Commit, Wal
<1>4. TypeOK'
  BY <1>2, <1>3 DEF Commit, Files, TypeOK, bounds
<1>5. Alone' /\ Swap' /\ Open' /\ WalBelongs'
  BY <1>1, <1>3 DEF Commit, Files, Alone, Swap, Open, WalBelongs
<1> QED
  BY <1>4, <1>5 DEF Files
LEMMA CheckpointedFile ==
  ASSUME Files, main # NULL
  PROVE  Checkpointed \in File /\ Checkpointed # NULL
  BY NoFile DEF Files, TypeOK, Checkpointed, File, Wal

LEMMA CheckpointFiles == Files /\ Checkpoint => Files'
<1> SUFFICES ASSUME Files, Checkpoint PROVE Files'
  OBVIOUS
<1>1. main' \in File /\ main' # NULL /\ wal' = NULL
  BY CheckpointedFile DEF Checkpoint, Files, Open
<1>2. TypeOK'
  BY <1>1 DEF Checkpoint, Files, TypeOK, bounds
<1>3. Alone' /\ Swap' /\ Open' /\ WalBelongs'
  BY <1>1 DEF Checkpoint, Files, Alone, Swap, Open, WalBelongs
<1> QED
  BY <1>2, <1>3 DEF Files

LEMMA StopFiles == Files /\ Stop => Files'
<1> SUFFICES ASSUME Files, Stop PROVE Files'
  OBVIOUS
<1>1. main' \in File /\ main' # NULL /\ wal' = NULL
  BY CheckpointedFile DEF Stop, Files, Open
<1>2. TypeOK'
  BY <1>1, RunnerIdle DEF Stop, Files, TypeOK, bounds
<1>3. Alone' /\ Swap' /\ Open' /\ WalBelongs'
  BY <1>1 DEF Stop, Files, Alone, Swap, Open, WalBelongs
<1> QED
  BY <1>2, <1>3 DEF Files

LEMMA CrashFiles == Files /\ Crash => Files'
<1> SUFFICES ASSUME Files, Crash PROVE Files'
  OBVIOUS
<1>1. TypeOK'
  BY RunnerIdle, RestoreIdle, BoundAssumption DEF Crash, Files, TypeOK, disk
<1>2. Alone' /\ Swap' /\ Open' /\ WalBelongs'
  BY RestoreIdle DEF Crash, Files, Alone, Swap, Open, WalBelongs, disk
<1> QED
  BY <1>1, <1>2 DEF Files

-----------------------------------------------------------------------------
(* Steps of a snapshot and of the backup command: the database is read, and *)
(* archives are written where no restore reads.                             *)

LEMMA ArchiveFiles ==
  ASSUME Files, UNCHANGED <<disk, server, commits, restore, bounds>>,
         restore.pc = "idle",
         runner' \in Runner, last' \in Stamps \cup {NULL}, manual' \in Stamps \cup {NULL},
         made' \in BOOLEAN, archives' \in [Stamps -> Archive \cup {NULL}]
  PROVE  Files'
<1>1. TypeOK'
  BY DEF Files, TypeOK, disk, bounds
<1>2. Alone' /\ Swap' /\ Open' /\ WalBelongs'
  BY DEF Files, Alone, Swap, Open, WalBelongs, disk
<1> QED
  BY <1>1, <1>2 DEF Files

LEMMA CommittedVersion ==
  ASSUME Files, main # NULL
  PROVE  Committed \in Versions
  BY DEF Files, TypeOK, Committed, File, Wal

LEMMA PackedArchive ==
  ASSUME Files, NEW whole \in BOOLEAN
  PROVE  Packed(whole) \in Archive
  BY DEF Files, TypeOK, Packed, Archive, Runner

(* A running server excludes a restore. *)
LEMMA ServerAlone == Files /\ server = "up" => restore.pc = "idle"
  BY DEF Files, Alone

LEMMA SnapshotFiles == Files /\ SnapshotStep => Files'
<1> SUFFICES ASSUME Files, SnapshotStep PROVE Files'
  OBVIOUS
<1>1. /\ restore.pc = "idle" /\ main # NULL
      /\ UNCHANGED <<disk, server, commits, manual, restore, bounds>>
  BY ServerAlone DEF SnapshotStep, Vacuum, Pack, SnapshotFails, PutTemp, PutRename,
     ListArchives, PruneOne, PruneEnds, RunnerStep, Files, Open
<1>2. /\ runner \in Runner /\ archives \in [Stamps -> Archive \cup {NULL}]
      /\ last \in Stamps \cup {NULL} /\ manual' \in Stamps \cup {NULL} /\ made \in BOOLEAN
      /\ clock \in Stamps /\ files \in Versions \cup {NULL}
  BY <1>1 DEF Files, TypeOK
<1>3. CASE Vacuum
  <2>1. runner' = [NoRun EXCEPT !.pc = "vacuumed", !.name = clock, !.db = Committed]
    BY <1>3 DEF Vacuum, RunnerStep
  <2>2. Committed \in Versions /\ NoRun \in Runner
    BY <1>1, CommittedVersion, RunnerIdle
  <2>3. runner' \in Runner
    BY <1>2, <2>1, <2>2 DEF Runner
  <2> QED
    BY <1>1, <1>2, <1>3, <2>3, ArchiveFiles DEF Vacuum
<1>4. CASE Pack
  <2>1. runner' \in Runner
    BY <1>2, <1>4 DEF Pack, RunnerStep, Runner
  <2> QED
    BY <1>1, <1>2, <1>4, <2>1, ArchiveFiles DEF Pack
<1>5. CASE SnapshotFails
  BY <1>1, <1>2, <1>5, RunnerIdle, ArchiveFiles DEF SnapshotFails, RunnerStep
<1>6. CASE PutTemp
  <2>1. runner' \in Runner
    BY <1>2, <1>6 DEF PutTemp, RunnerStep, Runner
  <2> QED
    BY <1>1, <1>2, <1>6, <2>1, ArchiveFiles DEF PutTemp
<1>7. CASE PutRename
  <2>1. runner' \in Runner
    BY <1>7, RunnerIdle DEF PutRename, RunnerStep, Runner
  <2>2. runner.name \in Stamps
    BY <1>2 DEF Runner
  <2>3. archives' \in [Stamps -> Archive \cup {NULL}]
    BY <1>2, <1>7, <2>2, PackedArchive DEF PutRename
  <2> QED
    BY <1>1, <1>2, <1>7, <2>1, <2>2, <2>3, ArchiveFiles DEF PutRename
<1>8. CASE ListArchives
  <2>1. runner' \in Runner
    BY <1>2, <1>8 DEF ListArchives, RunnerStep, Runner, Beyond, Listed
  <2> QED
    BY <1>1, <1>2, <1>8, <2>1, ArchiveFiles DEF ListArchives
<1>9. ASSUME NEW s \in Stamps, PruneOne(s) PROVE Files'
  <2>1. runner' \in Runner
    BY <1>2, <1>9 DEF PruneOne, RunnerStep, Runner
  <2>2. archives' \in [Stamps -> Archive \cup {NULL}]
    BY <1>2, <1>9 DEF PruneOne
  <2> QED
    BY <1>1, <1>2, <1>9, <2>1, <2>2, ArchiveFiles DEF PruneOne
<1>10. CASE PruneEnds
  BY <1>1, <1>2, <1>10, RunnerIdle, ArchiveFiles DEF PruneEnds, RunnerStep
<1> QED
  BY <1>3, <1>4, <1>5, <1>6, <1>7, <1>8, <1>9, <1>10 DEF SnapshotStep

LEMMA ManualFiles == Files /\ ManualStep => Files'
<1> SUFFICES ASSUME Files, ManualStep PROVE Files'
  OBVIOUS
<1>1. /\ restore.pc = "idle"
      /\ UNCHANGED <<disk, server, commits, runner, last, restore, bounds>>
  BY DEF ManualStep, ManualBegin, ManualEnd, Files, Alone
<1>2. /\ runner' \in Runner /\ archives \in [Stamps -> Archive \cup {NULL}]
      /\ last' \in Stamps \cup {NULL} /\ manual \in Stamps \cup {NULL} /\ made \in BOOLEAN
      /\ clock \in Stamps /\ files \in Versions \cup {NULL}
  BY <1>1 DEF Files, TypeOK
<1>3. CASE ManualBegin
  <2>1. [db |-> Committed, files |-> 0, whole |-> FALSE] \in Archive
    BY <1>3, CommittedVersion, FirstVersions DEF ManualBegin, Archive
  <2>2. archives' \in [Stamps -> Archive \cup {NULL}]
    BY <1>2, <1>3, <2>1 DEF ManualBegin
  <2> QED
    BY <1>1, <1>2, <1>3, <2>2, ArchiveFiles DEF ManualBegin
<1>4. CASE ManualEnd
  <2>1. archives' \in [Stamps -> Archive \cup {NULL}] /\ made' \in BOOLEAN
    BY <1>2, <1>4 DEF ManualEnd, Archive
  <2> QED
    BY <1>1, <1>2, <1>4, <2>1, ArchiveFiles DEF ManualEnd
<1> QED
  BY <1>3, <1>4 DEF ManualStep

-----------------------------------------------------------------------------
(* Steps of a restore. *)

LEMMA OpenRestoreFiles == ASSUME Files, NEW s \in Stamps, OpenRestore(s) PROVE Files'
<1>1. main' \in File /\ main' # NULL
  BY EmptyFile, NoFile DEF OpenRestore, Files, TypeOK
<1>2. restore' \in Restore /\ restore'.pc = "opened" /\ restore'.from = s
  BY DEF OpenRestore, Restore
<1>3. TypeOK'
  BY <1>1, <1>2 DEF OpenRestore, Files, TypeOK, bounds
<1>4. Alone' /\ Swap' /\ Open'
  BY <1>1, <1>2 DEF OpenRestore, Files, Alone, Swap, Open
<1>5. WalBelongs'
  BY DEF OpenRestore, Files, WalBelongs
<1> QED
  BY <1>3, <1>4, <1>5 DEF Files

(* What a step of a restore leaves alone, and what remains to be shown. *)
LEMMA SwapFiles ==
  ASSUME Files, restore.pc # "idle",
         UNCHANGED <<archives, server, commits, runner, last, manual, clock, backs, crashes, made>>,
         main' \in File \cup {NULL}, fresh' \in File \cup {NULL}, aside' \in File \cup {NULL},
         wal' \in Wal \cup {NULL}, files' \in Versions \cup {NULL},
         restore' \in Restore, restore'.from = restore.from \/ restore'.pc = "idle",
         failures' \in 0..MaxFailures, Swap', WalBelongs'
  PROVE  Files'
<1>1. TypeOK'
  BY DEF Files, TypeOK
<1>2. Alone' /\ Open'
  BY DEF Files, Alone, Open
<1> QED
  BY <1>1, <1>2 DEF Files

(* The step from one place to the next. *)
LEMMA Stepped ==
  ASSUME Files, NEW from, NEW to, RestoreStep(from, to),
         to \in {"walGone", "copying", "copied", "oldGone", "moved", "swapped", "dbDone", "emptied"},
         from # "idle"
  PROVE  /\ restore' \in Restore /\ restore'.from = restore.from /\ restore'.pc = to
         /\ restore'.held = restore.held /\ Copy' = Copy /\ restore.pc = from
         /\ failures' \in 0..MaxFailures
         /\ UNCHANGED <<archives, server, commits, runner, last, manual, clock, backs, crashes, failures, made>>
<1>1. restore \in Restore
  BY DEF Files, TypeOK
<1>2. restore' = [restore EXCEPT !.pc = to] /\ archives' = archives
  BY DEF RestoreStep
<1>3. restore' \in Restore /\ restore'.from = restore.from /\ restore'.pc = to /\ restore'.held = restore.held
  BY <1>1, <1>2 DEF Restore
<1> QED
  BY <1>2, <1>3 DEF RestoreStep, Copy, Files, TypeOK, bounds

LEMMA FileTypes ==
  Files => /\ main \in File \cup {NULL} /\ fresh \in File \cup {NULL} /\ aside \in File \cup {NULL}
           /\ wal \in Wal \cup {NULL} /\ files \in Versions \cup {NULL}
           /\ failures \in 0..MaxFailures
  BY DEF Files, TypeOK

(* The archive a restore reads, and the file it makes of it. *)
LEMMA CopyFile ==
  ASSUME Files, restore.pc # "idle"
  PROVE  /\ archives[restore.from] \in Archive
         /\ Copy \in File /\ Copy # NULL /\ Copy.ver > 0 /\ Copy.whole
<1>1. archives[restore.from] \in Archive /\ archives[restore.from].db > 0
  BY DEF Files, Alone, TypeOK, Restore
<1>2. Copy \in File
  BY <1>1 DEF Copy, File, Archive
<1> QED
  BY <1>1, <1>2, NoFile DEF Copy

LEMMA RemoveWalFiles == Files /\ RemoveWal => Files'
<1> SUFFICES ASSUME Files, RemoveWal PROVE Files'
  OBVIOUS
<1>1. restore \in Restore /\ wal \in Wal \cup {NULL}
  BY DEF Files, TypeOK
<1>2. restore' \in Restore /\ restore'.from = restore.from /\ restore'.pc = "walGone"
  BY <1>1 DEF RemoveWal, Restore, Wal
<1>3. Swap' /\ WalBelongs'
  BY <1>2 DEF RemoveWal, Files, Swap, WalBelongs
<1> QED
  BY <1>2, <1>3, FileTypes, SwapFiles DEF RemoveWal, bounds

LEMMA BeginCopyFiles == Files /\ BeginCopy => Files'
<1> SUFFICES ASSUME Files, BeginCopy PROVE Files'
  OBVIOUS
<1> DEFINE part == [ver |-> archives[restore.from].db, whole |-> FALSE]
<1>1. restore.pc = "walGone" /\ fresh' = part /\ UNCHANGED <<main, wal, aside, files>>
  BY DEF BeginCopy, RestoreStep
<1>2. archives[restore.from] \in Archive
  BY <1>1, CopyFile
<1>3. part \in File /\ part.ver = Copy.ver
  BY <1>2 DEF File, Archive, Copy
<1>4. RestoreStep("walGone", "copying")
  BY DEF BeginCopy
<1> HIDE DEF part
<1>5. part # NULL
  BY <1>3, NoFile
<1>6. Swap' /\ WalBelongs'
  BY <1>1, <1>3, <1>4, <1>5, Stepped DEF Files, Swap, WalBelongs
<1> QED
  BY <1>1, <1>3, <1>4, <1>6, Stepped, FileTypes, SwapFiles

LEMMA EndCopyFiles == Files /\ EndCopy => Files'
<1> SUFFICES ASSUME Files, EndCopy PROVE Files'
  OBVIOUS
<1>1. RestoreStep("copying", "copied") /\ restore.pc = "copying"
  BY DEF EndCopy, RestoreStep
<1>2. fresh \in File /\ fresh.ver = Copy.ver
  BY <1>1 DEF Files, TypeOK, Swap
<1>3. fresh' = Copy /\ UNCHANGED <<main, wal, aside, files>>
  BY <1>2 DEF EndCopy, Copy, File
<1>4. Swap' /\ WalBelongs'
  BY <1>1, <1>3, Stepped DEF Files, Swap, WalBelongs
<1> QED
  BY <1>1, <1>3, <1>4, CopyFile, Stepped, FileTypes, SwapFiles

LEMMA RemoveOldFiles == Files /\ RemoveOld => Files'
<1> SUFFICES ASSUME Files, RemoveOld PROVE Files'
  OBVIOUS
<1>1. RestoreStep("copied", "oldGone") /\ aside' = NULL /\ UNCHANGED <<main, wal, fresh, files>>
  BY DEF RemoveOld
<1>2. Swap' /\ WalBelongs'
  BY <1>1, Stepped DEF Files, Swap, WalBelongs
<1> QED
  BY <1>1, <1>2, Stepped, FileTypes, SwapFiles

LEMMA RenameAwayFiles == Files /\ RenameAway => Files'
<1> SUFFICES ASSUME Files, RenameAway PROVE Files'
  OBVIOUS
<1>1. /\ RestoreStep("oldGone", "moved") /\ aside' = main /\ main' = NULL
      /\ UNCHANGED <<wal, fresh, files>>
  BY DEF RenameAway
<1>2. Swap' /\ WalBelongs'
  BY <1>1, Stepped DEF Files, Swap, WalBelongs
<1> QED
  BY <1>1, <1>2, Stepped, FileTypes, SwapFiles

LEMMA RenameInFiles == Files /\ RenameIn => Files'
<1> SUFFICES ASSUME Files, RenameIn PROVE Files'
  OBVIOUS
<1>1. /\ RestoreStep("moved", "swapped") /\ main' = fresh /\ fresh' = NULL
      /\ UNCHANGED <<wal, aside, files>>
  BY DEF RenameIn
<1>2. Swap' /\ WalBelongs'
  BY <1>1, Stepped DEF Files, Swap, WalBelongs
<1> QED
  BY <1>1, <1>2, Stepped, FileTypes, SwapFiles

LEMMA DropOldFiles == Files /\ DropOld => Files'
<1> SUFFICES ASSUME Files, DropOld PROVE Files'
  OBVIOUS
<1>1. RestoreStep("swapped", "dbDone") /\ aside' = NULL /\ UNCHANGED <<main, wal, fresh, files>>
  BY DEF DropOld
<1>2. Swap' /\ WalBelongs'
  BY <1>1, Stepped DEF Files, Swap, WalBelongs
<1> QED
  BY <1>1, <1>2, Stepped, FileTypes, SwapFiles

LEMMA EmptyFiles == Files /\ Empty => Files'
<1> SUFFICES ASSUME Files, Empty PROVE Files'
  OBVIOUS
<1>1. RestoreStep("dbDone", "emptied") /\ files' = NULL /\ UNCHANGED <<main, wal, fresh, aside>>
  BY DEF Empty
<1>2. Swap' /\ WalBelongs'
  BY <1>1, Stepped DEF Files, Swap, WalBelongs
<1> QED
  BY <1>1, <1>2, Stepped, FileTypes, SwapFiles

LEMMA RefillFiles == Files /\ Refill => Files'
<1> SUFFICES ASSUME Files, Refill PROVE Files'
  OBVIOUS
<1>1. /\ restore.pc = "emptied" /\ restore' = NoRestore
      /\ UNCHANGED <<main, wal, fresh, aside, archives, server, commits, runner, last, manual, bounds, made>>
  BY DEF Refill
<1>2. files' \in Versions \cup {NULL}
  BY <1>1, CopyFile DEF Refill, Archive
<1>3. Swap' /\ WalBelongs'
  BY <1>1, RestoreIdle DEF Files, Swap, WalBelongs
<1> QED
  BY <1>1, <1>2, <1>3, RestoreIdle, FileTypes, SwapFiles DEF bounds

(* A failed restore leaves a database in its place. *)
LEMMA PutBackFile ==
  ASSUME Files, RestoreFails, restore.pc \notin {"dbDone", "emptied"}
  PROVE  /\ PutBack \in File /\ PutBack # NULL
         /\ main' = Closed(PutBack) /\ main' \in File /\ main' # NULL
         /\ main'.whole = PutBack.whole
         /\ main'.ver = IF restore.held = NULL THEN PutBack.ver ELSE restore.held
<1>1. PutBack \in File /\ PutBack # NULL
  BY NoFile DEF Files, TypeOK, Swap, PutBack, RestoreFails
<1>2. main' = Closed(PutBack) /\ restore.held \in Versions \cup {NULL}
  BY DEF RestoreFails, Files, TypeOK, Restore
<1>3. /\ main' \in File /\ main'.whole = PutBack.whole
      /\ main'.ver = IF restore.held = NULL THEN PutBack.ver ELSE restore.held
  BY <1>1, <1>2 DEF Closed, File
<1> QED
  BY <1>1, <1>2, <1>3, NoFile

LEMMA RestoreFailsFiles == Files /\ RestoreFails => Files'
<1> SUFFICES ASSUME Files, RestoreFails PROVE Files'
  OBVIOUS
<1>1. /\ restore.pc \notin {"idle", "opened"} /\ restore' = NoRestore /\ failures' \in 0..MaxFailures
      /\ UNCHANGED <<wal, archives, server, commits, runner, last, manual, clock, backs, crashes, made>>
  BY BoundAssumption DEF RestoreFails, Files, TypeOK
<1>2. /\ main' \in File \cup {NULL} /\ fresh' \in File \cup {NULL} /\ aside' \in File \cup {NULL}
      /\ files' \in Versions \cup {NULL}
  <2>1. CASE restore.pc \in {"dbDone", "emptied"}
    BY <2>1, FileTypes DEF RestoreFails
  <2>2. CASE restore.pc \notin {"dbDone", "emptied"}
    BY <2>2, FileTypes, PutBackFile DEF RestoreFails
  <2> QED
    BY <2>1, <2>2
<1>3. wal' = NULL
  BY <1>1 DEF Files, Swap
<1>4. Swap' /\ WalBelongs'
  BY <1>1, <1>3, RestoreIdle DEF Swap, WalBelongs
<1> QED
  BY <1>1, <1>2, <1>3, <1>4, RestoreIdle, FileTypes, SwapFiles

LEMMA ClockFiles == Files /\ (Second \/ ClockSetBack) => Files'
<1> SUFFICES ASSUME Files, Second \/ ClockSetBack PROVE Files'
  OBVIOUS
<1>1. clock' \in Stamps /\ backs' \in 0..MaxBacks
  BY BoundAssumption DEF Second, ClockSetBack, Files, TypeOK, Stamps
<1>2. TypeOK'
  BY <1>1 DEF Second, ClockSetBack, Files, TypeOK, disk
<1>3. Alone' /\ Swap' /\ Open' /\ WalBelongs'
  BY DEF Second, ClockSetBack, Files, Alone, Swap, Copy, Open, WalBelongs, disk
<1> QED
  BY <1>2, <1>3 DEF Files

LEMMA FilesStep == Files /\ [Next]_vars => Files'
<1> SUFFICES ASSUME Files, [Next]_vars PROVE Files'
  OBVIOUS
<1>1. CASE ServerStep
  BY <1>1, StartFiles, CommitFiles, CheckpointFiles, StopFiles DEF ServerStep
<1>2. CASE SnapshotStep
  BY <1>2, SnapshotFiles
<1>3. CASE ManualStep
  BY <1>3, ManualFiles
<1>4. CASE SwapStep
  BY <1>4, RemoveWalFiles, BeginCopyFiles, EndCopyFiles, RemoveOldFiles, RenameAwayFiles,
     RenameInFiles, DropOldFiles, EmptyFiles, RefillFiles, RestoreFailsFiles DEF SwapStep
<1>5. CASE \E s \in Stamps : OpenRestore(s)
  BY <1>5, OpenRestoreFiles
<1>6. CASE Crash
  BY <1>6, CrashFiles
<1>7. CASE Second \/ ClockSetBack
  BY <1>7, ClockFiles
<1>8. CASE UNCHANGED vars
  <2>1. TypeOK'
    BY <1>8 DEF Files, TypeOK, vars
  <2>2. Alone' /\ Swap' /\ Open' /\ WalBelongs'
    BY <1>8 DEF Files, Alone, Swap, Copy, Open, WalBelongs, vars
  <2> QED
    BY <2>1, <2>2 DEF Files
<1> QED
  BY <1>1, <1>2, <1>3, <1>4, <1>5, <1>6, <1>7, <1>8 DEF Next

LEMMA FilesAlways == Spec => []Files
  BY FilesInit, FilesStep, PTL DEF Spec

(* Every variable keeps its type; in particular a checkpoint, a snapshot and *)
(* a restore always find the file they work on.                             *)
THEOREM TypeCorrect == Spec => []TypeOK
<1>1. Files => TypeOK
  BY DEF Files
<1> QED
  BY <1>1, FilesAlways, PTL

(* No sidecar is ever replayed onto a database it was not written for       *)
(* (swapDB removes the WAL before it swaps).                                *)
THEOREM WalStaysWithItsDatabase == Spec => []WalBelongs
<1>1. Files => WalBelongs
  BY DEF Files
<1> QED
  BY <1>1, FilesAlways, PTL

(* A restore that reports success has put the archive's database and files  *)
(* in place, and one that fails before its swap has lost no commit.         *)
THEOREM RestoreIsAllOrNothing == Spec => RestoreAllOrNothing
<1> DEFINE Step ==
      /\ restore.pc = "emptied" /\ restore'.pc = "idle" /\ UNCHANGED <<crashes, failures>> =>
           /\ main' = [ver |-> archives[restore.from].db, whole |-> TRUE]
           /\ files' = archives[restore.from].files
           /\ wal' = NULL
      /\ RestoreFails /\ restore.pc \notin {"dbDone", "emptied"} =>
           /\ main' # NULL
           /\ restore.held # NULL => main'.ver = restore.held
<1>1. ASSUME Files, Next, restore.pc = "emptied", restore'.pc = "idle",
             UNCHANGED <<crashes, failures>>
      PROVE  /\ main' = Copy /\ files' = archives[restore.from].files /\ wal' = NULL
  <2>1. server = "down" /\ manual = NULL /\ main = Copy /\ wal = NULL
    BY <1>1 DEF Files, Alone, Swap
  <2>2. crashes \in Nat /\ failures \in Nat
    BY <1>1 DEF Files, TypeOK
  <2>3. Refill
    BY <1>1, <2>1, <2>2 DEF Next, ServerStep, Start, Commit, Checkpoint, Stop, SnapshotStep,
       Vacuum, Pack, SnapshotFails, PutTemp, PutRename, ListArchives, PruneOne, PruneEnds,
       RunnerStep, ManualStep, ManualBegin, ManualEnd, SwapStep, RemoveWal, BeginCopy, EndCopy,
       RemoveOld, RenameAway, RenameIn, DropOld, Empty, RestoreStep, RestoreFails, OpenRestore,
       Crash, Second, ClockSetBack
  <2> QED
    BY <2>1, <2>3 DEF Refill
<1>2. Files /\ RestoreFails /\ restore.pc \notin {"dbDone", "emptied"} =>
        main' # NULL /\ (restore.held # NULL => main'.ver = restore.held)
  BY PutBackFile
<1>3. Files /\ [Next]_vars => [Step]_vars
  BY <1>1, <1>2 DEF Copy
<1> QED
  BY <1>3, FilesAlways, PTL DEF Spec, RestoreAllOrNothing

-----------------------------------------------------------------------------
(* Data on disk.  Until the first crash the database is in place, or aside  *)
(* while a restore moves; after one crash and no failed restore it is in    *)
(* place or aside until the next restore has its copy.                      *)
Held ==
  /\ wal # NULL => wal.ver > 0
  /\ restore.held # NULL => restore.held > 0
  /\ crashes = 0 => IF restore.pc = "moved" THEN HoldsData(aside) ELSE HoldsData(main)
  /\ crashes = 1 /\ failures = 0
     /\ restore.pc \in {"idle", "opened", "walGone", "copying", "copied"}
       => HoldsData(main) \/ HoldsData(aside)

LEMMA HeldInit == Init => Held
<1> SUFFICES ASSUME Init PROVE Held
  OBVIOUS
<1>1. main # NULL
  BY NoFile, EmptyFile DEF Init
<1>2. main.whole /\ main.ver > 0
  BY DEF Init
<1>3. wal = NULL /\ restore.held = NULL /\ restore.pc = "idle" /\ crashes = 0
  BY RestoreIdle DEF Init
<1> QED
  BY <1>1, <1>2, <1>3 DEF Held, HoldsData

(* From its copy on, a restore has the data itself. *)
LEMMA HeldSurvives == Files /\ Held => DataSurvives
<1> SUFFICES ASSUME Files, Held, crashes = 0 \/ (crashes = 1 /\ failures = 0)
             PROVE  HoldsData(main) \/ HoldsData(fresh) \/ HoldsData(aside)
  BY DEF DataSurvives
<1>1. CASE crashes = 0 \/ restore.pc \in {"idle", "opened", "walGone", "copying", "copied"}
  BY <1>1 DEF Held
<1>2. CASE restore.pc \in {"oldGone", "moved", "swapped", "dbDone", "emptied"}
  BY <1>2, CopyFile DEF Files, Swap, HoldsData
<1> QED
  BY <1>1, <1>2 DEF Files, TypeOK, Restore

(* A server step keeps data where it was. *)
LEMMA ServerHeld == Files /\ Held /\ ServerStep => Held'
<1> SUFFICES ASSUME Files, Held, ServerStep PROVE Held'
  OBVIOUS
<1>1. restore.pc = "idle" /\ UNCHANGED <<aside, restore, crashes, failures>>
  BY ServerAlone DEF ServerStep, Start, Commit, Checkpoint, Stop, bounds
<1>2. HoldsData(main) => HoldsData(main')
  <2>1. CASE Start
    BY <2>1 DEF Start, HoldsData
  <2>2. CASE Commit
    BY <2>2 DEF Commit
  <2>3. CASE Checkpoint \/ Stop
    <3>1. main' = Checkpointed
      BY <2>3 DEF Checkpoint, Stop
    <3>2. CASE wal = NULL
      BY <3>1, <3>2 DEF Checkpointed
    <3>3. ASSUME wal # NULL, HoldsData(main) PROVE HoldsData(main')
      <4>1. main \in File /\ wal.ver > 0 /\ main' = [main EXCEPT !.ver = wal.ver]
        BY <3>1, <3>3 DEF Checkpointed, Files, TypeOK, HoldsData, Held
      <4>2. main' \in File /\ main' # NULL
        BY <3>1, <3>3, CheckpointedFile DEF HoldsData
      <4> QED
        BY <3>3, <4>1, <4>2 DEF HoldsData, File
    <3> QED
      BY <3>2, <3>3
  <2> QED
    BY <2>1, <2>2, <2>3 DEF ServerStep
<1>3. wal' # NULL => wal'.ver > 0
  BY DEF ServerStep, Start, Commit, Checkpoint, Stop, Held, Files, TypeOK, Versions
<1> QED
  BY <1>1, <1>2, <1>3 DEF Held, HoldsData

LEMMA SnapshotHeld == Held /\ (SnapshotStep \/ ManualStep \/ Second \/ ClockSetBack) => Held'
<1> SUFFICES ASSUME Held, SnapshotStep \/ ManualStep \/ Second \/ ClockSetBack PROVE Held'
  OBVIOUS
<1>1. UNCHANGED <<main, wal, aside, restore, crashes, failures>>
  BY DEF SnapshotStep, Vacuum, Pack, SnapshotFails, PutTemp, PutRename, ListArchives,
     PruneOne, PruneEnds, RunnerStep, ManualStep, ManualBegin, ManualEnd, Second, ClockSetBack,
     disk, bounds
<1> QED
  BY <1>1 DEF Held, HoldsData

LEMMA CrashHeld == Files /\ Held /\ Crash => Held'
<1> SUFFICES ASSUME Files, Held, Crash PROVE Held'
  OBVIOUS
<1>1. crashes' = crashes + 1 /\ restore' = NoRestore /\ UNCHANGED <<main, wal, aside, failures>>
  BY DEF Crash, disk
<1>2. crashes' # 0 /\ (crashes' = 1 => crashes = 0)
  BY <1>1 DEF Files, TypeOK
<1> QED
  BY <1>1, <1>2, RestoreIdle DEF Held, HoldsData

LEMMA OpenRestoreHeld == ASSUME Files, Held, NEW s \in Stamps, OpenRestore(s) PROVE Held'
<1>1. /\ restore.pc = "idle" /\ restore'.pc = "opened" /\ restore'.held = NULL
      /\ HoldsData(main) => main' = main
      /\ UNCHANGED <<wal, aside, crashes, failures>>
  BY DEF OpenRestore, HoldsData, bounds
<1> QED
  BY <1>1 DEF Held, HoldsData

(* The steps of a restore that move no data. *)
LEMMA PlainHeld ==
  ASSUME Files, Held, RemoveWal \/ BeginCopy \/ EndCopy \/ Empty PROVE Held'
<1>1. UNCHANGED <<main, aside, crashes, failures>>
  BY DEF RemoveWal, BeginCopy, EndCopy, Empty, RestoreStep, bounds
<1>2. restore \in Restore /\ wal \in Wal \cup {NULL}
  BY DEF Files, TypeOK
<1>3. wal' # NULL => wal' = wal
  BY DEF RemoveWal, BeginCopy, EndCopy, Empty
<1>4. restore'.held = restore.held \/ restore'.held = NULL \/ (wal # NULL /\ restore'.held = wal.ver)
  <2>1. CASE RemoveWal
    BY <1>2, <2>1 DEF RemoveWal, Restore
  <2>2. CASE BeginCopy \/ EndCopy \/ Empty
    BY <1>2, <2>2 DEF BeginCopy, EndCopy, Empty, RestoreStep, Restore
  <2> QED
    BY <2>1, <2>2
<1>5. restore.pc # "moved" /\ restore'.pc # "moved"
  BY <1>2 DEF RemoveWal, BeginCopy, EndCopy, Empty, RestoreStep, Restore
<1>6. restore'.pc \in {"idle", "opened", "walGone", "copying", "copied"}
        => restore.pc \in {"idle", "opened", "walGone", "copying", "copied"}
  BY <1>2 DEF RemoveWal, BeginCopy, EndCopy, Empty, RestoreStep, Restore
<1> QED
  BY <1>1, <1>3, <1>4, <1>5, <1>6 DEF Held, HoldsData

LEMMA MoveHeld ==
  ASSUME Files, Held, RemoveOld \/ RenameAway \/ RenameIn \/ DropOld PROVE Held'
<1>1. UNCHANGED <<wal, crashes, failures>>
  BY DEF RemoveOld, RenameAway, RenameIn, DropOld, RestoreStep, bounds
<1>2. restore \in Restore
  BY DEF Files, TypeOK
<1>3. restore'.held = restore.held /\ restore'.pc \in {"oldGone", "moved", "swapped", "dbDone"}
  BY <1>2 DEF RemoveOld, RenameAway, RenameIn, DropOld, RestoreStep, Restore
<1>4. CASE RemoveOld
  BY <1>1, <1>2, <1>3, <1>4 DEF RemoveOld, RestoreStep, Restore, Held, HoldsData
<1>5. CASE RenameAway
  BY <1>1, <1>2, <1>3, <1>5 DEF RenameAway, RestoreStep, Restore, Held, HoldsData
<1>6. CASE RenameIn
  <2>1. main' = Copy /\ restore'.pc = "swapped" /\ restore.pc = "moved"
    BY <1>2, <1>6 DEF RenameIn, RestoreStep, Restore, Files, Swap
  <2>2. HoldsData(main)'
    BY <2>1, CopyFile DEF HoldsData
  <2> QED
    BY <1>1, <1>3, <2>1, <2>2 DEF Held
<1>7. CASE DropOld
  BY <1>1, <1>2, <1>3, <1>7 DEF DropOld, RestoreStep, Restore, Held, HoldsData
<1> QED
  BY <1>4, <1>5, <1>6, <1>7

LEMMA RefillHeld == ASSUME Files, Held, Refill PROVE Held'
<1>1. restore.pc = "emptied" /\ restore' = NoRestore /\ UNCHANGED <<main, wal, aside, crashes, failures>>
  BY DEF Refill, bounds
<1>2. HoldsData(main)
  BY <1>1, CopyFile DEF Files, Swap, HoldsData
<1> QED
  BY <1>1, <1>2, RestoreIdle DEF Held, HoldsData

LEMMA RestoreFailsHeld == ASSUME Files, Held, RestoreFails PROVE Held'
<1>1. restore' = NoRestore /\ failures' # 0 /\ UNCHANGED <<wal, crashes>>
  BY DEF RestoreFails, Files, TypeOK
<1>2. ASSUME crashes = 0 PROVE HoldsData(main)'
  <2>1. CASE restore.pc \in {"dbDone", "emptied"}
    BY <1>2, <2>1 DEF RestoreFails, Held, HoldsData
  <2>2. CASE restore.pc \notin {"dbDone", "emptied"}
    <3>1. HoldsData(PutBack)
      BY <1>2 DEF Held, PutBack
    <3>2. restore.held # NULL => restore.held > 0
      BY DEF Held
    <3> QED
      BY <2>2, <3>1, <3>2, PutBackFile DEF HoldsData
  <2> QED
    BY <2>1, <2>2
<1> QED
  BY <1>1, <1>2, RestoreIdle DEF Held

LEMMA HeldStep == Files /\ Held /\ [Next]_vars => Held'
<1> SUFFICES ASSUME Files, Held, [Next]_vars PROVE Held'
  OBVIOUS
<1>1. CASE ServerStep
  BY <1>1, ServerHeld
<1>2. CASE SnapshotStep \/ ManualStep \/ Second \/ ClockSetBack
  BY <1>2, SnapshotHeld
<1>3. CASE SwapStep
  BY <1>3, PlainHeld, MoveHeld, RefillHeld, RestoreFailsHeld DEF SwapStep
<1>4. CASE \E s \in Stamps : OpenRestore(s)
  BY <1>4, OpenRestoreHeld
<1>5. CASE Crash
  BY <1>5, CrashHeld
<1>6. CASE UNCHANGED vars
  BY <1>6 DEF vars, Held, HoldsData
<1> QED
  BY <1>1, <1>2, <1>3, <1>4, <1>5, <1>6 DEF Next

(* Failures at any step of any number of restores, or one crash anywhere,   *)
(* leave a complete database with data on disk (swapDB, restoreCmd).        *)
THEOREM DataAlwaysSurvives == Spec => []DataSurvives
  BY HeldInit, HeldStep, HeldSurvives, FilesAlways, PTL DEF Spec

-----------------------------------------------------------------------------
(* Retention.  What a prune is going to delete leaves Keep archives with    *)
(* later names, whatever the backup command adds meanwhile.                 *)
Later(S, s) == {t \in S : t > s}

Spared ==
  runner.pc = "prune" =>
    /\ runner.doomed \subseteq Listed
    /\ \A s \in runner.doomed : Cardinality(Later(Listed \ runner.doomed, s)) >= Keep

LEMMA ListedFinite ==
  ASSUME NEW S \in SUBSET Stamps
  PROVE  IsFiniteSet(S) /\ Cardinality(S) \in Nat
<1>1. IsFiniteSet(Stamps)
  BY BoundAssumption, FS_Interval DEF Stamps
<1> QED
  BY <1>1, FS_Subset, FS_CardinalityType

(* More archives are no fewer. *)
LEMMA MoreListed ==
  ASSUME NEW S \in SUBSET Stamps, NEW T \in SUBSET S
  PROVE  Cardinality(T) <= Cardinality(S)
  BY ListedFinite, FS_Subset

(* The names have a greatest one of those to be deleted. *)
LEMMA GreatestStamp ==
  ASSUME NEW S \in SUBSET Stamps, S # {}
  PROVE  \E m \in S : \A s \in S : s <= m
<1> DEFINE back == {MaxClock - s : s \in S}
<1>1. \A s \in S : s \in Nat /\ MaxClock - s \in Nat
  BY BoundAssumption DEF Stamps
<1>2. back \subseteq Nat /\ back # {}
  BY <1>1
<1>3. IsWellFoundedOn(OpToRel(<, Nat), Nat)
  BY NatLessThanWellFounded
<1>4. PICK b \in back : \A c \in back : <<c, b>> \notin OpToRel(<, Nat)
  BY <1>2, <1>3, WFMin
<1>5. \A c \in back : ~(c < b)
  BY <1>2, <1>4 DEF OpToRel
<1>6. PICK m \in S : b = MaxClock - m
  OBVIOUS
<1>7. \A s \in S : s <= m
  <2> TAKE s \in S
  <2>1. ~(MaxClock - s < MaxClock - m)
    BY <1>5, <1>6
  <2> QED
    BY <1>1, <2>1, BoundAssumption
<1> QED
  BY <1>7

Unfinished == {s \in Listed : ~archives[s].whole}
Restorable == made /\ Cardinality(Unfinished) < Keep => \E s \in Listed : archives[s].whole
Points == LastListed /\ Restorable /\ Spared

LEMMA PointsImply == Points => RestorePoint
  BY DEF Points, Restorable, Unfinished, RestorePoint

LEMMA PointsInit == Init => Points
  BY DEF Init, NoRun, Points, LastListed, Restorable, Spared

(* The newest of what a prune deletes has Keep archives after it, and those *)
(* come after the others too.                                               *)
LEMMA BeyondSpared ==
  ASSUME NEW s \in Beyond
  PROVE  Cardinality(Later(Listed \ Beyond, s)) >= Keep
<1>1. Listed \subseteq Stamps /\ Beyond \subseteq Listed
  BY DEF Listed, Beyond
<1>2. PICK m \in Beyond : \A t \in Beyond : t <= m
  BY <1>1, GreatestStamp
<1>3. Cardinality(Later(Listed, m)) >= Keep
  BY DEF Beyond, Later
<1>4. \A t \in Stamps : t \in Nat
  BY BoundAssumption DEF Stamps
<1>5. Later(Listed, m) \subseteq Later(Listed \ Beyond, s) /\ Later(Listed \ Beyond, s) \subseteq Stamps
  BY <1>1, <1>2, <1>4 DEF Later
<1>6. Cardinality(Later(Listed, m)) <= Cardinality(Later(Listed \ Beyond, s))
  BY <1>5, MoreListed
<1>7. Later(Listed, m) \subseteq Stamps
  BY <1>5
<1> QED
  BY <1>3, <1>5, <1>6, <1>7, ListedFinite, KeepAssumption

(* No archive disappears. *)
LEMMA GrowPoints ==
  ASSUME Files, Points, Listed \subseteq Listed', Restorable',
         last' = NULL \/ last' = last \/ last' \in Listed',
         runner' = runner \/ runner'.pc # "prune"
  PROVE  Points'
<1>1. Listed' \subseteq Stamps
  BY DEF Listed
<1>2. \A s : /\ Later(Listed, s) \subseteq Later(Listed', s) /\ Later(Listed', s) \subseteq Stamps
             /\ Later(Listed \ runner.doomed, s) \subseteq Later(Listed' \ runner.doomed, s)
             /\ Later(Listed' \ runner.doomed, s) \subseteq Stamps
  BY <1>1 DEF Later
<1>3. LastListed'
  <2>1. CASE last' = NULL
    BY <2>1 DEF LastListed
  <2>2. CASE last' \in Listed'
    BY <2>2 DEF LastListed, Listed
  <2>3. CASE last' = last /\ last # NULL /\ last \notin Listed
    <3>1. last \in Stamps
      BY <2>3 DEF Files, TypeOK
    <3>2. Cardinality(Later(Listed, last)) >= Keep
      BY <2>3, <3>1 DEF Points, LastListed, Listed, Later
    <3>3. Cardinality(Later(Listed', last)) >= Keep
      BY <1>2, <3>2, MoreListed, ListedFinite, KeepAssumption
    <3> QED
      BY <2>3, <3>3 DEF LastListed, Later
  <2> QED
    BY <2>1, <2>2, <2>3
<1>4. Spared'
  <2> SUFFICES ASSUME runner' = runner, runner.pc = "prune"
               PROVE  /\ runner.doomed \subseteq Listed'
                      /\ \A s \in runner.doomed :
                           Cardinality(Later(Listed' \ runner.doomed, s)) >= Keep
    BY DEF Spared
  <2>1. runner.doomed \subseteq Listed'
    BY DEF Points, Spared
  <2>2. ASSUME NEW s \in runner.doomed
        PROVE  Cardinality(Later(Listed' \ runner.doomed, s)) >= Keep
    <3>1. Cardinality(Later(Listed \ runner.doomed, s)) >= Keep
      BY DEF Points, Spared
    <3>2. Cardinality(Later(Listed \ runner.doomed, s)) <= Cardinality(Later(Listed' \ runner.doomed, s))
      BY <1>2, MoreListed
    <3>3. /\ Cardinality(Later(Listed \ runner.doomed, s)) \in Nat
          /\ Cardinality(Later(Listed' \ runner.doomed, s)) \in Nat
      BY <1>2, ListedFinite
    <3> QED
      BY <3>1, <3>2, <3>3, KeepAssumption
  <2> QED
    BY <2>1, <2>2
<1> QED
  BY <1>3, <1>4 DEF Points

(* The archives stay as they are. *)
LEMMA SamePoints ==
  ASSUME Files, Points, UNCHANGED <<archives, made>>, last' = NULL \/ last' = last,
         runner' = runner \/ runner'.pc # "prune"
  PROVE  Points'
<1>1. Listed' = Listed /\ Unfinished' = Unfinished
  BY DEF Listed, Unfinished
<1>2. Restorable'
  BY <1>1 DEF Points, Restorable
<1> QED
  BY <1>1, <1>2, GrowPoints

LEMMA PutRenamePoints == ASSUME Files, Points, PutRename PROVE Points'
<1>1. runner.name \in Stamps /\ archives \in [Stamps -> Archive \cup {NULL}]
  BY DEF Files, TypeOK, Runner
<1>2. Packed(TRUE) \in Archive /\ Packed(TRUE).whole
  BY PackedArchive DEF Packed
<1>3. /\ archives' = [archives EXCEPT ![runner.name] = Packed(TRUE)] /\ last' = runner.name
      /\ runner'.pc = "put"
  BY DEF PutRename, RunnerStep, NoRun
<1>4. Listed \subseteq Listed' /\ runner.name \in Listed' /\ archives'[runner.name].whole
  BY <1>1, <1>2, <1>3, NoFile DEF Listed
<1>5. Restorable'
  BY <1>4 DEF Restorable
<1> QED
  BY <1>3, <1>4, <1>5, GrowPoints

LEMMA ListArchivesPoints == ASSUME Files, Points, ListArchives PROVE Points'
<1>1. runner' = [runner EXCEPT !.pc = "prune", !.doomed = Beyond] /\ UNCHANGED <<archives, last, made>>
  BY DEF ListArchives, RunnerStep
<1>2. runner'.doomed = Beyond /\ Beyond \subseteq Listed
  BY <1>1 DEF Files, TypeOK, Runner, Beyond
<1>3. Listed' = Listed /\ Unfinished' = Unfinished
  BY <1>1 DEF Listed, Unfinished
<1>4. Spared'
  BY <1>2, <1>3, BeyondSpared DEF Spared, Later
<1> QED
  BY <1>1, <1>3, <1>4 DEF Points, LastListed, Restorable

LEMMA PruneOnePoints == ASSUME Files, Points, NEW s \in Stamps, PruneOne(s) PROVE Points'
<1>1. /\ runner.pc = "prune" /\ s \in runner.doomed
      /\ runner' = [runner EXCEPT !.doomed = @ \ {s}]
      /\ archives' = [archives EXCEPT ![s] = NULL] /\ UNCHANGED <<last, made>>
  BY DEF PruneOne, RunnerStep
<1>2. runner'.pc = "prune" /\ runner'.doomed = runner.doomed \ {s}
  BY <1>1 DEF Files, TypeOK, Runner
<1>3. /\ runner.doomed \subseteq Listed
      /\ \A t \in runner.doomed : Cardinality(Later(Listed \ runner.doomed, t)) >= Keep
  BY <1>1 DEF Points, Spared
<1>4. /\ Listed' = Listed \ {s} /\ Listed' \subseteq Stamps /\ Listed \subseteq Stamps
      /\ \A t \in Listed' : archives'[t] = archives[t]
  BY <1>1 DEF Files, TypeOK, Listed
<1>5. Listed' \ runner'.doomed = Listed \ runner.doomed
  BY <1>1, <1>2, <1>4
<1>6. Spared'
  BY <1>2, <1>3, <1>4, <1>5 DEF Spared, Later
<1>7. Later(Listed \ runner.doomed, s) \subseteq Later(Listed', s) /\ Later(Listed', s) \subseteq Stamps
  BY <1>1, <1>4 DEF Later
<1>8. Cardinality(Later(Listed', s)) >= Keep
  <2>1. Cardinality(Later(Listed \ runner.doomed, s)) <= Cardinality(Later(Listed', s))
    BY <1>7, MoreListed
  <2>2. /\ Cardinality(Later(Listed \ runner.doomed, s)) \in Nat
        /\ Cardinality(Later(Listed', s)) \in Nat
    BY <1>7, ListedFinite
  <2> QED
    BY <1>1, <1>3, <2>1, <2>2, KeepAssumption
<1>9. LastListed'
  <2>1. CASE last = NULL
    BY <1>1, <2>1 DEF LastListed
  <2>2. CASE last = s
    BY <1>1, <1>8, <2>2 DEF LastListed, Later
  <2>3. CASE last # NULL /\ last # s /\ archives[last] # NULL
    BY <1>1, <2>3 DEF LastListed, Files, TypeOK
  <2>4. CASE last # NULL /\ last # s /\ archives[last] = NULL
    <3>1. last \in Stamps
      BY <2>4 DEF Files, TypeOK
    <3>2. Cardinality(Later(Listed, last)) >= Keep
      BY <2>4 DEF Points, LastListed, Later
    <3>3. CASE s > last
      <4>1. Later(Listed', s) \subseteq Later(Listed', last) /\ Later(Listed', last) \subseteq Stamps
        BY <1>4, <3>1, <3>3, BoundAssumption DEF Later, Stamps
      <4>2. Cardinality(Later(Listed', last)) >= Keep
        BY <1>7, <1>8, <4>1, MoreListed, ListedFinite, KeepAssumption
      <4> QED
        BY <1>1, <4>2 DEF LastListed, Later
    <3>4. CASE ~(s > last)
      <4>1. Later(Listed', last) = Later(Listed, last)
        BY <1>4, <3>4 DEF Later
      <4> QED
        BY <1>1, <3>2, <4>1 DEF LastListed, Later
    <3> QED
      BY <3>3, <3>4
  <2> QED
    BY <2>1, <2>2, <2>3, <2>4
<1>10. Restorable'
  <2> SUFFICES ASSUME Cardinality(Unfinished') < Keep
               PROVE  \E t \in Listed' : archives'[t].whole
    BY DEF Restorable
  <2>1. ~(Later(Listed', s) \subseteq Unfinished')
    <3>1. Unfinished' \subseteq Stamps
      BY <1>4 DEF Unfinished
    <3>2. SUFFICES ASSUME Later(Listed', s) \subseteq Unfinished' PROVE FALSE
      OBVIOUS
    <3>3. Cardinality(Later(Listed', s)) <= Cardinality(Unfinished')
      BY <3>1, <3>2, MoreListed
    <3>4. Cardinality(Later(Listed', s)) \in Nat /\ Cardinality(Unfinished') \in Nat
      BY <1>7, <3>1, ListedFinite
    <3> QED
      BY <1>8, <3>3, <3>4, KeepAssumption
  <2> QED
    BY <2>1 DEF Unfinished, Later
<1> QED
  BY <1>6, <1>9, <1>10 DEF Points

LEMMA ManualBeginPoints == ASSUME Files, Points, ManualBegin PROVE Points'
<1> DEFINE part == [db |-> Committed, files |-> 0, whole |-> FALSE]
<1>1. /\ archives[clock] = NULL /\ archives' = [archives EXCEPT ![clock] = part]
      /\ UNCHANGED <<runner, last, made>>
  BY DEF ManualBegin
<1>2. clock \in Stamps /\ archives \in [Stamps -> Archive \cup {NULL}]
  BY DEF Files, TypeOK
<1>3. part \in Archive /\ ~part.whole
  BY CommittedVersion, FirstVersions DEF ManualBegin, Archive
<1> HIDE DEF part
<1>4. /\ Listed' = Listed \cup {clock} /\ clock \notin Listed
      /\ \A t \in Listed : archives'[t] = archives[t]
  BY <1>1, <1>2, <1>3, NoFile DEF Listed
<1>5. Unfinished \subseteq Unfinished' /\ Unfinished' \subseteq Stamps
  BY <1>4 DEF Unfinished, Listed
<1>6. Cardinality(Unfinished) <= Cardinality(Unfinished')
  BY <1>5, MoreListed
<1>7. Cardinality(Unfinished) \in Nat /\ Cardinality(Unfinished') \in Nat
  BY <1>5, ListedFinite
<1>8. Restorable'
  BY <1>1, <1>4, <1>6, <1>7, KeepAssumption DEF Points, Restorable
<1> QED
  BY <1>1, <1>4, <1>8, GrowPoints

LEMMA ManualEndPoints == ASSUME Files, Points, ManualEnd PROVE Points'
<1>1. UNCHANGED <<runner, last>> /\ manual \in Stamps /\ archives \in [Stamps -> Archive \cup {NULL}]
  BY DEF ManualEnd, Files, TypeOK
<1>2. CASE archives[manual] # NULL /\ ~archives[manual].whole
  <2>1. archives' = [archives EXCEPT ![manual] = [archives[manual] EXCEPT !.files = files, !.whole = TRUE]]
    BY <1>1, <1>2 DEF ManualEnd, Archive
  <2> DEFINE done == [archives[manual] EXCEPT !.files = files, !.whole = TRUE]
  <2>2. done \in Archive /\ done.whole
    BY <1>1, <1>2 DEF Archive, Files, TypeOK
  <2> HIDE DEF done
  <2>3. Listed \subseteq Listed' /\ manual \in Listed' /\ archives'[manual].whole
    BY <1>1, <2>1, <2>2, NoFile DEF Listed, done
  <2>4. Restorable'
    BY <2>3 DEF Restorable
  <2> QED
    BY <1>1, <2>3, <2>4, GrowPoints
<1>3. CASE ~(archives[manual] # NULL /\ ~archives[manual].whole)
  BY <1>1, <1>3, SamePoints DEF ManualEnd
<1> QED
  BY <1>2, <1>3

LEMMA PointsStep == Files /\ Points /\ [Next]_vars => Points'
<1> SUFFICES ASSUME Files, Points, [Next]_vars PROVE Points'
  OBVIOUS
<1>1. CASE ServerStep \/ SwapStep \/ (\E s \in Stamps : OpenRestore(s)) \/ Crash
           \/ Second \/ ClockSetBack \/ UNCHANGED vars
  <2>1. UNCHANGED <<archives, made>> /\ (last' = NULL \/ last' = last)
        /\ (runner' = runner \/ runner' = NoRun)
    BY <1>1 DEF ServerStep, Start, Commit, Checkpoint, Stop, SwapStep, RemoveWal, BeginCopy,
       EndCopy, RemoveOld, RenameAway, RenameIn, DropOld, Empty, Refill, RestoreStep,
       RestoreFails, OpenRestore, Crash, Second, ClockSetBack, vars
  <2> QED
    BY <2>1, SamePoints DEF NoRun
<1>2. CASE SnapshotStep
  <2>1. CASE Vacuum
    <3>1. runner'.pc = "vacuumed" /\ UNCHANGED <<archives, made, last>>
      BY <2>1 DEF Vacuum, RunnerStep, NoRun
    <3> QED
      BY <3>1, SamePoints
  <2>2. CASE Pack \/ PutTemp
    <3>1. runner \in Runner
      BY DEF Files, TypeOK
    <3>2. runner'.pc \in {"packed", "temp"} /\ UNCHANGED <<archives, made, last>>
      BY <2>2, <3>1 DEF Pack, PutTemp, RunnerStep, Runner
    <3> QED
      BY <3>2, SamePoints
  <2>3. CASE SnapshotFails \/ PruneEnds
    BY <2>3, SamePoints DEF SnapshotFails, PruneEnds, RunnerStep, NoRun
  <2> QED
    BY <1>2, <2>1, <2>2, <2>3, PutRenamePoints, ListArchivesPoints, PruneOnePoints
    DEF SnapshotStep
<1>3. CASE ManualStep
  BY <1>3, ManualBeginPoints, ManualEndPoints DEF ManualStep
<1> QED
  BY <1>1, <1>2, <1>3 DEF Next

(* The archive the admin page names was not pruned by its own run, and once *)
(* an archive was finished one can be restored from, whatever crashed and   *)
(* wherever the clock went (Prune, LocalDestination.Put).                   *)
THEOREM RestorePointStays == Spec => []RestorePoint
  BY PointsInit, PointsStep, PointsImply, FilesAlways, PTL DEF Spec
=============================================================================
