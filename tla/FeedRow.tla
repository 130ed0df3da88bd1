------------------------------ MODULE FeedRow ------------------------------
(***************************************************************************)
(* One feeds row and the callers that write it: PollOne as the scheduler,   *)
(* the refresh button and the first poll of a new feed run it, each from a  *)
(* snapshot of the row read at the start and as a sequence of separate SQL  *)
(* statements, while the user edits, pauses and resumes the feed, walks its *)
(* older pages, the site publishes, and the process may crash.              *)
(*                                                                          *)
(* A site's document at a URL has a version, which stands for its contents, *)
(* its Last-Modified date and the time of its newest item.                  *)
(***************************************************************************)
EXTENDS Naturals, FiniteSets

CONSTANTS
  Callers,      \* goroutines that may run PollOne on the feed
  Scheduler,    \* the one the poll cycle runs
  Urls,         \* feed URLs, HomeUrl the first one
  HomeUrl,
  Forms,        \* what a user may save: [url |-> ..., auto |-> ...]
  MaxVersion,   \* bound: versions a site publishes
  MaxEdits,     \* bound: saves, pauses and backfills by the user
  MaxCrashes    \* bound: process crashes

ASSUME SchedulerAssumption == Scheduler \in Callers
ASSUME UrlAssumption == HomeUrl \in Urls /\ Forms \subseteq [url : Urls, auto : BOOLEAN]
ASSUME BoundAssumption == MaxVersion \in Nat \ {0} /\ MaxEdits \in Nat /\ MaxCrashes \in Nat

VARIABLES
  row,      \* the feeds row
  site,     \* the version each URL serves
  stored,   \* <<url, version>> documents whose items were ingested
  call,     \* each caller's position in PollOne and its local variables
  edits,
  crashes

vars == <<row, site, stored, call, edits, crashes>>

NoSnapshot == [url |-> HomeUrl, val |-> 0, polled |-> FALSE,
               interval |-> "fixed", auto |-> TRUE, lastItem |-> 0]

(* next_poll_at: unset, in the past, or in the future for one of two reasons. *)
Deadline == {"none", "past", "backoff", "planned"}

(* poll_interval_sec: what the user set, what the posts suggest, or a week. *)
Cadence == {"fixed", "adaptive", "weekly"}

Row ==
  [url : Urls, enabled : BOOLEAN, reason : BOOLEAN, val : 0..MaxVersion,
   polled : BOOLEAN, plan : Deadline, sched : BOOLEAN,
   interval : Cadence, auto : BOOLEAN, lastItem : 0..MaxVersion,
   cursor : {"none", "second", "older"}]

Steps ==
  {"idle", "sent", "ingest", "meta", "clearAt", "clearFlag", "times", "lastItem",
   "interval", "planAt", "planFlag", "cursor", "limitAt", "limitFlag",
   "limitMeta", "failMeta", "pause"}

(* The fields of the row PollOne was given that it uses later. *)
Snapshot == [url : Urls, val : 0..MaxVersion, polled : BOOLEAN,
             interval : Cadence, auto : BOOLEAN, lastItem : 0..MaxVersion]

SnapshotOf(r) == [field \in DOMAIN NoSnapshot |-> r[field]]

(* What PollOne keeps: the snapshot (seen), the version it fetched (0 for a *)
(* 304), whether items were new, and the newest item time it read.          *)
Call == [pc : Steps, seen : Snapshot, got : 0..MaxVersion, new : BOOLEAN,
         failed : BOOLEAN, newest : 0..MaxVersion]

Idle == [pc |-> "idle", seen |-> NoSnapshot, got |-> 0, new |-> FALSE,
         failed |-> FALSE, newest |-> 0]

Init ==
  /\ row = [url |-> HomeUrl, enabled |-> TRUE, reason |-> FALSE, val |-> 0,
            polled |-> FALSE, plan |-> "none", sched |-> FALSE,
            interval |-> "fixed", auto |-> TRUE, lastItem |-> 0, cursor |-> "none"]
  /\ site = [u \in Urls |-> 1]
  /\ stored = {}
  /\ call = [p \in Callers |-> Idle]
  /\ edits = 0
  /\ crashes = 0

-----------------------------------------------------------------------------
At(p, step) == call[p].pc = step
Goto(p, step) ==
  call' = [call EXCEPT ![p] = IF step = "idle" THEN Idle ELSE [@ EXCEPT !.pc = step]]
Seen(p) == call[p].seen
Target(p) == Seen(p).url

(* One statement of PollOne: the row becomes r, the caller moves on. *)
Write(p, from, r, to) ==
  /\ At(p, from)
  /\ row' = r
  /\ Goto(p, to)
  /\ UNCHANGED <<site, stored, edits, crashes>>

(* The caller reads the row: the due list, or feedRefresh's guard. *)
Start(p) ==
  /\ At(p, "idle")
  /\ IF p = Scheduler THEN row.enabled /\ row.plan \in {"none", "past"}
     ELSE row.plan \in {"backoff", "planned"} => row.sched
  /\ call' = [call EXCEPT ![p] =
                [Idle EXCEPT !.pc = "sent", !.seen = SnapshotOf(row)]]
  /\ UNCHANGED <<row, site, stored, edits, crashes>>

(* The site's answer to a conditional GET carrying the snapshot's validator. *)
Unchanged(p) == Seen(p).val # 0 /\ site[Target(p)] <= Seen(p).val

NotModified(p) ==
  /\ At(p, "sent") /\ Unchanged(p)
  /\ Goto(p, "meta")
  /\ UNCHANGED <<row, site, stored, edits, crashes>>

Fetched(p) ==
  /\ At(p, "sent") /\ ~Unchanged(p)
  /\ call' = [call EXCEPT ![p].pc = "ingest", ![p].got = site[Target(p)]]
  /\ UNCHANGED <<row, site, stored, edits, crashes>>

(* The fetch fails: rate limited, permanently gone, or any other error. *)
(* What the caller read of the row is used no more.                      *)
Refused(p) ==
  /\ At(p, "sent")
  /\ \E step \in {"limitAt", "pause", "failMeta"} :
       call' = [call EXCEPT ![p] = [Idle EXCEPT !.pc = step]]
  /\ UNCHANGED <<row, site, stored, edits, crashes>>

(* Mutated form of Ingest: the poll metadata is written first. *)
IngestLate(p) ==
  /\ At(p, "ingest")
  /\ IF row.val # call[p].got
     THEN /\ row' = [row EXCEPT !.val = call[p].got]
          /\ UNCHANGED <<stored, call>>
     ELSE /\ stored' = stored \cup {<<Target(p), call[p].got>>}
          /\ Goto(p, "meta")
          /\ UNCHANGED row
  /\ UNCHANGED <<site, edits, crashes>>

(* ingest: UpsertMany adds new items and refreshes the snapshots of all. *)
Ingest(p) ==
  LET document == <<Target(p), call[p].got>>
  IN /\ At(p, "ingest")
     /\ stored' = stored \cup {document}
     /\ call' = [call EXCEPT ![p].pc = "meta", ![p].new = document \notin stored]
     /\ UNCHANGED <<row, site, edits, crashes>>

IngestFails(p) == At(p, "ingest") /\ Write(p, "ingest", row, "idle")

(* SetPollMeta: the new validator, or after a 304 the snapshot's own. *)
Meta(p) ==
  Write(p, "meta",
        [row EXCEPT !.val = IF call[p].got = 0 THEN Seen(p).val ELSE call[p].got,
                    !.polled = TRUE],
        "clearAt")

(* clearSchedule is two statements. *)
ClearAt(p) == Write(p, "clearAt", [row EXCEPT !.plan = "none"], "clearFlag")
ClearFlag(p) ==
  Write(p, "clearFlag", [row EXCEPT !.sched = FALSE],
        IF call[p].failed THEN "idle" ELSE "times")

(* RecentTimes: the newest stored item of the feed. *)
Times(p) ==
  /\ At(p, "times")
  /\ IF stored = {} THEN Goto(p, "cursor")
     ELSE \E newest \in {d[2] : d \in stored} :
            /\ \A d \in stored : d[2] <= newest
            /\ call' = [call EXCEPT ![p].pc = "lastItem", ![p].newest = newest]
  /\ UNCHANGED <<row, site, stored, edits, crashes>>

(* updateCadence compares the newest item with the snapshot, not the row. *)
LastItem(p) ==
  Write(p, "lastItem",
        IF call[p].newest > Seen(p).lastItem
        THEN [row EXCEPT !.lastItem = call[p].newest] ELSE row,
        "interval")

(* A quiet feed is polled weekly and never planned, adaptive or not. *)
Quiet(p) ==
  Write(p, "interval",
        IF Seen(p).interval = "weekly" THEN row ELSE [row EXCEPT !.interval = "weekly"],
        "cursor")

(* Mutated form of Interval: an unknown cadence is stored as interval 0. *)
IntervalUnknown(p) ==
  \/ Quiet(p)
  \/ \E known \in BOOLEAN :
       Write(p, "interval",
             IF Seen(p).auto /\ call[p].new
             THEN [row EXCEPT !.interval = IF known THEN "adaptive" ELSE "zero"] ELSE row,
             "planAt")

(* updateCadence: the feed is quiet, or its posts suggest a cadence, which  *)
(* may be unknown (adaptiveInterval: fewer than two posts).                 *)
Interval(p) ==
  \/ Quiet(p)
  \/ \E known \in BOOLEAN :
       Write(p, "interval",
             IF Seen(p).auto /\ call[p].new /\ known /\ Seen(p).interval # "adaptive"
             THEN [row EXCEPT !.interval = "adaptive"] ELSE row,
             "planAt")

(* scheduleNextPoll: two statements, when the posts cluster at an hour. *)
PlanAt(p) ==
  \/ /\ Seen(p).auto
     /\ Write(p, "planAt", [row EXCEPT !.plan = "planned"], "planFlag")
  \/ Write(p, "planAt", row, "cursor")
PlanFlag(p) == Write(p, "planFlag", [row EXCEPT !.sched = TRUE], "cursor")

(* Mutated form of Cursor: every poll records the next page. *)
CursorAlways(p) == Write(p, "cursor", [row EXCEPT !.cursor = "second"], "idle")

(* The last statement: only a first poll records the next page. *)
Cursor(p) ==
  Write(p, "cursor",
        IF Seen(p).polled \/ call[p].got = 0 THEN row
        ELSE [row EXCEPT !.cursor = "second"],
        "idle")

(* The rate-limit branch. *)
LimitAt(p) == Write(p, "limitAt", [row EXCEPT !.plan = "backoff"], "limitFlag")
LimitFlag(p) == Write(p, "limitFlag", [row EXCEPT !.sched = FALSE], "limitMeta")
LimitMeta(p) == Write(p, "limitMeta", [row EXCEPT !.val = 0, !.polled = TRUE], "idle")

(* Any other error: recorded, the deadline cleared. *)
FailMeta(p) ==
  /\ At(p, "failMeta")
  /\ row' = [row EXCEPT !.val = 0, !.polled = TRUE]
  /\ call' = [call EXCEPT ![p].pc = "clearAt", ![p].failed = TRUE]
  /\ UNCHANGED <<site, stored, edits, crashes>>

(* A permanent failure pauses the feed in a single statement. *)
Pause(p) ==
  Write(p, "pause",
        [row EXCEPT !.enabled = FALSE, !.reason = TRUE, !.polled = TRUE,
                    !.plan = "none", !.sched = FALSE],
        "idle")

PollOne(p) ==
  \/ Start(p) \/ NotModified(p) \/ Fetched(p) \/ Refused(p)
  \/ Ingest(p) \/ IngestFails(p) \/ Meta(p) \/ ClearAt(p) \/ ClearFlag(p)
  \/ Times(p) \/ LastItem(p) \/ Interval(p) \/ PlanAt(p) \/ PlanFlag(p) \/ Cursor(p)
  \/ LimitAt(p) \/ LimitFlag(p) \/ LimitMeta(p) \/ FailMeta(p) \/ Pause(p)

-----------------------------------------------------------------------------
UserActs == edits < MaxEdits /\ edits' = edits + 1

(* applyFeedForm: one UPDATE; adaptive polling keeps the stored interval,   *)
(* the validators, the deadline and the cursor stay as they are.            *)
Save(form, on) ==
  /\ UserActs
  /\ row' = [row EXCEPT !.url = form.url, !.auto = form.auto, !.enabled = on,
                        !.reason = FALSE,
                        !.interval = IF form.auto THEN @ ELSE "fixed"]
  /\ UNCHANGED <<site, stored, call, crashes>>

(* Mutated form of Toggle: enabling keeps the automatic reason. *)
ToggleKeepingReason ==
  /\ UserActs
  /\ row' = [row EXCEPT !.enabled = ~@]
  /\ UNCHANGED <<site, stored, call, crashes>>

(* feedToggle: enabling clears the reason, pausing does not set one. *)
Toggle ==
  /\ UserActs
  /\ row' = [row EXCEPT !.enabled = ~@, !.reason = @ /\ row.enabled]
  /\ UNCHANGED <<site, stored, call, crashes>>

(* PollOlder has walked past the cursor it read. *)
LoadOlder ==
  /\ UserActs
  /\ row.cursor # "none"
  /\ row' = [row EXCEPT !.cursor = "older"]
  /\ UNCHANGED <<site, stored, call, crashes>>

DeadlinePasses ==
  /\ row.plan \in {"backoff", "planned"}
  /\ row' = [row EXCEPT !.plan = "past"]
  /\ UNCHANGED <<site, stored, call, edits, crashes>>

Publish(u) ==
  /\ site[u] < MaxVersion
  /\ site' = [site EXCEPT ![u] = @ + 1]
  /\ UNCHANGED <<row, stored, call, edits, crashes>>

(* The process stops between two statements; the row keeps what is written. *)
Crash ==
  /\ crashes < MaxCrashes
  /\ crashes' = crashes + 1
  /\ call' = [p \in Callers |-> Idle]
  /\ UNCHANGED <<row, site, stored, edits>>

Next ==
  \/ \E p \in Callers : PollOne(p)
  \/ \E form \in Forms, on \in BOOLEAN : Save(form, on)
  \/ Toggle \/ LoadOlder \/ DeadlinePasses \/ Crash
  \/ \E u \in Urls : Publish(u)

Spec == Init /\ [][Next]_vars

-----------------------------------------------------------------------------
(* The type of every variable. *)
TypeOK ==
  /\ row \in Row
  /\ site \in [Urls -> 1..MaxVersion]
  /\ stored \subseteq Urls \X (1..MaxVersion)
  /\ call \in [Callers -> Call]
  /\ edits \in 0..MaxEdits
  /\ crashes \in 0..MaxCrashes

(* A feed that carries an automatic disabled reason is not polled: the      *)
(* reason and the flag are written by different statements of five actors.  *)
ReasonMeansPaused == row.reason => ~row.enabled

(* A 304 hides no item: the document the site serves was ingested, however  *)
(* many callers poll the feed (PollOne ingests before it stores validators). *)
NothingHidden ==
  [][\A p \in Callers :
       NotModified(p) => <<Target(p), site[Target(p)]>> \in stored]_vars

(* Polls cannot clobber a user's walk of the older pages (PollOne). *)
WalkKept == [][row.cursor = "older" => row'.cursor = "older"]_vars
=============================================================================
