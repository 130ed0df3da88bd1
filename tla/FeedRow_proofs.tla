---------------------------- MODULE FeedRow_proofs ----------------------------
(***************************************************************************)
(* Proofs about one feed row, for every set of callers, every document      *)
(* history and any number of edits and crashes.                             *)
(***************************************************************************)
EXTENDS FeedRow, TLAPS

(* What a caller reads of a row is a snapshot of it. *)
LEMMA SnapshotFields ==
  ASSUME NEW r \in Row
  PROVE  /\ SnapshotOf(r) \in Snapshot
         /\ SnapshotOf(r).url = r.url /\ SnapshotOf(r).val = r.val
         /\ SnapshotOf(r).polled = r.polled /\ SnapshotOf(r).lastItem = r.lastItem
<1>1. DOMAIN NoSnapshot = {"url", "val", "polled", "interval", "auto", "lastItem"}
  BY DEF NoSnapshot
<1>2. SnapshotOf(r) = [url |-> r.url, val |-> r.val, polled |-> r.polled,
                       interval |-> r.interval, auto |-> r.auto, lastItem |-> r.lastItem]
  BY <1>1 DEF SnapshotOf
<1> QED
  BY <1>2 DEF Row, Snapshot

LEMMA Versions == 0 \in 0..MaxVersion /\ 1 \in 1..MaxVersion
  BY BoundAssumption

LEMMA IdleType == Idle \in Call
  BY UrlAssumption, BoundAssumption DEF Idle, Call, Steps, NoSnapshot, Snapshot, Cadence

(* A statement that leaves a row leaves every variable in its type. *)
LEMMA WriteType ==
  ASSUME TypeOK, NEW p \in Callers, NEW from, NEW r \in Row, NEW to \in Steps,
         Write(p, from, r, to)
  PROVE  TypeOK'
<1>1. call' \in [Callers -> Call]
  BY IdleType DEF Write, Goto, TypeOK, Call
<1> QED
  BY <1>1 DEF Write, TypeOK

(* Inside ingest a caller has a document. *)
HasDocument == \A p \in Callers : At(p, "ingest") => call[p].got # 0

(* A step of a caller that leaves the row to others keeps the types. *)
LEMMA CallType ==
  ASSUME TypeOK, NEW p \in Callers, NEW c \in Call, call' = [call EXCEPT ![p] = c]
  PROVE  call' \in [Callers -> Call]
  BY DEF TypeOK

LEMMA PollOneType ==
  ASSUME TypeOK, HasDocument, NEW p \in Callers, PollOne(p)
  PROVE  TypeOK'
<1> DEFINE c == call[p]
<1>1. /\ row \in Row /\ c \in Call /\ c.seen \in Snapshot /\ c.seen.url \in Urls
      /\ site \in [Urls -> 1..MaxVersion] /\ call \in [Callers -> Call]
      /\ c.seen.val \in 0..MaxVersion /\ c.got \in 0..MaxVersion /\ c.newest \in 0..MaxVersion
  BY DEF TypeOK, Call, Snapshot
<1>2. CASE Start(p)
  <2>1. [Idle EXCEPT !.pc = "sent", !.seen = SnapshotOf(row)] \in Call
    BY <1>1, IdleType, SnapshotFields DEF Call, Steps
  <2> QED
    BY <1>2, <2>1, CallType DEF Start, TypeOK
<1>3. CASE NotModified(p)
  <2>1. Write(p, "sent", row, "meta")
    BY <1>3 DEF NotModified, Write
  <2> QED
    BY <1>1, <2>1, WriteType DEF Steps
<1>4. CASE Fetched(p)
  <2>1. call' = [call EXCEPT ![p] = [c EXCEPT !.pc = "ingest", !.got = site[c.seen.url]]]
    BY <1>1, <1>4 DEF Fetched, Target, Seen
  <2>3. site[c.seen.url] \in 0..MaxVersion
    BY <1>1
  <2>2. [c EXCEPT !.pc = "ingest", !.got = site[c.seen.url]] \in Call
    BY <1>1, <2>3 DEF Call, Steps
  <2> QED
    BY <1>4, <2>1, <2>2, CallType DEF Fetched, TypeOK
<1>5. CASE Refused(p)
  <2>1. PICK step \in {"limitAt", "pause", "failMeta"} :
          call' = [call EXCEPT ![p] = [Idle EXCEPT !.pc = step]]
    BY <1>5 DEF Refused
  <2>2. [Idle EXCEPT !.pc = step] \in Call
    BY IdleType DEF Call, Steps
  <2> QED
    BY <1>5, <2>1, <2>2, CallType DEF Refused, TypeOK
<1>6. CASE Ingest(p)
  <2> DEFINE document == <<c.seen.url, c.got>>
  <2>1. /\ call' = [call EXCEPT ![p] = [c EXCEPT !.pc = "meta", !.new = document \notin stored]]
        /\ stored' = stored \cup {document}
        /\ UNCHANGED <<row, site, edits, crashes>> /\ c.pc = "ingest"
    BY <1>1, <1>6 DEF Ingest, Target, Seen, At
  <2>2. [c EXCEPT !.pc = "meta", !.new = document \notin stored] \in Call
    BY <1>1 DEF Call, Steps
  <2>3. call' \in [Callers -> Call]
    BY <2>1, <2>2, CallType
  <2>4. c.got \in 1..MaxVersion
    BY <1>1, <2>1 DEF HasDocument, At
  <2>5. document \in Urls \X (1..MaxVersion) /\ document \in Urls \X (0..MaxVersion)
    BY <1>1, <2>4
  <2> QED
    BY <2>1, <2>3, <2>5 DEF TypeOK
<1>7. CASE Times(p)
  <2>1. CASE stored = {}
    <3>1. Write(p, "times", row, "cursor")
      BY <1>7, <2>1 DEF Times, Write
    <3> QED
      BY <1>1, <3>1, WriteType DEF Steps
  <2>2. CASE stored # {}
    <3>1. PICK newest \in {d[2] : d \in stored} :
            call' = [call EXCEPT ![p] = [c EXCEPT !.pc = "lastItem", !.newest = newest]]
      BY <1>1, <1>7, <2>2 DEF Times
    <3>2. newest \in 0..MaxVersion
      BY <3>1 DEF TypeOK
    <3>3. [c EXCEPT !.pc = "lastItem", !.newest = newest] \in Call
      BY <1>1, <3>2 DEF Call, Steps
    <3> QED
      BY <1>7, <3>1, <3>3, CallType DEF Times, TypeOK
  <2> QED
    BY <2>1, <2>2
<1>8. CASE FailMeta(p)
  <2>1. call' = [call EXCEPT ![p] = [c EXCEPT !.pc = "clearAt", !.failed = TRUE]]
    BY <1>1, <1>8 DEF FailMeta
  <2>2. [c EXCEPT !.pc = "clearAt", !.failed = TRUE] \in Call
    BY <1>1 DEF Call, Steps
  <2>3. row' \in Row
    BY <1>1, <1>8, Versions DEF FailMeta, Row
  <2> QED
    BY <1>8, <2>1, <2>2, <2>3, CallType DEF FailMeta, TypeOK
<1>9. ASSUME NEW from \in Steps, NEW r \in Row, NEW to \in Steps, Write(p, from, r, to)
      PROVE  TypeOK'
  BY <1>9, WriteType
<1>10. CASE IngestFails(p) \/ Meta(p) \/ ClearAt(p) \/ ClearFlag(p)
  BY <1>1, <1>9, <1>10, BoundAssumption
  DEF IngestFails, Meta, ClearAt, ClearFlag, Seen, Row, Deadline, Steps
<1>11. CASE LastItem(p) \/ Interval(p) \/ PlanAt(p) \/ PlanFlag(p) \/ Cursor(p)
  <2>1. CASE LastItem(p)
    BY <1>1, <1>9, <2>1 DEF LastItem, Row, Steps
  <2>2. CASE Interval(p)
    BY <1>1, <1>9, <2>2 DEF Interval, Quiet, Row, Cadence, Steps
  <2>3. CASE PlanAt(p) \/ PlanFlag(p) \/ Cursor(p)
    BY <1>1, <1>9, <2>3 DEF PlanAt, PlanFlag, Cursor, Row, Deadline, Steps
  <2> QED
    BY <1>11, <2>1, <2>2, <2>3
<1>12. CASE LimitAt(p) \/ LimitFlag(p) \/ LimitMeta(p) \/ Pause(p)
  <2>1. CASE LimitAt(p) \/ LimitFlag(p)
    BY <1>1, <1>9, <2>1 DEF LimitAt, LimitFlag, Row, Deadline, Steps
  <2>2. CASE LimitMeta(p)
    BY <1>1, <1>9, <2>2, Versions DEF LimitMeta, Row, Steps
  <2>3. CASE Pause(p)
    BY <1>1, <1>9, <2>3 DEF Pause, Row, Deadline, Steps
  <2> QED
    BY <1>12, <2>1, <2>2, <2>3
<1> QED
  BY <1>2, <1>3, <1>4, <1>5, <1>6, <1>7, <1>8, <1>10, <1>11, <1>12 DEF PollOne

LEMMA TypeInit == Init => TypeOK
  BY UrlAssumption, BoundAssumption, IdleType
  DEF Init, TypeOK, Row, Deadline, Cadence

LEMMA EditType ==
  ASSUME TypeOK, UserActs
  PROVE  edits' \in 0..MaxEdits
  BY BoundAssumption DEF TypeOK, UserActs

LEMMA TypeNext == TypeOK /\ HasDocument /\ [Next]_vars => TypeOK'
<1> SUFFICES ASSUME TypeOK, HasDocument, [Next]_vars PROVE TypeOK'
  OBVIOUS
<1>1. ASSUME NEW p \in Callers, PollOne(p) PROVE TypeOK'
  BY <1>1, PollOneType
<1>2. ASSUME NEW form \in Forms, NEW on \in BOOLEAN, Save(form, on) PROVE TypeOK'
  <2>1. row \in Row /\ form.url \in Urls /\ form.auto \in BOOLEAN
    BY UrlAssumption DEF TypeOK
  <2>2. row' = [row EXCEPT !.url = form.url, !.auto = form.auto, !.enabled = on,
                           !.reason = FALSE,
                           !.interval = IF form.auto THEN @ ELSE "fixed"]
    BY <1>2 DEF Save
  <2>3. row' \in Row
    BY <2>1, <2>2 DEF Row, Cadence
  <2> QED
    BY <1>2, <2>3, EditType DEF Save, TypeOK
<1>3. CASE Toggle
  <2>1. row \in Row /\ row.enabled \in BOOLEAN /\ row.reason \in BOOLEAN
    BY DEF TypeOK, Row
  <2>2. row' = [row EXCEPT !.enabled = ~row.enabled, !.reason = row.reason /\ row.enabled]
    BY <1>3, <2>1 DEF Toggle
  <2>3. row' \in Row
    BY <2>1, <2>2 DEF Row
  <2> QED
    BY <1>3, <2>3, EditType DEF Toggle, TypeOK
<1>8. CASE LoadOlder
  <2>1. row' \in Row
    BY <1>8 DEF LoadOlder, TypeOK, Row
  <2> QED
    BY <1>8, <2>1, EditType DEF LoadOlder, TypeOK
<1>4. CASE DeadlinePasses
  BY <1>4 DEF DeadlinePasses, TypeOK, Row, Deadline
<1>5. CASE Crash
  <2>1. call' \in [Callers -> Call]
    BY <1>5, IdleType DEF Crash
  <2> QED
    BY <1>5, <2>1, BoundAssumption DEF Crash, TypeOK
<1>6. ASSUME NEW u \in Urls, Publish(u) PROVE TypeOK'
  BY <1>6, BoundAssumption DEF Publish, TypeOK
<1>7. CASE UNCHANGED vars
  BY <1>7 DEF vars, TypeOK
<1> QED
  BY <1>1, <1>2, <1>3, <1>4, <1>5, <1>6, <1>7, <1>8 DEF Next

(* Only the caller that acts moves. *)
LEMMA OneMoves ==
  ASSUME TypeOK, NEW p \in Callers, PollOne(p), NEW q \in Callers, q # p
  PROVE  call'[q] = call[q]
  BY DEF PollOne, Start, NotModified, Fetched, Refused, Ingest, IngestFails, Meta,
         ClearAt, ClearFlag, Times, LastItem, Interval, Quiet, PlanAt, PlanFlag, Cursor,
         LimitAt, LimitFlag, LimitMeta, FailMeta, Pause, Write, Goto, TypeOK

LEMMA DocumentNext == TypeOK /\ HasDocument /\ [Next]_vars => HasDocument'
<1> SUFFICES ASSUME TypeOK, HasDocument, [Next]_vars, NEW q \in Callers, At(q, "ingest")'
             PROVE  call'[q].got # 0
  BY DEF HasDocument
<1>1. CASE UNCHANGED call
  BY <1>1 DEF HasDocument, At
<1>2. CASE Crash
  BY <1>2 DEF Crash, At, Idle
<1>3. ASSUME NEW p \in Callers, PollOne(p) PROVE call'[q].got # 0
  <2>1. CASE q # p
    BY <1>3, <2>1, OneMoves DEF HasDocument, At
  <2>2. CASE q = p /\ Fetched(p)
    BY <2>2 DEF Fetched, Target, Seen, TypeOK, Call, Snapshot
  <2>3. CASE q = p /\ ~Fetched(p)
    <3> SUFFICES call'[p].pc # "ingest"
      BY <2>3 DEF At
    <3>1. call[p] \in Call /\ call \in [Callers -> Call]
      BY DEF TypeOK
    <3>2. ASSUME NEW from, NEW row1, NEW to, Write(p, from, row1, to), to # "ingest"
          PROVE  call'[p].pc # "ingest"
      BY <3>1, <3>2 DEF Write, Goto, Idle, Call
    <3>3. CASE FailMeta(p)
      BY <3>1, <3>3 DEF FailMeta, Call
    <3>10. CASE Start(p)
      <4>1. call'[p] = [Idle EXCEPT !.pc = "sent", !.seen = SnapshotOf(row)]
        BY <3>1, <3>10 DEF Start
      <4> QED
        BY <4>1 DEF Idle
    <3>8. CASE Refused(p)
      BY <3>1, <3>8 DEF Refused, Idle
    <3>9. CASE Ingest(p)
      BY <3>1, <3>9 DEF Ingest, Call
    <3>4. CASE NotModified(p) \/ Times(p)
      BY <3>1, <3>4 DEF NotModified, Times, Goto, Call
    <3>5. CASE IngestFails(p) \/ Meta(p) \/ ClearAt(p) \/ ClearFlag(p) \/ LastItem(p)
      BY <3>2, <3>5 DEF IngestFails, Meta, ClearAt, ClearFlag, LastItem
    <3>6. CASE Interval(p) \/ PlanAt(p) \/ PlanFlag(p) \/ Cursor(p)
      BY <3>2, <3>6 DEF Interval, Quiet, PlanAt, PlanFlag, Cursor
    <3>7. CASE LimitAt(p) \/ LimitFlag(p) \/ LimitMeta(p) \/ Pause(p)
      BY <3>2, <3>7 DEF LimitAt, LimitFlag, LimitMeta, Pause
    <3> QED
      BY <1>3, <2>3, <3>3, <3>4, <3>5, <3>6, <3>7, <3>8, <3>9, <3>10 DEF PollOne
  <2> QED
    BY <2>1, <2>2, <2>3
<1>4. ASSUME NEW form \in Forms, NEW on \in BOOLEAN, Save(form, on) PROVE UNCHANGED call
  BY <1>4 DEF Save
<1>5. Toggle \/ LoadOlder \/ DeadlinePasses \/ UNCHANGED vars => UNCHANGED call
  BY DEF Toggle, LoadOlder, DeadlinePasses, vars
<1>6. ASSUME NEW u \in Urls, Publish(u) PROVE UNCHANGED call
  BY <1>6 DEF Publish
<1> QED
  BY <1>1, <1>2, <1>3, <1>4, <1>5, <1>6 DEF Next

LEMMA DocumentInit == Init => HasDocument
  BY DEF Init, HasDocument, At, Idle

(* Type correctness. *)
THEOREM TypeCorrect == Spec => []TypeOK
<1>1. Init => TypeOK /\ HasDocument
  BY TypeInit, DocumentInit
<1>2. TypeOK /\ HasDocument /\ [Next]_vars => (TypeOK /\ HasDocument)'
  BY TypeNext, DocumentNext
<1> QED
  BY <1>1, <1>2, PTL DEF Spec

-----------------------------------------------------------------------------
(* A paused feed that says why stays paused. *)

LEMMA ReasonNext == TypeOK /\ ReasonMeansPaused /\ [Next]_vars => ReasonMeansPaused'
<1> SUFFICES ASSUME TypeOK, ReasonMeansPaused, [Next]_vars PROVE ReasonMeansPaused'
  OBVIOUS
<1> DEFINE Same == row'.reason = row.reason /\ row'.enabled = row.enabled
<1>1. row \in Row
  BY DEF TypeOK
<1>2. ASSUME NEW p \in Callers, PollOne(p) PROVE Same \/ Pause(p)
  <2>1. CASE Start(p) \/ NotModified(p) \/ Fetched(p) \/ Refused(p) \/ Ingest(p) \/ Times(p)
    BY <2>1 DEF Start, NotModified, Fetched, Refused, Ingest, Times
  <2>2. CASE IngestFails(p) \/ Meta(p) \/ ClearAt(p) \/ ClearFlag(p) \/ FailMeta(p)
    BY <1>1, <2>2 DEF IngestFails, Meta, ClearAt, ClearFlag, FailMeta, Write, Row
  <2>3. CASE LastItem(p) \/ Interval(p) \/ PlanAt(p) \/ PlanFlag(p) \/ Cursor(p)
    BY <1>1, <2>3 DEF LastItem, Interval, Quiet, PlanAt, PlanFlag, Cursor, Write, Row
  <2>4. CASE LimitAt(p) \/ LimitFlag(p) \/ LimitMeta(p)
    BY <1>1, <2>4 DEF LimitAt, LimitFlag, LimitMeta, Write, Row
  <2> QED
    BY <1>2, <2>1, <2>2, <2>3, <2>4 DEF PollOne
<1>3. ASSUME NEW p \in Callers, Pause(p) PROVE ~row'.enabled
  BY <1>1, <1>3 DEF Pause, Write, Row
<1>4. ASSUME NEW form \in Forms, NEW on \in BOOLEAN, Save(form, on) PROVE ~row'.reason
  BY <1>1, <1>4 DEF Save, Row
<1>5. CASE Toggle
  <2>1. row'.enabled = ~row.enabled /\ row'.reason = (row.reason /\ row.enabled)
    BY <1>1, <1>5 DEF Toggle, Row
  <2> QED
    BY <2>1 DEF ReasonMeansPaused
<1>6. CASE LoadOlder \/ DeadlinePasses
  BY <1>1, <1>6 DEF LoadOlder, DeadlinePasses, Row, ReasonMeansPaused
<1>7. CASE Crash \/ UNCHANGED vars
  BY <1>7 DEF Crash, vars, ReasonMeansPaused
<1>8. ASSUME NEW u \in Urls, Publish(u) PROVE Same
  BY <1>8 DEF Publish
<1> QED
  BY <1>2, <1>3, <1>4, <1>5, <1>6, <1>7, <1>8 DEF Next, ReasonMeansPaused

(* A feed with a disabled reason is never enabled, whoever writes the row.  *)
THEOREM ReasonStaysPaused == Spec => []ReasonMeansPaused
<1> DEFINE IInv == TypeOK /\ HasDocument /\ ReasonMeansPaused
<1>1. Init => IInv
  BY TypeInit, DocumentInit DEF Init, ReasonMeansPaused
<1>2. IInv /\ [Next]_vars => IInv'
  BY TypeNext, DocumentNext, ReasonNext
<1> QED
  BY <1>1, <1>2, PTL DEF Spec

-----------------------------------------------------------------------------
(* A 304 hides nothing, while the feed's URL is not edited.                 *)

SameAddress == \A form \in Forms : form.url = HomeUrl

HomeOnly == row.url = HomeUrl /\ \A p \in Callers : Target(p) = HomeUrl

(* A version that is kept somewhere was ingested and is not ahead of the site. *)
Known(v) == v # 0 => <<HomeUrl, v>> \in stored /\ v <= site[HomeUrl]

Ingested ==
  /\ Known(row.val)
  /\ \A p \in Callers :
       /\ Known(Seen(p).val)
       /\ call[p].got <= site[HomeUrl]
       /\ ~At(p, "ingest") => Known(call[p].got)

Validators == HomeOnly /\ Ingested

LEMMA IdleKnows == Idle.seen.url = HomeUrl /\ Idle.seen.val = 0 /\ Idle.got = 0 /\ Idle.pc = "idle"
  BY DEF Idle, NoSnapshot

(* A step of p that moves neither the documents nor the site, keeps what p  *)
(* knows or forgets it, and leaves a known validator in the row.            *)
LEMMA KeepsValidators ==
  ASSUME TypeOK, Validators, NEW p \in Callers,
         NEW c \in Call, call' = [call EXCEPT ![p] = c],
         UNCHANGED <<site, stored>>,
         row'.url = HomeUrl, Known(row'.val),
         c.seen.url = HomeUrl, Known(c.seen.val),
         c.got <= site[HomeUrl], c.pc # "ingest" => Known(c.got)
  PROVE  Validators'
<1>1. \A q \in Callers : call'[q] = IF q = p THEN c ELSE call[q]
  BY DEF TypeOK
<1> QED
  BY <1>1 DEF Validators, HomeOnly, Ingested, Known, Target, Seen, At

(* A statement that leaves a known validator in the row. *)
LEMMA WriteKnows ==
  ASSUME TypeOK, Validators, NEW p \in Callers, NEW from, NEW r \in Row, NEW to \in Steps,
         Write(p, from, r, to), to # "ingest", from # "ingest" \/ to = "idle",
         r.url = HomeUrl, Known(r.val)
  PROVE  Validators'
<1> DEFINE c == IF to = "idle" THEN Idle ELSE [call[p] EXCEPT !.pc = to]
<1>1. call[p] \in Call /\ call[p].pc = from /\ site[HomeUrl] \in Nat
  BY UrlAssumption, BoundAssumption DEF TypeOK, Write, At
<1>2. call' = [call EXCEPT ![p] = c] /\ row' = r /\ UNCHANGED <<site, stored>>
  BY DEF Write, Goto
<1>3. /\ Target(p) = HomeUrl /\ Known(Seen(p).val)
      /\ call[p].got <= site[HomeUrl] /\ (~At(p, "ingest") => Known(call[p].got))
  BY DEF Validators, HomeOnly, Ingested
<1>4. CASE to = "idle"
  <2>1. c = Idle
    BY <1>4
  <2>2. /\ Idle \in Call /\ Known(Idle.seen.val) /\ Known(Idle.got)
        /\ Idle.got <= site[HomeUrl] /\ Idle.seen.url = HomeUrl
    BY <1>1, IdleType, IdleKnows DEF Known
  <2> HIDE DEF c
  <2> QED
    BY <1>2, <2>1, <2>2, KeepsValidators
<1>5. CASE to # "idle"
  <2>1. /\ c \in Call /\ c.seen = call[p].seen /\ c.got = call[p].got /\ from # "ingest"
    BY <1>1, <1>5 DEF Call
  <2> HIDE DEF c
  <2>2. /\ c.seen.url = HomeUrl /\ Known(c.seen.val)
        /\ c.got <= site[HomeUrl] /\ Known(c.got)
    BY <1>1, <1>3, <2>1 DEF Target, Seen, At
  <2> QED
    BY <1>2, <2>1, <2>2, KeepsValidators
<1> QED
  BY <1>4, <1>5

LEMMA PollOneKnows ==
  ASSUME TypeOK, HasDocument, Validators, NEW p \in Callers, PollOne(p)
  PROVE  Validators'
<1> DEFINE c == call[p]
<1>1. /\ row \in Row /\ c \in Call /\ call \in [Callers -> Call]
      /\ site[HomeUrl] \in Nat /\ row.val \in Nat /\ c.got \in Nat
      /\ c.seen \in Snapshot /\ c.newest \in 0..MaxVersion
  BY UrlAssumption, BoundAssumption DEF TypeOK, Row, Call
<1>2. /\ row.url = HomeUrl /\ Known(row.val) /\ c.seen.url = HomeUrl /\ Known(c.seen.val)
      /\ c.got <= site[HomeUrl] /\ (c.pc # "ingest" => Known(c.got)) /\ Known(0)
  BY DEF Validators, HomeOnly, Ingested, Target, Seen, At, Known
<1>3. ASSUME NEW from, NEW r \in Row, NEW to \in Steps, Write(p, from, r, to),
             to # "ingest", from # "ingest" \/ to = "idle", r.url = row.url, Known(r.val)
      PROVE  Validators'
  BY <1>2, <1>3, WriteKnows
<1>4. ASSUME NEW d \in Call, call' = [call EXCEPT ![p] = d], UNCHANGED <<site, stored>>,
             row'.url = row.url, Known(row'.val), d.seen.url = HomeUrl, Known(d.seen.val),
             d.got <= site[HomeUrl], d.pc # "ingest" => Known(d.got)
      PROVE  Validators'
  BY <1>2, <1>4, KeepsValidators
<1>21. ASSUME NEW d \in Call, call' = [call EXCEPT ![p] = d], UNCHANGED <<row, site, stored>>,
              d.seen.url = HomeUrl, Known(d.seen.val),
              d.got <= site[HomeUrl], d.pc # "ingest" => Known(d.got)
       PROVE  Validators'
  BY <1>2, <1>4, <1>21
<1>22. ASSUME NEW from, NEW r \in Row, NEW to \in Steps, Write(p, from, r, to),
              to # "ingest", from # "ingest", r.url = row.url, r.val \in {row.val, 0}
       PROVE  Validators'
  BY <1>2, <1>3, <1>22
<1>5. CASE Start(p)
  <2> DEFINE d == [Idle EXCEPT !.pc = "sent", !.seen = SnapshotOf(row)]
  <2>1. /\ call' = [call EXCEPT ![p] = d] /\ UNCHANGED <<row, site, stored>>
        /\ d.seen = SnapshotOf(row) /\ d.got = 0
    BY <1>5 DEF Start, Idle
  <2>2. d \in Call /\ d.seen.url = HomeUrl /\ d.seen.val = row.val
    BY <1>1, <1>2, <2>1, IdleType, SnapshotFields DEF Call, Steps
  <2> HIDE DEF d
  <2>3. Known(d.seen.val) /\ Known(d.got) /\ d.got <= site[HomeUrl]
    BY <1>1, <1>2, <2>1, <2>2 DEF Known
  <2> QED
    BY <1>21, <2>1, <2>2, <2>3
<1>6. CASE NotModified(p)
  <2>1. Write(p, "sent", row, "meta")
    BY <1>6 DEF NotModified, Write
  <2> QED
    BY <1>1, <1>2, <1>3, <2>1 DEF Steps
<1>7. CASE Fetched(p)
  <2> DEFINE d == [c EXCEPT !.pc = "ingest", !.got = site[HomeUrl]]
  <2>1. /\ call' = [call EXCEPT ![p] = d] /\ UNCHANGED <<row, site, stored>>
    BY <1>1, <1>2, <1>7 DEF Fetched, Target, Seen
  <2>2. site[HomeUrl] \in 0..MaxVersion
    BY UrlAssumption DEF TypeOK
  <2>3. d \in Call /\ d.seen = c.seen /\ d.got = site[HomeUrl] /\ d.pc = "ingest"
    BY <1>1, <2>2 DEF Call, Steps
  <2> HIDE DEF d
  <2>4. d.seen.url = HomeUrl /\ Known(d.seen.val) /\ d.got <= site[HomeUrl]
    BY <1>1, <1>2, <2>3
  <2> QED
    BY <1>21, <2>1, <2>3, <2>4
<1>8. CASE Refused(p)
  <2>1. PICK step \in {"limitAt", "pause", "failMeta"} :
          call' = [call EXCEPT ![p] = [Idle EXCEPT !.pc = step]]
    BY <1>8 DEF Refused
  <2> DEFINE d == [Idle EXCEPT !.pc = step]
  <2>2. d \in Call
    BY IdleType DEF Call, Steps
  <2>3. d.seen = Idle.seen /\ d.got = Idle.got
    BY DEF Idle
  <2>4. UNCHANGED <<row, site, stored>> /\ call' = [call EXCEPT ![p] = d]
    BY <1>8, <2>1 DEF Refused
  <2> HIDE DEF d
  <2>5. /\ d.seen.url = HomeUrl /\ Known(d.seen.val) /\ Known(d.got)
        /\ d.got <= site[HomeUrl]
    BY <1>1, <2>3, IdleKnows DEF Known
  <2> QED
    BY <1>21, <2>2, <2>4, <2>5
<1>9. CASE Ingest(p)
  <2> DEFINE document == <<HomeUrl, c.got>>
             d == [c EXCEPT !.pc = "meta", !.new = document \notin stored]
  <2>1. /\ call' = [call EXCEPT ![p] = d] /\ stored' = stored \cup {document}
        /\ UNCHANGED <<row, site>>
    BY <1>1, <1>2, <1>9 DEF Ingest, Target, Seen
  <2>2. d.seen = c.seen /\ d.got = c.got /\ d.pc = "meta"
    BY <1>1 DEF Call
  <2>3. \A q \in Callers : call'[q] = IF q = p THEN d ELSE call[q]
    BY <1>1, <2>1
  <2> HIDE DEF d
  <2> QED
    BY <1>1, <1>2, <2>1, <2>2, <2>3 DEF Validators, HomeOnly, Ingested, Known, Target, Seen, At
<1>10. CASE Times(p)
  <2>1. CASE stored = {}
    <3>1. Write(p, "times", row, "cursor")
      BY <1>10, <2>1 DEF Times, Write
    <3> QED
      BY <1>1, <1>2, <1>3, <3>1 DEF Steps
  <2>2. CASE stored # {}
    <3>1. PICK newest \in {x[2] : x \in stored} :
            call' = [call EXCEPT ![p] = [c EXCEPT !.pc = "lastItem", !.newest = newest]]
      BY <1>1, <1>10, <2>2 DEF Times
    <3> DEFINE d == [c EXCEPT !.pc = "lastItem", !.newest = newest]
    <3>2. newest \in 0..MaxVersion
      BY <3>1 DEF TypeOK
    <3>4. /\ UNCHANGED <<row, site, stored>> /\ c.pc = "times" /\ call' = [call EXCEPT ![p] = d]
      BY <1>10, <3>1 DEF Times, At
    <3>3. d \in Call /\ d.seen = c.seen /\ d.got = c.got
      BY <1>1, <3>2 DEF Call, Steps
    <3> HIDE DEF d
    <3> QED
      BY <1>1, <1>2, <1>21, <3>3, <3>4
  <2> QED
    BY <2>1, <2>2
<1>11. CASE FailMeta(p)
  <2> DEFINE d == [c EXCEPT !.pc = "clearAt", !.failed = TRUE]
  <2>1. /\ call' = [call EXCEPT ![p] = d] /\ UNCHANGED <<site, stored>> /\ c.pc = "failMeta"
    BY <1>1, <1>11 DEF FailMeta, At
  <2>2. row'.url = row.url /\ row'.val = 0
    BY <1>1, <1>11 DEF FailMeta, Row
  <2>3. d \in Call /\ d.seen = c.seen /\ d.got = c.got
    BY <1>1 DEF Call, Steps
  <2> HIDE DEF d
  <2> QED
    BY <1>1, <1>2, <1>4, <2>1, <2>2, <2>3
<1>12. CASE IngestFails(p)
  BY <1>1, <1>2, <1>3, <1>12 DEF IngestFails, Steps
<1>13. CASE Meta(p)
  <2> DEFINE r == [row EXCEPT !.val = IF c.got = 0 THEN c.seen.val ELSE c.got, !.polled = TRUE]
  <2>1. Write(p, "meta", r, "clearAt") /\ c.pc = "meta"
    BY <1>13 DEF Meta, Seen, Write, At
  <2>2. r \in Row /\ r.url = row.url /\ r.val = IF c.got = 0 THEN c.seen.val ELSE c.got
    BY <1>1 DEF Row, Call, Snapshot
  <2> HIDE DEF r
  <2> QED
    BY <1>1, <1>2, <1>3, <2>1, <2>2 DEF Steps
<1>14. CASE ClearAt(p) \/ ClearFlag(p)
  BY <1>1, <1>22, <1>14 DEF ClearAt, ClearFlag, Row, Deadline, Steps
<1>15. CASE LastItem(p)
  BY <1>1, <1>2, <1>3, <1>15 DEF LastItem, Row, Steps
<1>16. CASE Interval(p)
  BY <1>1, <1>2, <1>3, <1>16 DEF Interval, Quiet, Row, Cadence, Steps
<1>17. CASE PlanAt(p) \/ PlanFlag(p) \/ Cursor(p)
  BY <1>1, <1>22, <1>17 DEF PlanAt, PlanFlag, Cursor, Row, Deadline, Steps
<1>18. CASE LimitAt(p) \/ LimitFlag(p)
  BY <1>1, <1>22, <1>18 DEF LimitAt, LimitFlag, Row, Deadline, Steps
<1>19. CASE LimitMeta(p)
  BY <1>1, <1>22, <1>19, Versions DEF LimitMeta, Row, Steps
<1>20. CASE Pause(p)
  BY <1>1, <1>22, <1>20 DEF Pause, Row, Deadline, Steps
<1> QED
  BY <1>5, <1>6, <1>7, <1>8, <1>9, <1>10, <1>11, <1>12, <1>13, <1>14, <1>15, <1>16, <1>17,
     <1>18, <1>19, <1>20 DEF PollOne

LEMMA ValidatorsNext ==
  SameAddress /\ TypeOK /\ HasDocument /\ Validators /\ [Next]_vars => Validators'
<1> SUFFICES ASSUME SameAddress, TypeOK, HasDocument, Validators, [Next]_vars
             PROVE  Validators'
  OBVIOUS
<1>1. row \in Row
  BY DEF TypeOK
<1>2. ASSUME UNCHANGED <<site, stored, call>>, row'.url = row.url, row'.val = row.val
      PROVE  Validators'
  BY <1>2 DEF Validators, HomeOnly, Ingested, Known, Target, Seen, At
<1>3. ASSUME NEW p \in Callers, PollOne(p) PROVE Validators'
  BY <1>3, PollOneKnows
<1>4. ASSUME NEW form \in Forms, NEW on \in BOOLEAN, Save(form, on) PROVE Validators'
  <2>1. row'.url = row.url /\ row'.val = row.val
    BY <1>1, <1>4 DEF Save, Row, SameAddress, Validators, HomeOnly
  <2> QED
    BY <1>2, <1>4, <2>1 DEF Save
<1>5. CASE Toggle \/ LoadOlder \/ DeadlinePasses
  <2>1. row'.url = row.url /\ row'.val = row.val
    BY <1>1, <1>5 DEF Toggle, LoadOlder, DeadlinePasses, Row
  <2> QED
    BY <1>2, <1>5, <2>1 DEF Toggle, LoadOlder, DeadlinePasses
<1>6. CASE Crash
  <2>1. site[HomeUrl] \in Nat
    BY UrlAssumption, BoundAssumption DEF TypeOK
  <2>2. \A p \in Callers : call'[p] = Idle
    BY <1>6 DEF Crash
  <2> QED
    BY <1>6, <2>1, <2>2, IdleKnows
    DEF Crash, Validators, HomeOnly, Ingested, Known, Target, Seen, At
<1>7. ASSUME NEW u \in Urls, Publish(u) PROVE Validators'
  <2>1. /\ site[HomeUrl] \in Nat /\ site'[HomeUrl] \in Nat
        /\ site[HomeUrl] <= site'[HomeUrl]
    BY <1>7, UrlAssumption, BoundAssumption DEF Publish, TypeOK
  <2>2. row.val \in Nat /\ \A p \in Callers : Seen(p).val \in Nat /\ call[p].got \in Nat
    BY BoundAssumption DEF TypeOK, Row, Call, Snapshot, Seen
  <2>3. UNCHANGED <<row, stored, call>>
    BY <1>7 DEF Publish
  <2> QED
    BY <2>1, <2>2, <2>3 DEF Validators, HomeOnly, Ingested, Known, Target, Seen, At
<1>8. CASE UNCHANGED vars
  BY <1>2, <1>8 DEF vars
<1> QED
  BY <1>3, <1>4, <1>5, <1>6, <1>7, <1>8 DEF Next

LEMMA ValidatorsInit == Init => Validators
<1> SUFFICES ASSUME Init PROVE Validators
  OBVIOUS
<1>1. row.url = HomeUrl /\ row.val = 0 /\ site[HomeUrl] = 1
  BY UrlAssumption DEF Init
<1>2. \A p \in Callers : call[p] = Idle
  BY DEF Init
<1> QED
  BY <1>1, <1>2, IdleKnows DEF Validators, HomeOnly, Ingested, Known, Target, Seen, At

(* The version a 304 vouches for is the one the snapshot's validator names:  *)
(* it is not older (the site would have sent the document) nor newer.        *)
LEMMA VouchedFor ==
  ASSUME TypeOK, Validators, NEW p \in Callers, NotModified(p)
  PROVE  <<Target(p), site[Target(p)]>> \in stored
<1>1. Target(p) = HomeUrl /\ Seen(p).val # 0 /\ site[HomeUrl] <= Seen(p).val
  BY DEF NotModified, Unchanged, Validators, HomeOnly
<1>2. <<HomeUrl, Seen(p).val>> \in stored /\ Seen(p).val <= site[HomeUrl]
  BY <1>1 DEF Validators, Ingested, Known
<1>3. site[HomeUrl] \in Nat /\ Seen(p).val \in Nat
  BY UrlAssumption, BoundAssumption DEF TypeOK, Call, Snapshot, Seen
<1>4. site[HomeUrl] = Seen(p).val
  BY <1>1, <1>2, <1>3
<1> QED
  BY <1>1, <1>2, <1>4

(* While users do not change its address, a feed never answers 304 over a    *)
(* document whose items were not ingested, whatever the callers, the site    *)
(* and crashes do between PollOne's statements.                              *)
THEOREM NothingIsHidden == SameAddress => (Spec => NothingHidden)
<1> SUFFICES ASSUME SameAddress PROVE Spec => NothingHidden
  OBVIOUS
<1> DEFINE IInv == TypeOK /\ HasDocument /\ Validators
<1>1. Init => IInv
  BY TypeInit, DocumentInit, ValidatorsInit
<1>2. IInv /\ [Next]_vars => IInv'
  BY TypeNext, DocumentNext, ValidatorsNext
<1>3. IInv => \A p \in Callers : NotModified(p) => <<Target(p), site[Target(p)]>> \in stored
  BY VouchedFor
<1> HIDE DEF IInv
<1> QED
  BY <1>1, <1>2, <1>3, PTL DEF Spec, NothingHidden

-----------------------------------------------------------------------------
(* Polls do not clobber a walk of the older pages, one PollOne at a time.   *)

(* The statements that follow the poll metadata, and those before it. *)
Recorded == {"clearAt", "clearFlag", "times", "lastItem", "interval", "planAt",
             "planFlag", "cursor"}
Fetching == {"sent", "ingest", "meta"}

(* A call that may still record the second page as a first poll does. *)
FirstPoll(c) == c.pc \in Fetching \cup Recorded /\ ~c.failed /\ ~c.seen.polled

(* What a call knows of the row r: a first poll in progress is the only one *)
(* the row has seen, and a failed one ends before the cursor.               *)
Knows(c, r) ==
  /\ FirstPoll(c) => r.cursor = "none"
  /\ c.pc \in Recorded => r.polled
  /\ c.failed => c.pc \in {"clearAt", "clearFlag"}

Walk ==
  /\ row.cursor # "none" => row.polled
  /\ \A p \in Callers : Knows(call[p], row)

(* A step that keeps the cursor and does not unset the poll record. *)
LEMMA KeepsWalk ==
  ASSUME TypeOK, Walk, NEW p \in Callers,
         NEW c \in Call, call' = [call EXCEPT ![p] = c],
         row'.cursor = row.cursor, row.polled => row'.polled, Knows(c, row')
  PROVE  Walk'
<1>1. \A q \in Callers : call'[q] = IF q = p THEN c ELSE call[q]
  BY DEF TypeOK
<1> QED
  BY <1>1 DEF Walk, Knows, FirstPoll

LEMMA IdleWalks == Idle \in Call /\ \A r : Knows(Idle, r)
  BY IdleType DEF Idle, Knows, FirstPoll, Fetching, Recorded, NoSnapshot

(* A statement moves a call from one side of the poll metadata to the same  *)
(* side, to the end, or over it when it writes the metadata.                *)
LEMMA WriteWalks ==
  ASSUME TypeOK, Walk, NEW p \in Callers, NEW from, NEW r \in Row, NEW to \in Steps,
         Write(p, from, r, to),
         r.cursor = row.cursor, row.polled => r.polled,
         \/ to = "idle"
         \/ to \in Recorded /\ from \in Recorded \cup Fetching /\ r.polled
            /\ (call[p].failed => to \in {"clearAt", "clearFlag"})
         \/ to \notin Recorded /\ (from \in Fetching \/ to \notin Fetching)
            /\ ~call[p].failed
  PROVE  Walk'
<1> DEFINE c == IF to = "idle" THEN Idle ELSE [call[p] EXCEPT !.pc = to]
<1>1. call[p] \in Call /\ call[p].pc = from
  BY DEF TypeOK, Write, At
<1>2. call' = [call EXCEPT ![p] = c] /\ row' = r
  BY DEF Write, Goto
<1>3. c \in Call /\ Knows(c, r)
  <2>1. CASE to = "idle"
    BY <2>1, IdleWalks
  <2>2. CASE to # "idle"
    <3>1. /\ c \in Call /\ c.pc = to /\ c.failed = call[p].failed
          /\ c.seen = call[p].seen
      BY <1>1, <2>2 DEF Call
    <3>2. Knows(call[p], row)
      BY DEF Walk
    <3> HIDE DEF c
    <3> QED
      BY <1>1, <2>2, <3>1, <3>2 DEF Knows, FirstPoll
  <2> QED
    BY <2>1, <2>2
<1> HIDE DEF c
<1> QED
  BY <1>2, <1>3, KeepsWalk

(* The last statement of the only call may write the cursor: then nothing   *)
(* else is in progress and the poll is recorded.                            *)
LEMMA CursorWalks ==
  ASSUME TypeOK, Walk, Callers = {Scheduler}, NEW p \in Callers, Cursor(p)
  PROVE  Walk' /\ (row.cursor = "older" => row'.cursor = "older")
<1>1. row \in Row /\ call[p] \in Call /\ call[p].pc = "cursor"
  BY DEF TypeOK, Cursor, Write, At
<1>2. Knows(call[p], row)
  BY DEF Walk
<1>3. /\ call' = [call EXCEPT ![p] = Idle]
      /\ row' = IF Seen(p).polled \/ call[p].got = 0 THEN row ELSE [row EXCEPT !.cursor = "second"]
  BY DEF Cursor, Write, Goto
<1>4. row.polled /\ row'.polled
  BY <1>1, <1>2, <1>3 DEF Knows, Recorded, Row
<1>5. \A q \in Callers : call'[q] = Idle
  BY <1>3 DEF TypeOK
<1>6. Walk'
  BY <1>4, <1>5, IdleWalks DEF Walk
<1>7. row.cursor = "older" => row'.cursor = "older"
  BY <1>1, <1>2, <1>3 DEF Knows, FirstPoll, Recorded, Seen
<1> QED
  BY <1>6, <1>7

LEMMA PollOneWalks ==
  ASSUME TypeOK, Walk, Callers = {Scheduler}, NEW p \in Callers, PollOne(p)
  PROVE  Walk' /\ (row.cursor = "older" => row'.cursor = "older")
<1> DEFINE c == call[p]
           Done == Walk' /\ (row.cursor = "older" => row'.cursor = "older")
<1>1. /\ row \in Row /\ c \in Call /\ call \in [Callers -> Call] /\ c.seen \in Snapshot
      /\ c.newest \in 0..MaxVersion
  BY DEF TypeOK, Call
<1>2. Knows(c, row) /\ (row.cursor # "none" => row.polled)
  BY DEF Walk
<1>3. ASSUME NEW d \in Call, call' = [call EXCEPT ![p] = d], row'.cursor = row.cursor,
             row.polled => row'.polled, Knows(d, row')
      PROVE  Done
  BY <1>3, KeepsWalk
<1>4. ASSUME NEW from, NEW r \in Row, NEW to \in Steps, Write(p, from, r, to),
             r.cursor = row.cursor, row.polled => r.polled,
             \/ to = "idle"
             \/ to \in Recorded /\ from \in Recorded \cup Fetching /\ r.polled
                /\ (call[p].failed => to \in {"clearAt", "clearFlag"})
             \/ to \notin Recorded /\ (from \in Fetching \/ to \notin Fetching)
                /\ ~call[p].failed
      PROVE  Done
  BY <1>4, WriteWalks DEF Write
(* Statements past the poll metadata, of a call that did not fail. *)
<1>5. ASSUME NEW from \in Recorded \ {"clearAt", "clearFlag"}, NEW r \in Row,
             NEW to \in Recorded, Write(p, from, r, to),
             r.cursor = row.cursor, r.polled = row.polled
      PROVE  Done
  <2>1. c.pc = from
    BY <1>5 DEF Write, At
  <2>2. row.polled /\ ~c.failed
    BY <1>2, <1>5, <2>1 DEF Knows
  <2>3. to \in Steps
    BY <1>5 DEF Recorded, Steps
  <2> QED
    BY <1>4, <1>5, <2>2, <2>3
(* Statements of the rate-limit branch. *)
<1>6. ASSUME NEW from \in {"limitAt", "limitFlag"}, NEW r \in Row,
             NEW to \in {"limitFlag", "limitMeta"}, Write(p, from, r, to),
             r.cursor = row.cursor, r.polled = row.polled
      PROVE  Done
  <2>1. c.pc = from
    BY <1>6 DEF Write, At
  <2>2. ~c.failed
    BY <1>2, <1>6, <2>1 DEF Knows
  <2>3. to \in Steps /\ to \notin Recorded /\ to \notin Fetching
    BY <1>6 DEF Recorded, Fetching, Steps
  <2> QED
    BY <1>4, <1>6, <2>2, <2>3
<1>7. CASE Start(p)
  <2> DEFINE d == [Idle EXCEPT !.pc = "sent", !.seen = SnapshotOf(row)]
  <2>1. /\ call' = [call EXCEPT ![p] = d] /\ UNCHANGED row
        /\ d.seen = SnapshotOf(row) /\ d.pc = "sent" /\ d.failed = FALSE
    BY <1>7 DEF Start, Idle
  <2>2. d \in Call /\ d.seen.polled = row.polled
    BY <1>1, <2>1, IdleType, SnapshotFields DEF Call, Steps
  <2> HIDE DEF d
  <2>3. Knows(d, row')
    BY <1>2, <2>1, <2>2 DEF Knows, FirstPoll, Fetching, Recorded
  <2> QED
    BY <1>3, <2>1, <2>2, <2>3
<1>8. CASE NotModified(p)
  <2>1. Write(p, "sent", row, "meta") /\ c.pc = "sent"
    BY <1>8 DEF NotModified, Write, At
  <2>2. ~c.failed
    BY <1>2, <2>1 DEF Knows
  <2> QED
    BY <1>1, <1>4, <2>1, <2>2 DEF Steps, Recorded, Fetching
<1>9. CASE Fetched(p)
  <2> DEFINE d == [c EXCEPT !.pc = "ingest", !.got = site[Target(p)]]
  <2>1. call' = [call EXCEPT ![p] = d] /\ UNCHANGED row /\ c.pc = "sent"
    BY <1>1, <1>9 DEF Fetched, At
  <2>2. site[Target(p)] \in 0..MaxVersion
    BY <1>1 DEF TypeOK, Target, Seen, Snapshot
  <2>3. d \in Call /\ d.seen = c.seen /\ d.pc = "ingest" /\ d.failed = c.failed
    BY <1>1, <2>2 DEF Call, Steps
  <2> HIDE DEF d
  <2>4. Knows(d, row')
    BY <1>2, <2>1, <2>3 DEF Knows, FirstPoll, Fetching, Recorded
  <2> QED
    BY <1>3, <2>1, <2>3, <2>4
<1>10. CASE Refused(p)
  <2>1. PICK step \in {"limitAt", "pause", "failMeta"} :
          call' = [call EXCEPT ![p] = [Idle EXCEPT !.pc = step]]
    BY <1>10 DEF Refused
  <2> DEFINE d == [Idle EXCEPT !.pc = step]
  <2>2. d \in Call /\ d.pc = step /\ d.failed = FALSE
    BY IdleType DEF Call, Steps, Idle
  <2>3. UNCHANGED row /\ call' = [call EXCEPT ![p] = d]
    BY <1>10, <2>1 DEF Refused
  <2> HIDE DEF d
  <2>4. Knows(d, row')
    BY <2>2 DEF Knows, FirstPoll, Fetching, Recorded
  <2> QED
    BY <1>3, <2>2, <2>3, <2>4
<1>11. CASE Ingest(p)
  <2> DEFINE d == [c EXCEPT !.pc = "meta",
                            !.new = <<Target(p), c.got>> \notin stored]
  <2>1. call' = [call EXCEPT ![p] = d] /\ UNCHANGED row /\ c.pc = "ingest"
    BY <1>1, <1>11 DEF Ingest, At
  <2>2. d \in Call /\ d.seen = c.seen /\ d.pc = "meta" /\ d.failed = c.failed
    BY <1>1 DEF Call, Steps
  <2> HIDE DEF d
  <2>3. Knows(d, row')
    BY <1>2, <2>1, <2>2 DEF Knows, FirstPoll, Fetching, Recorded
  <2> QED
    BY <1>3, <2>1, <2>2, <2>3
<1>12. CASE Times(p)
  <2>1. CASE stored = {}
    <3>1. Write(p, "times", row, "cursor")
      BY <1>12, <2>1 DEF Times, Write
    <3> QED
      BY <1>1, <1>5, <3>1 DEF Recorded
  <2>2. CASE stored # {}
    <3>1. PICK newest \in {x[2] : x \in stored} :
            call' = [call EXCEPT ![p] = [c EXCEPT !.pc = "lastItem", !.newest = newest]]
      BY <1>1, <1>12, <2>2 DEF Times
    <3> DEFINE d == [c EXCEPT !.pc = "lastItem", !.newest = newest]
    <3>2. newest \in 0..MaxVersion
      BY <3>1 DEF TypeOK
    <3>3. d \in Call /\ d.seen = c.seen /\ d.pc = "lastItem" /\ d.failed = c.failed
      BY <1>1, <3>2 DEF Call, Steps
    <3>4. UNCHANGED row /\ c.pc = "times" /\ call' = [call EXCEPT ![p] = d]
      BY <1>12, <3>1 DEF Times, At
    <3> HIDE DEF d
    <3>5. Knows(d, row')
      BY <1>2, <3>3, <3>4 DEF Knows, FirstPoll, Fetching, Recorded
    <3> QED
      BY <1>3, <3>3, <3>4, <3>5
  <2> QED
    BY <2>1, <2>2
<1>13. CASE FailMeta(p)
  <2> DEFINE d == [c EXCEPT !.pc = "clearAt", !.failed = TRUE]
  <2>1. call' = [call EXCEPT ![p] = d]
    BY <1>1, <1>13 DEF FailMeta
  <2>2. row'.cursor = row.cursor /\ row'.polled = TRUE
    BY <1>1, <1>13 DEF FailMeta, Row
  <2>3. d \in Call /\ d.pc = "clearAt" /\ d.failed = TRUE
    BY <1>1 DEF Call, Steps
  <2> HIDE DEF d
  <2>4. Knows(d, row')
    BY <2>2, <2>3 DEF Knows, FirstPoll
  <2> QED
    BY <1>3, <2>1, <2>2, <2>3, <2>4
<1>14. CASE IngestFails(p)
  BY <1>1, <1>4, <1>14 DEF IngestFails, Steps
<1>15. CASE Meta(p)
  <2> DEFINE r == [row EXCEPT !.val = IF c.got = 0 THEN c.seen.val ELSE c.got, !.polled = TRUE]
  <2>1. Write(p, "meta", r, "clearAt")
    BY <1>15 DEF Meta, Seen, Write, At
  <2>2. r \in Row /\ r.cursor = row.cursor /\ r.polled = TRUE
    BY <1>1 DEF Row, Call, Snapshot
  <2> HIDE DEF r
  <2> QED
    BY <1>4, <2>1, <2>2 DEF Steps, Recorded, Fetching
<1>16. CASE ClearAt(p)
  <2> DEFINE r == [row EXCEPT !.plan = "none"]
  <2>1. Write(p, "clearAt", r, "clearFlag") /\ c.pc = "clearAt"
    BY <1>16 DEF ClearAt, Write, At
  <2>2. r \in Row /\ r.cursor = row.cursor /\ r.polled = row.polled /\ row.polled
    BY <1>1, <1>2, <2>1 DEF Row, Deadline, Knows, Recorded
  <2> HIDE DEF r
  <2> QED
    BY <1>4, <2>1, <2>2 DEF Steps, Recorded, Fetching
<1>17. CASE ClearFlag(p)
  <2> DEFINE r == [row EXCEPT !.sched = FALSE]
  <2>1. Write(p, "clearFlag", r, IF c.failed THEN "idle" ELSE "times") /\ c.pc = "clearFlag"
    BY <1>17 DEF ClearFlag, Write, At
  <2>2. r \in Row /\ r.cursor = row.cursor /\ r.polled = row.polled /\ row.polled
    BY <1>1, <1>2, <2>1 DEF Row, Deadline, Knows, Recorded
  <2> HIDE DEF r
  <2>3. CASE c.failed
    BY <1>4, <2>1, <2>2, <2>3 DEF Steps
  <2>4. CASE ~c.failed
    BY <1>4, <2>1, <2>2, <2>4 DEF Steps, Recorded, Fetching
  <2> QED
    BY <2>3, <2>4
<1>18. CASE LastItem(p)
  BY <1>1, <1>5, <1>18 DEF LastItem, Row, Recorded
<1>19. CASE Interval(p)
  BY <1>1, <1>5, <1>19 DEF Interval, Quiet, Row, Cadence, Recorded
<1>20. CASE PlanAt(p) \/ PlanFlag(p)
  BY <1>1, <1>5, <1>20 DEF PlanAt, PlanFlag, Row, Deadline, Recorded
<1>21. CASE Cursor(p)
  BY <1>21, CursorWalks
<1>22. CASE LimitAt(p) \/ LimitFlag(p)
  BY <1>1, <1>6, <1>22 DEF LimitAt, LimitFlag, Row, Deadline
<1>23. CASE LimitMeta(p)
  BY <1>1, <1>4, <1>23, Versions DEF LimitMeta, Row, Steps
<1>24. CASE Pause(p)
  BY <1>1, <1>4, <1>24 DEF Pause, Row, Deadline, Steps
<1> QED
  BY <1>7, <1>8, <1>9, <1>10, <1>11, <1>12, <1>13, <1>14, <1>15, <1>16, <1>17, <1>18, <1>19,
     <1>20, <1>21, <1>22, <1>23, <1>24 DEF PollOne

LEMMA WalkNext ==
  ASSUME Callers = {Scheduler}, TypeOK, Walk, [Next]_vars
  PROVE  Walk' /\ (row.cursor = "older" => row'.cursor = "older")
<1>1. row \in Row
  BY DEF TypeOK
<1>2. ASSUME UNCHANGED call, row'.cursor = row.cursor, row'.polled = row.polled
      PROVE  Walk' /\ (row.cursor = "older" => row'.cursor = "older")
  BY <1>2 DEF Walk, Knows
<1>3. ASSUME NEW p \in Callers, PollOne(p)
      PROVE  Walk' /\ (row.cursor = "older" => row'.cursor = "older")
  BY <1>3, PollOneWalks
<1>4. ASSUME NEW form \in Forms, NEW on \in BOOLEAN, Save(form, on)
      PROVE  UNCHANGED call /\ row'.cursor = row.cursor /\ row'.polled = row.polled
  BY <1>1, <1>4 DEF Save, Row
<1>5. ASSUME Toggle \/ DeadlinePasses
      PROVE  UNCHANGED call /\ row'.cursor = row.cursor /\ row'.polled = row.polled
  BY <1>1, <1>5 DEF Toggle, DeadlinePasses, Row
<1>6. CASE LoadOlder
  <2>1. UNCHANGED call /\ row.cursor # "none" /\ row'.cursor = "older" /\ row'.polled = row.polled
    BY <1>1, <1>6 DEF LoadOlder, Row
  <2> QED
    BY <2>1 DEF Walk, Knows
<1>7. CASE Crash
  <2>1. (\A p \in Callers : call'[p] = Idle) /\ UNCHANGED row
    BY <1>7 DEF Crash
  <2> QED
    BY <2>1, IdleWalks DEF Walk
<1>8. ASSUME NEW u \in Urls, Publish(u) PROVE UNCHANGED <<row, call>>
  BY <1>8 DEF Publish
<1>9. CASE UNCHANGED vars
  BY <1>2, <1>9 DEF vars
<1> QED
  BY <1>2, <1>3, <1>4, <1>5, <1>6, <1>7, <1>8, <1>9 DEF Next

LEMMA WalkInit == Init => Walk
  BY IdleWalks DEF Init, Walk

(* While PollOne runs once at a time, as the scheduler alone runs it, a poll *)
(* never takes the user's place in the older pages back to the second page. *)
THEOREM WalkIsKept == Callers = {Scheduler} => (Spec => WalkKept)
<1> SUFFICES ASSUME Callers = {Scheduler} PROVE Spec => WalkKept
  OBVIOUS
<1> DEFINE IInv == TypeOK /\ HasDocument /\ Walk
           Stays == row.cursor = "older" => row'.cursor = "older"
<1>1. Init => IInv
  BY TypeInit, DocumentInit, WalkInit
<1>2. IInv /\ [Next]_vars => IInv' /\ Stays
  BY TypeNext, DocumentNext, WalkNext
<1> HIDE DEF IInv
<1> QED
  BY <1>1, <1>2, PTL DEF Spec, WalkKept

=============================================================================
