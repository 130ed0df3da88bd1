---------------------------- MODULE Media_proofs ----------------------------
(***************************************************************************)
(* Proofs about cached pictures, for any feeds, posts and pollers.          *)
(***************************************************************************)
EXTENDS Media, FiniteSetTheorems, TLAPS

(* A key belongs to one id; NULL is none. *)
LEMMA KeysAre ==
  /\ NULL \notin Keys
  /\ \A key \in Keys : key[1] \in Ids
  /\ \A i \in Ids, slot \in {0, 1} : Key(i, slot) \in Keys /\ Key(i, slot)[1] = i
  BY NullAssumption DEF Keys, Key, Ids

LEMMA GreatestId ==
  ASSUME NEW S \in SUBSET Ids, S # {}
  PROVE  Max(S) \in S /\ \A x \in S : Max(S) >= x
<1>0. MaxId \in Nat
  BY BoundAssumption
<1> DEFINE back == {MaxId - x : x \in S}
<1>1. \A x \in S : x \in Nat /\ MaxId - x \in Nat
  BY <1>0 DEF Ids
<1>2. back \subseteq Nat /\ back # {}
  BY <1>1
<1>3. IsWellFoundedOn(OpToRel(<, Nat), Nat)
  BY NatLessThanWellFounded
<1>4. PICK b \in back : \A c \in back : <<c, b>> \notin OpToRel(<, Nat)
  BY <1>2, <1>3, WFMin
<1>5. PICK m \in S : b = MaxId - m
  OBVIOUS
<1>6. \A x \in S : m >= x
  <2> TAKE x \in S
  <2>1. ~(MaxId - x < MaxId - m)
    BY <1>1, <1>2, <1>4, <1>5 DEF OpToRel
  <2> QED
    BY <1>0, <1>1, <2>1
<1> QED
  BY <1>6 DEF Max

-----------------------------------------------------------------------------
(* Types.  A poll that is under way has a post and an id, and keeps keys of *)
(* that id only.                                                            *)

Local(p) ==
  /\ At(p, "idle") => poll[p] = Idle
  /\ ~At(p, "idle") => poll[p].id \in Ids /\ poll[p].post \in Posts
  /\ \A key \in {poll[p].image, poll[p].media} \ {NULL} : key \in Keys /\ key[1] = poll[p].id
  /\ At(p, "setImage") => poll[p].image # NULL

Locals == poll \in [Pollers -> Poll] /\ \A p \in Pollers : Local(p)

RowTyped(row, present) ==
  row \in Row /\ row.owner \in row.listed /\ row.listed \subseteq present

RowsTyped == Live \subseteq Ids /\ \A i \in Live : RowTyped(items[i], feeds)

Stored ==
  /\ feeds \subseteq Feeds
  /\ DOMAIN blobs \subseteq Keys /\ \A key \in DOMAIN blobs : blobs[key] \in Posts
  /\ gc \in {"idle", "listed", "delete"}
  /\ purge \subseteq Keys /\ doomed \subseteq Keys /\ recent \subseteq Keys /\ raced \subseteq Keys
  /\ reused \subseteq given /\ given \subseteq Ids
  /\ inserts \in 0..MaxInserts /\ deletions \in 0..MaxDeletions /\ runs \in 0..MaxRuns

Typed == Locals /\ RowsTyped /\ Stored

LEMMA TypedMeans == Typed => TypeOK
<1> SUFFICES ASSUME Typed PROVE TypeOK
  OBVIOUS
<1>1. \A i \in Live : /\ items[i] \in Row /\ items[i].owner \in items[i].listed
                      /\ items[i].listed \subseteq feeds
  BY DEF Typed, RowsTyped, RowTyped
<1>2. purge \cup doomed \cup recent \cup raced \subseteq Keys
  BY DEF Typed, Stored
<1> QED
  BY <1>1, <1>2 DEF Typed, Locals, RowsTyped, Stored, TypeOK

LEMMA RowsAre ==
  ASSUME Typed, NEW i \in Live
  PROVE  /\ i \in Ids /\ items[i].post \in Posts /\ items[i].owner \in Feeds
         /\ items[i].listed \subseteq Feeds /\ items[i].image \in KeyOrNone
         /\ items[i].media \subseteq KeyOrNone /\ Named(i) \subseteq Keys
         /\ items[i].owner \in items[i].listed /\ items[i].listed \subseteq feeds
<1>1. RowTyped(items[i], feeds) /\ i \in Ids
  BY DEF Typed, RowsTyped
<1>2. /\ items[i].post \in Posts /\ items[i].owner \in Feeds
      /\ items[i].listed \subseteq Feeds /\ items[i].image \in KeyOrNone
      /\ items[i].media \subseteq KeyOrNone
  BY <1>1 DEF RowTyped, Row
<1> QED
  BY <1>1, <1>2 DEF RowTyped, Named, KeyOrNone

LEMMA PollsAre ==
  ASSUME Typed, NEW p \in Pollers
  PROVE  /\ poll[p] \in Poll /\ Local(p) /\ poll[p].image \in KeyOrNone
         /\ poll[p].media \in KeyOrNone
  BY DEF Typed, Locals, Poll

LEMMA IdleType == Idle \in Poll /\ Idle.pc = "idle" /\ Idle.image = NULL /\ Idle.media = NULL
  BY DEF Idle, Poll, KeyOrNone

LEMMA MovesOne ==
  ASSUME Typed, NEW p \in Pollers, NEW c \in Poll, Moves(p, c)
  PROVE  /\ poll' \in [Pollers -> Poll] /\ poll'[p] = c
         /\ \A q \in Pollers : q # p => poll'[q] = poll[q]
  BY DEF Typed, Locals, Moves

(* What a poll becomes is what its step requires. *)
Fits(c) ==
  /\ c \in Poll
  /\ c.pc = "idle" => c = Idle
  /\ c.pc # "idle" => c.id \in Ids /\ c.post \in Posts
  /\ \A key \in {c.image, c.media} \ {NULL} : key \in Keys /\ key[1] = c.id
  /\ c.pc = "setImage" => c.image # NULL

LEMMA LocalsKept ==
  ASSUME Typed, NEW p \in Pollers, NEW c, Fits(c), Moves(p, c)
  PROVE  Locals'
<1>1. /\ poll' \in [Pollers -> Poll] /\ poll'[p] = c
      /\ \A q \in Pollers : q # p => poll'[q] = poll[q]
  BY MovesOne DEF Fits
<1>2. ASSUME NEW q \in Pollers PROVE Local(q)'
  <2>1. CASE q = p
    BY <1>1, <2>1 DEF Fits, Local, At
  <2>2. CASE q # p
    BY <1>1, <2>2, PollsAre DEF Local, At
  <2> QED
    BY <2>1, <2>2
<1> QED
  BY <1>1, <1>2 DEF Locals

LEMMA IdleFits == Fits(Idle)
  BY IdleType DEF Fits

LEMMA TypedInit == Init => Typed
<1> SUFFICES ASSUME Init PROVE Typed
  OBVIOUS
<1>1. poll \in [Pollers -> Poll] /\ \A p \in Pollers : poll[p] = Idle
  BY IdleType DEF Init
<1>2. \A p \in Pollers : Local(p)
  BY <1>1, IdleType DEF Local, At
<1>3. RowsTyped
  BY DEF Init, RowsTyped, Live
<1>4. Stored
  BY BoundAssumption DEF Init, Stored
<1> QED
  BY <1>1, <1>2, <1>3, <1>4 DEF Typed, Locals

LEMMA RecentTyped ==
  ASSUME Typed, NEW new, Rows(new)
  PROVE  recent' \subseteq Keys /\ items' = new
  BY DEF Typed, Stored, Rows

(* What a poll's first step does. *)
UpsertedAs(p, f, post, i) ==
  /\ i \in Ids /\ Live' = Live \cup {i}
  /\ \A j \in Live \ {i} : items'[j] = items[j]
  /\ i \in Live => items[i].post = post /\ items'[i] = [items[i] EXCEPT !.listed = @ \cup {f}]
  /\ i \notin Live => items'[i] = [post |-> post, owner |-> f, listed |-> {f},
                                   image |-> NULL, media |-> {}]
  /\ given' = given \cup {i}
  /\ reused' = IF i \in given \ Live THEN reused \cup {i} ELSE reused
  /\ inserts' \in 0..MaxInserts
  /\ \E step \in {"image", "setMedia"} : Moves(p, [Idle EXCEPT !.pc = step, !.id = i, !.post = post])

LEMMA Upserted ==
  ASSUME Typed, NEW p \in Pollers, NEW f \in Feeds, NEW post \in Posts, NEW cached \in BOOLEAN,
         Upsert(p, f, post, cached)
  PROVE  \E i \in Ids : UpsertedAs(p, f, post, i)
<1> DEFINE rows == {i \in Live : items[i].post = post}
           mine == {i \in rows : f \in items[i].listed}
           row(i) == IF i \in Live THEN [items[i] EXCEPT !.listed = @ \cup {f}]
                     ELSE [post |-> post, owner |-> f, listed |-> {f},
                           image |-> NULL, media |-> {}]
<1>1. PICK i \in (IF mine # {} THEN mine ELSE rows \cup {NewId}) \cap Ids :
        /\ Moves(p, [Idle EXCEPT !.pc = IF cached THEN "image" ELSE "setMedia",
                                 !.id = i, !.post = post])
        /\ Rows([j \in Live \cup {i} |-> IF j # i THEN items[j] ELSE row(i)])
        /\ reused' = IF i \in given \ Live THEN reused \cup {i} ELSE reused
        /\ given' = given \cup {i}
        /\ i \notin Live => inserts < MaxInserts
        /\ inserts' = IF i \in Live THEN inserts ELSE inserts + 1
  BY DEF Upsert
<1>2. i \in Live => items[i].post = post
  <2>1. CASE mine # {}
    BY <2>1
  <2>2. CASE mine = {}
    <3>1. NewId \notin Live
      <4>1. CASE Live = {}
        BY <4>1
      <4>2. CASE Live # {}
        <5>1. Live \subseteq Ids /\ \A x \in Live : Max(Live) >= x
          BY <4>2, GreatestId DEF Typed, RowsTyped
        <5>2. \A x \in Live : x \in Nat
          BY <5>1 DEF Ids
        <5>3. Max(Live) \in Nat
          BY <4>2, <5>1, <5>2, GreatestId
        <5> QED
          BY <4>2, <5>1, <5>2, <5>3 DEF NewId
      <4> QED
        BY <4>1, <4>2
    <3> QED
      BY <2>2, <3>1
  <2> QED
    BY <2>1, <2>2
<1> HIDE DEF row, rows, mine
<1>3. items' = [j \in Live \cup {i} |-> IF j # i THEN items[j] ELSE row(i)]
  BY <1>1, RecentTyped
<1>4. /\ Live' = Live \cup {i} /\ items'[i] = row(i)
      /\ \A j \in Live \ {i} : items'[j] = items[j]
  BY <1>3 DEF Live
<1>5. inserts' \in 0..MaxInserts
  BY <1>1, BoundAssumption DEF Typed, Stored
<1>6. \E step \in {"image", "setMedia"} : Moves(p, [Idle EXCEPT !.pc = step, !.id = i, !.post = post])
  BY <1>1
<1> QED
  BY <1>1, <1>2, <1>4, <1>5, <1>6 DEF UpsertedAs, row

(* Rows become rows: each that is left keeps its post and its picture and   *)
(* takes the enclosures of the rows that end in it.                         *)
MergedBy(dest) ==
  /\ Live' \subseteq Live
  /\ \A i \in Live' :
       /\ dest[i] = i
       /\ items'[i].post = items[i].post /\ items'[i].image = items[i].image
       /\ items[i].media \subseteq items'[i].media
       /\ \A key \in items'[i].media :
            \E j \in Live : dest[j] = i /\ key \in items[j].media /\ items[j].post = items[i].post

LEMMA MergedRow ==
  ASSUME Typed, NEW i \in Live, NEW losers \in SUBSET Live
  PROVE  LET row == Merged(losers, i)
         IN /\ row \in Row /\ row.post = items[i].post /\ row.owner = items[i].owner
            /\ row.image = items[i].image
            /\ row.listed = items[i].listed \cup UNION {items[j].listed : j \in losers}
            /\ row.media = items[i].media \cup UNION {items[j].media : j \in losers}
<1> DEFINE more == UNION {items[j].listed : j \in losers}
           keys == UNION {items[j].media : j \in losers}
<1>1. more \subseteq Feeds /\ keys \subseteq KeyOrNone
  BY RowsAre
<1>2. items[i] \in Row
  BY DEF Typed, RowsTyped, RowTyped
<1>3. Merged(losers, i) = [items[i] EXCEPT !.listed = @ \cup more, !.media = @ \cup keys]
  BY DEF Merged
<1> HIDE DEF more, keys
<1>4. LET row == [items[i] EXCEPT !.listed = @ \cup more, !.media = @ \cup keys]
      IN /\ row \in Row /\ row.post = items[i].post /\ row.owner = items[i].owner
         /\ row.image = items[i].image
         /\ row.listed = items[i].listed \cup more
         /\ row.media = items[i].media \cup keys
  BY <1>1, <1>2 DEF Row
<1> QED
  BY <1>3, <1>4 DEF more, keys

LEMMA MergeEffect ==
  ASSUME Typed, NEW i \in Ids, NEW j \in Ids, Merge(i, j)
  PROVE  /\ \E dest : MergedBy(dest)
         /\ RowsTyped' /\ recent' \subseteq Keys
<1> DEFINE dest == [k \in Live |-> IF k = j THEN i ELSE k]
           new == [k \in Live \ {j} |-> IF k = i THEN Merged({j}, i) ELSE items[k]]
<1>1. i \in Live /\ j \in Live /\ i # j /\ items[i].post = items[j].post /\ Rows(new)
  BY DEF Merge
<1>2. items' = new /\ recent' \subseteq Keys
  BY <1>1, RecentTyped
<1> DEFINE row == Merged({j}, i)
<1>3. /\ row \in Row /\ row.post = items[i].post /\ row.owner = items[i].owner
      /\ row.image = items[i].image
      /\ row.listed = items[i].listed \cup items[j].listed
      /\ row.media = items[i].media \cup items[j].media
  <2>1. UNION {items[k].listed : k \in {j}} = items[j].listed
        /\ UNION {items[k].media : k \in {j}} = items[j].media
    OBVIOUS
  <2> QED
    BY <1>1, <2>1, MergedRow
<1>4. /\ Live' = Live \ {j} /\ items'[i] = row
      /\ \A k \in Live \ {i, j} : items'[k] = items[k]
  <2> HIDE DEF row
  <2>1. items' = [k \in Live \ {j} |-> IF k = i THEN row ELSE items[k]]
    BY <1>2 DEF row
  <2> QED
    BY <1>1, <2>1 DEF Live
<1> HIDE DEF row, new
<1>5. MergedBy(dest)
  <2>1. \A k \in Live' : dest[k] = k
    BY <1>4
  <2>2. \A k \in Live' : /\ items'[k].post = items[k].post /\ items'[k].image = items[k].image
                         /\ items[k].media \subseteq items'[k].media
    BY <1>3, <1>4
  <2>3. ASSUME NEW k \in Live', NEW key \in items'[k].media
        PROVE  \E l \in Live : dest[l] = k /\ key \in items[l].media /\ items[l].post = items[k].post
    <3>1. CASE k = i
      BY <1>1, <1>3, <1>4, <3>1
    <3>2. CASE k # i
      BY <1>4, <3>2
    <3> QED
      BY <3>1, <3>2
  <2> QED
    BY <1>4, <2>1, <2>2, <2>3 DEF MergedBy
<1>6. \A k \in Live : RowTyped(items[k], feeds)
  BY DEF Typed, RowsTyped
<1>7. RowTyped(row, feeds)
  BY <1>1, <1>3, <1>6 DEF RowTyped
<1>8. \A k \in Live' : RowTyped(items'[k], feeds) /\ k \in Ids
  BY <1>4, <1>6, <1>7 DEF Typed, RowsTyped
<1>9. feeds' = feeds
  BY DEF Merge
<1>10. RowsTyped'
  BY <1>8, <1>9 DEF RowsTyped
<1> QED
  BY <1>2, <1>5, <1>10

LEMMA DeleteEffect ==
  ASSUME Typed, NEW f \in Feeds, Delete(f)
  PROVE  /\ \E dest : /\ MergedBy(dest)
                      /\ \A i \in Live : items[i].owner = f /\ items[i].listed = {f} =>
                                           dest[i] \notin Live'
         /\ RowsTyped' /\ recent' \subseteq Keys /\ FeedKeys(f) \subseteq Keys
<1> DEFINE owned == {i \in Live : items[i].owner = f}
           free(i) == {g \in Homes(f, i) : Kept(g, i) = {}}
           moving == {i \in owned : free(i) # {}}
           merging == {i \in owned \ moving : Homes(f, i) # {}}
           left == (Live \ owned) \cup moving
<1>1. PICK home \in [moving -> Feeds], into \in [merging -> Live] :
        /\ \A i \in moving : home[i] \in free(i)
        /\ \A i \in merging : \E g \in Homes(f, i) : into[i] \in Kept(g, i)
        /\ Rows([i \in left |->
                   [Merged({j \in merging : into[j] = i}, i)
                      EXCEPT !.owner = IF i \in moving THEN home[i] ELSE @,
                             !.listed = @ \ {f}]])
  BY DEF Delete
<1> DEFINE losers(i) == {j \in merging : into[j] = i}
           merged(i) == Merged(losers(i), i)
           row(i) == [merged(i) EXCEPT !.owner = IF i \in moving THEN home[i] ELSE @,
                                       !.listed = @ \ {f}]
<1>2. items' = [i \in left |-> row(i)] /\ recent' \subseteq Keys
  <2>1. Rows([i \in left |-> row(i)])
    BY <1>1
  <2> QED
    BY <2>1, RecentTyped
<1>3. /\ left \subseteq Live /\ moving \subseteq Live /\ merging \subseteq Live
      /\ \A i \in merging : i \notin left /\ into[i] \in Live
      /\ \A i \in Live : items[i].owner = f /\ items[i].listed = {f} =>
                           i \notin left /\ i \notin merging
      /\ \A i \in moving : home[i] \in Feeds /\ home[i] \in items[i].listed /\ home[i] # f
      /\ \A i \in left \ moving : items[i].owner # f
  BY <1>1 DEF Homes
<1>4. \A j \in merging : items[into[j]].post = items[j].post /\ into[j] \in left
  <2> TAKE j \in merging
  <2>1. PICK g \in Homes(f, j) : into[j] \in Kept(g, j)
    BY <1>1
  <2>2. g # f
    BY <2>1 DEF Homes
  <2> QED
    BY <2>1, <2>2 DEF Kept
<1> HIDE DEF moving, merging, left
<1>5. Live' = left /\ \A i \in left : items'[i] = row(i)
  <2> HIDE DEF row
  <2> QED
    BY <1>2 DEF Live
<1>6. ASSUME NEW i \in left
      PROVE  /\ row(i).post = items[i].post /\ row(i).image = items[i].image
             /\ row(i).media = items[i].media \cup UNION {items[j].media : j \in losers(i)}
             /\ row(i).listed = (items[i].listed \cup UNION {items[j].listed : j \in losers(i)}) \ {f}
             /\ row(i).owner = IF i \in moving THEN home[i] ELSE items[i].owner
             /\ row(i) \in Row
  <2>1. losers(i) \subseteq Live /\ i \in Live
    BY <1>3
  <2>2. /\ merged(i) \in Row /\ merged(i).post = items[i].post /\ merged(i).owner = items[i].owner
        /\ merged(i).image = items[i].image
        /\ merged(i).listed = items[i].listed \cup UNION {items[j].listed : j \in losers(i)}
        /\ merged(i).media = items[i].media \cup UNION {items[j].media : j \in losers(i)}
    <3> HIDE DEF losers
    <3> QED
      BY <2>1, MergedRow
  <2> HIDE DEF merged, losers
  <2>3. (IF i \in moving THEN home[i] ELSE merged(i).owner) \in Feeds
    BY <1>3, <2>2 DEF Row
  <2>4. /\ row(i).post = merged(i).post /\ row(i).image = merged(i).image
        /\ row(i).media = merged(i).media /\ row(i).listed = merged(i).listed \ {f}
        /\ row(i).owner = (IF i \in moving THEN home[i] ELSE merged(i).owner)
        /\ row(i) \in Row
    BY <2>2, <2>3 DEF Row
  <2> QED
    BY <2>2, <2>4
<1> HIDE DEF row, merged
<1> DEFINE dest == [j \in Live |-> IF j \in left THEN j ELSE IF j \in merging THEN into[j] ELSE 0]
<1>7. MergedBy(dest)
  <2>1. \A i \in Live' : dest[i] = i
    BY <1>3, <1>5
  <2>2. \A i \in Live' : /\ items'[i].post = items[i].post /\ items'[i].image = items[i].image
                         /\ items[i].media \subseteq items'[i].media
    BY <1>5, <1>6
  <2>3. ASSUME NEW i \in Live', NEW key \in items'[i].media
        PROVE  \E j \in Live : dest[j] = i /\ key \in items[j].media /\ items[j].post = items[i].post
    <3>1. i \in left /\ key \in items[i].media \cup UNION {items[j].media : j \in losers(i)}
      BY <1>5, <1>6
    <3>2. CASE key \in items[i].media
      BY <1>3, <3>1, <3>2
    <3>3. CASE key \in UNION {items[j].media : j \in losers(i)}
      <4>1. PICK j \in merging : into[j] = i /\ key \in items[j].media
        BY <3>3
      <4>2. j \in Live /\ j \notin left /\ items[j].post = items[i].post
        BY <1>3, <1>4, <4>1
      <4> QED
        BY <4>1, <4>2
    <3> QED
      BY <3>1, <3>2, <3>3
  <2> QED
    BY <1>3, <1>5, <2>1, <2>2, <2>3 DEF MergedBy
<1>8. \A i \in Live : /\ i \in Ids /\ items[i].owner \in items[i].listed
                      /\ items[i].listed \subseteq feeds
  BY RowsAre
<1>9. feeds' = feeds \ {f}
  BY DEF Delete
<1>10. ASSUME NEW i \in left PROVE RowTyped(row(i), feeds')
  <2>1. row(i).owner \in row(i).listed
    BY <1>3, <1>6, <1>8
  <2>2. row(i).listed \subseteq feeds'
    <3>1. losers(i) \subseteq Live /\ i \in Live
      BY <1>3
    <3> HIDE DEF losers
    <3> QED
      BY <1>6, <1>8, <1>9, <3>1
  <2> QED
    BY <1>6, <2>1, <2>2 DEF RowTyped
<1>11. RowsTyped'
  BY <1>3, <1>5, <1>8, <1>10 DEF RowsTyped
<1>12. FeedKeys(f) \subseteq Keys
  BY RowsAre DEF FeedKeys
<1>13. \A i \in Live : items[i].owner = f /\ items[i].listed = {f} => dest[i] \notin Live'
  <2>1. 0 \notin left
    BY <1>3, <1>8 DEF Ids
  <2> QED
    BY <1>3, <1>5, <2>1
<1> HIDE DEF dest
<1> QED
  BY <1>2, <1>7, <1>11, <1>12, <1>13

(* What caching a picture does: the poll comes to hold keys that are stored *)
(* or that it held, or it stores one of its id.                             *)
KeysOf(c) == {c.image, c.media} \ {NULL}

Held1(p) == KeysOf(poll[p])

CachedAs(p, c) ==
  /\ Fits(c) /\ Moves(p, c)
  /\ c.pc # "idle" /\ c.id = poll[p].id /\ c.post = poll[p].post
  /\ \/ /\ UNCHANGED <<blobs, raced>>
        /\ KeysOf(c) \subseteq Held1(p) \cup DOMAIN blobs
     \/ \E key \in Keys \ DOMAIN blobs :
          /\ key[1] = poll[p].id
          /\ Put(key, poll[p].post) /\ raced' = raced \ {key}
          /\ KeysOf(c) \subseteq Held1(p) \cup {key}

LEMMA CacheOneImage ==
  ASSUME Typed, NEW p \in Pollers, At(p, "image"), CacheOne(p, 0, "image", "media")
  PROVE  \E c : CachedAs(p, c)
<1> DEFINE l == poll[p]
           key == Key(l.id, 0)
           c(k) == [l EXCEPT !.pc = "media", !.image = k]
           d == [l EXCEPT !.pc = "media"]
<1>1. l \in Poll /\ l.id \in Ids /\ l.post \in Posts
      /\ \A k \in {l.image, l.media} \ {NULL} : k \in Keys /\ k[1] = l.id
  BY PollsAre DEF Local, At
<1>2. key \in Keys /\ key[1] = l.id /\ key # NULL
  BY <1>1, KeysAre
<1>3. \/ key \in DOMAIN blobs /\ Moves(p, c(key)) /\ UNCHANGED <<blobs, raced>>
      \/ key \notin DOMAIN blobs /\ Moves(p, c(key)) /\ Put(key, l.post) /\ raced' = raced \ {key}
      \/ Moves(p, d) /\ UNCHANGED <<blobs, raced>>
  BY DEF CacheOne
<1> HIDE DEF key
<1>4. /\ c(key) \in Poll /\ c(key).pc = "media" /\ c(key).id = l.id /\ c(key).post = l.post
      /\ c(key).image = key /\ c(key).media = l.media
  BY <1>1, <1>2 DEF Poll, KeyOrNone
<1>5. /\ d \in Poll /\ d.pc = "media" /\ d.id = l.id /\ d.post = l.post
      /\ d.image = l.image /\ d.media = l.media
  BY <1>1 DEF Poll
<1> HIDE DEF c, d
<1>6. Fits(c(key)) /\ Fits(d)
  BY <1>1, <1>2, <1>4, <1>5 DEF Fits
<1>7. KeysOf(c(key)) \subseteq Held1(p) \cup {key} /\ KeysOf(d) \subseteq Held1(p)
  BY <1>4, <1>5 DEF KeysOf, Held1
<1> QED
  BY <1>2, <1>3, <1>4, <1>5, <1>6, <1>7 DEF CachedAs

LEMMA CacheOneMedia ==
  ASSUME Typed, NEW p \in Pollers, At(p, "media"), CacheOne(p, 1, "media", "setMedia")
  PROVE  \E c : CachedAs(p, c)
<1> DEFINE l == poll[p]
           key == Key(l.id, 1)
           c(k) == [l EXCEPT !.pc = "setMedia", !.media = k]
           d == [l EXCEPT !.pc = "setMedia"]
<1>1. l \in Poll /\ l.id \in Ids /\ l.post \in Posts
      /\ \A k \in {l.image, l.media} \ {NULL} : k \in Keys /\ k[1] = l.id
  BY PollsAre DEF Local, At
<1>2. key \in Keys /\ key[1] = l.id /\ key # NULL
  BY <1>1, KeysAre
<1>3. \/ key \in DOMAIN blobs /\ Moves(p, c(key)) /\ UNCHANGED <<blobs, raced>>
      \/ key \notin DOMAIN blobs /\ Moves(p, c(key)) /\ Put(key, l.post) /\ raced' = raced \ {key}
      \/ Moves(p, d) /\ UNCHANGED <<blobs, raced>>
  BY DEF CacheOne
<1> HIDE DEF key
<1>4. /\ c(key) \in Poll /\ c(key).pc = "setMedia" /\ c(key).id = l.id /\ c(key).post = l.post
      /\ c(key).image = l.image /\ c(key).media = key
  BY <1>1, <1>2 DEF Poll, KeyOrNone
<1>5. /\ d \in Poll /\ d.pc = "setMedia" /\ d.id = l.id /\ d.post = l.post
      /\ d.image = l.image /\ d.media = l.media
  BY <1>1 DEF Poll
<1> HIDE DEF c, d
<1>6. Fits(c(key)) /\ Fits(d)
  BY <1>1, <1>2, <1>4, <1>5 DEF Fits
<1>7. KeysOf(c(key)) \subseteq Held1(p) \cup {key} /\ KeysOf(d) \subseteq Held1(p)
  BY <1>4, <1>5 DEF KeysOf, Held1
<1> QED
  BY <1>2, <1>3, <1>4, <1>5, <1>6, <1>7 DEF CachedAs

LEMMA CacheEffect ==
  ASSUME Typed, NEW p \in Pollers, CacheImage(p) \/ CacheMedia(p)
  PROVE  \E c : CachedAs(p, c)
<1> DEFINE l == poll[p]
<1>1. l \in Poll /\ (~At(p, "idle") => l.id \in Ids /\ l.post \in Posts)
      /\ \A k \in {l.image, l.media} \ {NULL} : k \in Keys /\ k[1] = l.id
  BY PollsAre DEF Local
<1>2. CASE CacheImage(p)
  <2>1. CASE l.post \in Pictured
    BY <1>2, <2>1, CacheOneImage DEF CacheImage
  <2>2. CASE l.post \notin Pictured
    <3> DEFINE d == [l EXCEPT !.pc = "media"]
    <3>1. Moves(p, d) /\ UNCHANGED <<blobs, raced>> /\ ~At(p, "idle")
      BY <1>2, <2>2 DEF CacheImage, At
    <3>2. /\ d \in Poll /\ d.pc = "media" /\ d.id = l.id /\ d.post = l.post
          /\ d.image = l.image /\ d.media = l.media
      BY <1>1 DEF Poll
    <3> HIDE DEF d
    <3>3. Fits(d)
      BY <1>1, <3>1, <3>2 DEF Fits
    <3> QED
      BY <3>1, <3>2, <3>3 DEF CachedAs, KeysOf, Held1
  <2> QED
    BY <2>1, <2>2
<1>3. CASE CacheMedia(p)
  <2>1. CASE l.post \in Attached /\ l.image = NULL
    BY <1>3, <2>1, CacheOneMedia DEF CacheMedia
  <2>2. CASE ~(l.post \in Attached /\ l.image = NULL)
    <3> DEFINE step == IF l.image = NULL THEN "setMedia" ELSE "setImage"
               key == IF l.post \in Attached THEN l.image ELSE NULL
               d == [l EXCEPT !.pc = step, !.media = key]
    <3>1. Moves(p, d) /\ UNCHANGED <<blobs, raced>> /\ ~At(p, "idle")
      BY <1>3, <2>2 DEF CacheMedia, At
    <3>2. key \in KeyOrNone /\ step \in {"setMedia", "setImage"}
      BY <1>1 DEF Poll, KeyOrNone
    <3>3. key = NULL \/ key = l.image
      OBVIOUS
    <3>4. step = "setImage" => l.image # NULL
      OBVIOUS
    <3> HIDE DEF key, step
    <3>5. /\ d \in Poll /\ d.pc = step /\ d.id = l.id /\ d.post = l.post
          /\ d.image = l.image /\ d.media = key
      BY <1>1, <3>2 DEF Poll
    <3> HIDE DEF d
    <3>6. Fits(d)
      BY <1>1, <3>1, <3>2, <3>3, <3>4, <3>5 DEF Fits
    <3>7. KeysOf(d) \subseteq Held1(p) /\ d.pc # "idle"
      BY <3>2, <3>3, <3>5 DEF KeysOf, Held1
    <3> QED
      BY <3>1, <3>5, <3>6, <3>7 DEF CachedAs
  <2> QED
    BY <2>1, <2>2
<1> QED
  BY <1>2, <1>3

(* What writing the keys to the row does: it comes to name only what it     *)
(* named and what the poll held.                                            *)
WrittenAs(p, c) ==
  /\ Fits(c) /\ Moves(p, c) /\ KeysOf(c) \subseteq Held1(p)
  /\ c.pc # "idle" => c.id = poll[p].id /\ c.post = poll[p].post
  /\ Live' = Live
  /\ \A i \in Live :
       /\ items'[i].post = items[i].post
       /\ i # poll[p].id => items'[i] = items[i]
       /\ Named(i)' \subseteq Named(i) \cup Held1(p)

LEMMA RowRewritten ==
  ASSUME Typed, NEW i \in Live, NEW row \in Row, row.owner = items[i].owner,
         row.listed = items[i].listed, UNCHANGED feeds,
         Live' = Live, items'[i] = row, \A j \in Live \ {i} : items'[j] = items[j]
  PROVE  RowsTyped'
<1>1. \A j \in Live : RowTyped(items[j], feeds) /\ j \in Ids
  BY DEF Typed, RowsTyped
<1>2. RowTyped(row, feeds)
  BY <1>1 DEF RowTyped
<1>3. \A j \in Live' : RowTyped(items'[j], feeds)
  BY <1>1, <1>2
<1> QED
  BY <1>1, <1>3 DEF RowsTyped

LEMMA SetImageEffect ==
  ASSUME Typed, NEW p \in Pollers, SetImage(p)
  PROVE  /\ \E c : WrittenAs(p, c)
         /\ RowsTyped' /\ recent' \subseteq Keys
         /\ \A i \in Live : items[i].image # NULL => items'[i].image # NULL
         /\ \A i \in Live : items'[i].media = items[i].media
<1> DEFINE l == poll[p]
           i == l.id
           c == [l EXCEPT !.pc = "setMedia"]
<1>1. /\ l \in Poll /\ i \in Ids /\ l.post \in Posts /\ l.image # NULL /\ l.image \in KeyOrNone
      /\ \A k \in {l.image, l.media} \ {NULL} : k \in Keys /\ k[1] = l.id
  BY PollsAre DEF Local, At, SetImage
<1>2. Moves(p, c) /\ Rows(IF i \in Live THEN [items EXCEPT ![i].image = l.image] ELSE items)
      /\ feeds' = feeds
  BY DEF SetImage
<1>3. /\ c \in Poll /\ c.pc = "setMedia" /\ c.id = l.id /\ c.post = l.post
      /\ c.image = l.image /\ c.media = l.media
  BY <1>1 DEF Poll
<1> HIDE DEF c
<1>4. Fits(c) /\ KeysOf(c) \subseteq Held1(p)
  BY <1>1, <1>3 DEF Fits, KeysOf, Held1
<1>5. CASE i \in Live
  <2> DEFINE row == [items[i] EXCEPT !.image = l.image]
  <2>1. items' = [items EXCEPT ![i] = row] /\ recent' \subseteq Keys
    BY <1>2, <1>5, RecentTyped
  <2>2. items[i] \in Row
    BY <1>5 DEF Typed, RowsTyped, RowTyped
  <2>3. /\ row \in Row /\ row.post = items[i].post /\ row.owner = items[i].owner
        /\ row.listed = items[i].listed /\ row.image = l.image /\ row.media = items[i].media
    BY <1>1, <2>2 DEF Row
  <2> HIDE DEF row
  <2>4. Live' = Live /\ items'[i] = row /\ \A j \in Live \ {i} : items'[j] = items[j]
    BY <1>5, <2>1 DEF Live
  <2>5. RowsTyped'
    BY <1>2, <1>5, <2>3, <2>4, RowRewritten
  <2>6. \A j \in Live : Named(j)' \subseteq Named(j) \cup Held1(p)
    <3> TAKE j \in Live
    <3>1. CASE j = i
      BY <2>3, <2>4, <3>1 DEF Named, Held1, KeysOf
    <3>2. CASE j # i
      BY <2>4, <3>2 DEF Named
    <3> QED
      BY <3>1, <3>2
  <2>7. WrittenAs(p, c)
    BY <1>2, <1>3, <1>4, <2>3, <2>4, <2>6 DEF WrittenAs
  <2> QED
    BY <1>1, <2>1, <2>3, <2>4, <2>5, <2>7
<1>6. CASE i \notin Live
  <2>1. items' = items /\ recent' \subseteq Keys /\ Live' = Live
    BY <1>2, <1>6, RecentTyped DEF Live
  <2>2. RowsTyped'
    BY <1>2, <2>1 DEF Typed, RowsTyped
  <2>3. \A j \in Live : Named(j)' = Named(j)
    BY <2>1 DEF Named
  <2>4. WrittenAs(p, c)
    BY <1>2, <1>3, <1>4, <2>1, <2>3 DEF WrittenAs
  <2> QED
    BY <2>1, <2>2, <2>4
<1> QED
  BY <1>5, <1>6

LEMMA SetMediaEffect ==
  ASSUME Typed, NEW p \in Pollers, SetMedia(p)
  PROVE  /\ WrittenAs(p, Idle)
         /\ RowsTyped' /\ recent' \subseteq Keys
         /\ \A i \in Live : items'[i].image = items[i].image
         /\ \A i \in Live : NULL \notin items[i].media =>
              NULL \notin items'[i].media \/ items[i].media \subseteq items'[i].media
<1> DEFINE l == poll[p]
           i == l.id
<1>1. /\ l \in Poll /\ l.media \in KeyOrNone
      /\ \A k \in {l.image, l.media} \ {NULL} : k \in Keys /\ k[1] = l.id
  BY PollsAre DEF Local
<1>2. Moves(p, Idle) /\ feeds' = feeds /\ KeysOf(Idle) = {}
  BY IdleType DEF SetMedia, KeysOf
<1>3. CASE i \in Live /\ l.post \in Attached
  <2>1. PICK media \in Replacement(p, i) : Rows([items EXCEPT ![i].media = media])
    BY <1>3 DEF SetMedia
  <2>2. items[i] \in Row /\ items[i].media \subseteq KeyOrNone
    BY <1>3, RowsAre DEF Typed, RowsTyped, RowTyped
  <2>3. /\ media \subseteq {l.media} \cup items[i].media
        /\ media \subseteq KeyOrNone
        /\ NULL \notin items[i].media => NULL \notin media \/ items[i].media \subseteq media
    BY <1>1, <2>1, <2>2 DEF Replacement
  <2> DEFINE row == [items[i] EXCEPT !.media = media]
  <2>4. items' = [items EXCEPT ![i] = row] /\ recent' \subseteq Keys
    BY <2>1, RecentTyped
  <2>5. /\ row \in Row /\ row.post = items[i].post /\ row.owner = items[i].owner
        /\ row.listed = items[i].listed /\ row.image = items[i].image /\ row.media = media
    BY <2>2, <2>3 DEF Row
  <2> HIDE DEF row
  <2>6. Live' = Live /\ items'[i] = row /\ \A j \in Live \ {i} : items'[j] = items[j]
    BY <1>3, <2>4 DEF Live
  <2>7. RowsTyped'
    BY <1>2, <1>3, <2>5, <2>6, RowRewritten
  <2>8. \A j \in Live : Named(j)' \subseteq Named(j) \cup Held1(p)
    <3> TAKE j \in Live
    <3>1. CASE j = i
      BY <2>3, <2>5, <2>6, <3>1 DEF Named, Held1, KeysOf
    <3>2. CASE j # i
      BY <2>6, <3>2 DEF Named
    <3> QED
      BY <3>1, <3>2
  <2>9. WrittenAs(p, Idle)
    BY <1>2, <2>5, <2>6, <2>8, IdleFits, IdleType DEF WrittenAs
  <2> QED
    BY <2>3, <2>4, <2>5, <2>6, <2>7, <2>9
<1>4. CASE ~(i \in Live /\ l.post \in Attached)
  <2>1. items' = items /\ recent' \subseteq Keys /\ Live' = Live
    BY <1>4, RecentTyped DEF SetMedia, Live
  <2>2. RowsTyped'
    BY <1>2, <2>1 DEF Typed, RowsTyped
  <2>3. \A j \in Live : Named(j)' = Named(j)
    BY <2>1 DEF Named
  <2>4. WrittenAs(p, Idle)
    BY <1>2, <2>1, <2>3, IdleFits, IdleType DEF WrittenAs
  <2> QED
    BY <2>1, <2>2, <2>4
<1> QED
  BY <1>3, <1>4

LEMMA PutTyped ==
  ASSUME Typed, NEW key \in Keys, NEW post \in Posts, Put(key, post)
  PROVE  /\ DOMAIN blobs' = DOMAIN blobs \cup {key}
         /\ \A k \in DOMAIN blobs' : blobs'[k] = IF k = key THEN post ELSE blobs[k]
         /\ DOMAIN blobs' \subseteq Keys /\ \A k \in DOMAIN blobs' : blobs'[k] \in Posts
<1>1. blobs' = [k \in DOMAIN blobs \cup {key} |-> IF k = key THEN post ELSE blobs[k]]
  BY DEF Put
<1>2. DOMAIN blobs \subseteq Keys /\ \A k \in DOMAIN blobs : blobs[k] \in Posts
  BY DEF Typed, Stored
<1> QED
  BY <1>1, <1>2

LEMMA DropTyped ==
  ASSUME Typed, NEW key, Drop(key)
  PROVE  /\ DOMAIN blobs' = DOMAIN blobs \ {key}
         /\ \A k \in DOMAIN blobs' : blobs'[k] = blobs[k]
         /\ DOMAIN blobs' \subseteq Keys /\ \A k \in DOMAIN blobs' : blobs'[k] \in Posts
<1>1. blobs' = [k \in DOMAIN blobs \ {key} |-> blobs[k]]
  BY DEF Drop
<1>2. DOMAIN blobs \subseteq Keys /\ \A k \in DOMAIN blobs : blobs[k] \in Posts
  BY DEF Typed, Stored
<1> QED
  BY <1>1, <1>2

LEMMA RowsSame == UNCHANGED items => Live' = Live /\ \A i : Named(i)' = Named(i)
  BY DEF Live, Named

LEMMA TypedUpsert ==
  ASSUME Typed, NEW p \in Pollers, NEW f \in Feeds, NEW post \in Posts, NEW cached \in BOOLEAN,
         Upsert(p, f, post, cached)
  PROVE  Typed'
<1>1. PICK i \in Ids : UpsertedAs(p, f, post, i)
  BY Upserted
<1>2. f \in feeds /\ feeds' = feeds
  BY DEF Upsert
<1>3. Locals'
  <2>1. PICK step \in {"image", "setMedia"} : Moves(p, [Idle EXCEPT !.pc = step, !.id = i, !.post = post])
    BY <1>1 DEF UpsertedAs
  <2> DEFINE c == [Idle EXCEPT !.pc = step, !.id = i, !.post = post]
  <2>2. Fits(c)
    <3>1. /\ c \in Poll /\ c.pc = step /\ c.id = i /\ c.post = post
          /\ c.image = NULL /\ c.media = NULL
      BY DEF Idle, Poll, KeyOrNone
    <3> HIDE DEF c
    <3> QED
      BY <3>1 DEF Fits
  <2> HIDE DEF c
  <2> QED
    BY <2>1, <2>2, LocalsKept DEF c
<1>4. RowsTyped'
  <2>1. \A j \in Live : RowTyped(items[j], feeds) /\ j \in Ids
    BY DEF Typed, RowsTyped
  <2>2. RowTyped(items'[i], feeds)
    <3>1. CASE i \in Live
      <4>1. items'[i] = [items[i] EXCEPT !.listed = @ \cup {f}] /\ items[i] \in Row
        BY <1>1, <2>1, <3>1 DEF UpsertedAs, RowTyped
      <4>2. /\ items'[i] \in Row /\ items'[i].owner = items[i].owner
            /\ items'[i].listed = items[i].listed \cup {f}
        BY <4>1 DEF Row
      <4> QED
        BY <1>2, <2>1, <3>1, <4>2 DEF RowTyped
    <3>2. CASE i \notin Live
      <4>1. items'[i] = [post |-> post, owner |-> f, listed |-> {f}, image |-> NULL, media |-> {}]
        BY <1>1, <3>2 DEF UpsertedAs
      <4> QED
        BY <1>2, <4>1 DEF RowTyped, Row, KeyOrNone
    <3> QED
      BY <3>1, <3>2
  <2>3. \A j \in Live' : RowTyped(items'[j], feeds') /\ j \in Ids
    BY <1>1, <1>2, <2>1, <2>2 DEF UpsertedAs
  <2> QED
    BY <2>3 DEF RowsTyped
<1>5. Stored'
  <2>1. recent' \subseteq Keys
    BY RecentTyped DEF Upsert
  <2>2. reused' \subseteq given' /\ given' \subseteq Ids /\ inserts' \in 0..MaxInserts
    BY <1>1 DEF UpsertedAs, Typed, Stored
  <2> QED
    BY <2>1, <2>2 DEF Upsert, Typed, Stored
<1> QED
  BY <1>3, <1>4, <1>5 DEF Typed

LEMMA TypedCache ==
  ASSUME Typed, NEW p \in Pollers, CacheImage(p) \/ CacheMedia(p)
  PROVE  Typed'
<1>1. PICK c : CachedAs(p, c)
  BY CacheEffect
<1>2. Locals'
  BY <1>1, LocalsKept DEF CachedAs
<1>3. UNCHANGED <<feeds, items, purge, gc, doomed, bounds, history, recent>>
  BY DEF CacheImage, CacheMedia
<1>4. RowsTyped'
  BY <1>3, RowsSame DEF Typed, RowsTyped
<1>5. raced' \subseteq Keys /\ DOMAIN blobs' \subseteq Keys /\ \A k \in DOMAIN blobs' : blobs'[k] \in Posts
  <2>1. CASE UNCHANGED <<blobs, raced>>
    BY <2>1 DEF Typed, Stored
  <2>2. ASSUME NEW key \in Keys, Put(key, poll[p].post), raced' = raced \ {key}
        PROVE  /\ raced' \subseteq Keys /\ DOMAIN blobs' \subseteq Keys
               /\ \A k \in DOMAIN blobs' : blobs'[k] \in Posts
    <3>1. poll[p].post \in Posts
      BY <1>1 DEF CachedAs, Fits
    <3> QED
      BY <2>2, <3>1, PutTyped DEF Typed, Stored
  <2> QED
    BY <1>1, <2>1, <2>2 DEF CachedAs
<1>6. Stored'
  BY <1>3, <1>5 DEF Typed, Stored, bounds, history
<1> QED
  BY <1>2, <1>4, <1>6 DEF Typed

LEMMA TypedWrite ==
  ASSUME Typed, NEW p \in Pollers, SetImage(p) \/ SetMedia(p)
  PROVE  Typed'
<1>1. RowsTyped' /\ recent' \subseteq Keys /\ \E c : Fits(c) /\ Moves(p, c)
  BY SetImageEffect, SetMediaEffect DEF WrittenAs
<1>2. Locals'
  BY <1>1, LocalsKept
<1>3. Stored'
  BY <1>1 DEF SetImage, SetMedia, Typed, Stored, bounds, history
<1> QED
  BY <1>1, <1>2, <1>3 DEF Typed

LEMMA TypedRepair ==
  ASSUME Typed, \/ \E i, j \in Ids : Merge(i, j)
                \/ \E f \in Feeds : Delete(f)
  PROVE  Typed'
<1>1. CASE \E i, j \in Ids : Merge(i, j)
  <2>1. PICK i \in Ids, j \in Ids : Merge(i, j)
    BY <1>1
  <2>2. RowsTyped' /\ recent' \subseteq Keys
    BY <2>1, MergeEffect
  <2>3. Locals' /\ Stored'
    BY <2>1, <2>2 DEF Merge, Typed, Locals, Local, At, Stored, bounds, history
  <2> QED
    BY <2>2, <2>3 DEF Typed
<1>2. CASE \E f \in Feeds : Delete(f)
  <2>1. PICK f \in Feeds : Delete(f)
    BY <1>2
  <2>2. RowsTyped' /\ recent' \subseteq Keys /\ FeedKeys(f) \subseteq Keys
    BY <2>1, DeleteEffect
  <2>3. Locals'
    BY <2>1 DEF Delete, Typed, Locals, Local, At
  <2>4. deletions' \in 0..MaxDeletions
    <3>1. deletions < MaxDeletions /\ deletions' = deletions + 1
      BY <2>1 DEF Delete
    <3>2. deletions \in 0..MaxDeletions
      BY DEF Typed, Stored
    <3> QED
      BY <3>1, <3>2, BoundAssumption
  <2>5. Stored'
    BY <2>1, <2>2, <2>4 DEF Delete, Typed, Stored, history
  <2> QED
    BY <2>2, <2>3, <2>5 DEF Typed
<1> QED
  BY <1>1, <1>2

LEMMA TypedCollector ==
  ASSUME Typed, \/ \E key \in Keys : Purge(key) \/ Collect(key)
                \/ Crash \/ List \/ Orphans \/ EndCollect
  PROVE  Typed'
<1>1. UNCHANGED <<feeds, items, given, reused, inserts, deletions>>
  BY DEF Purge, Collect, Crash, List, Orphans, EndCollect, bounds, history
<1>2. RowsTyped'
  BY <1>1, RowsSame DEF Typed, RowsTyped
<1>3. Locals'
  <2>1. CASE Crash
    <3>1. poll' \in [Pollers -> Poll] /\ \A p \in Pollers : poll'[p] = Idle
      BY <2>1, IdleType DEF Crash
    <3> QED
      BY <3>1, IdleType DEF Locals, Local, At
  <2>2. CASE UNCHANGED poll
    BY <2>2 DEF Typed, Locals, Local, At
  <2> QED
    BY <2>1, <2>2 DEF Purge, Collect, List, Orphans, EndCollect
<1>4. DOMAIN blobs' \subseteq Keys /\ \A k \in DOMAIN blobs' : blobs'[k] \in Posts
  <2>1. UNCHANGED blobs \/ \E key : Drop(key)
    BY DEF Purge, Collect, Crash, List, Orphans, EndCollect
  <2> QED
    BY <2>1, DropTyped DEF Typed, Stored
<1>5. /\ gc' \in {"idle", "listed", "delete"} /\ runs' \in 0..MaxRuns
      /\ purge' \subseteq Keys /\ doomed' \subseteq Keys /\ recent' \subseteq Keys
      /\ raced' \subseteq Keys
  <2>1. CASE \E key \in Keys : Purge(key) \/ Collect(key)
    BY <2>1 DEF Purge, Collect, Typed, Stored, bounds
  <2>2. CASE List
    BY <2>2, BoundAssumption DEF List, Typed, Stored
  <2>3. CASE Crash \/ Orphans \/ EndCollect
    BY <2>3 DEF Crash, Orphans, EndCollect, Typed, Stored, bounds
  <2> QED
    BY <2>1, <2>2, <2>3
<1>6. Stored'
  BY <1>1, <1>4, <1>5 DEF Typed, Stored
<1> QED
  BY <1>2, <1>3, <1>6 DEF Typed

LEMMA TypedStep == Typed /\ [Next]_vars => Typed'
<1> SUFFICES ASSUME Typed, [Next]_vars PROVE Typed'
  OBVIOUS
<1>1. CASE UNCHANGED vars
  BY <1>1 DEF vars, Typed, Locals, Local, At, RowsTyped, Live, Stored
<1> QED
  BY <1>1, TypedUpsert, TypedCache, TypedWrite, TypedRepair, TypedCollector DEF Next

LEMMA AlwaysTyped == Spec => []Typed
  BY TypedInit, TypedStep, PTL DEF Spec

(* The rows, the blobs and the polls keep their types; in particular every  *)
(* row belongs to a feed that exists and lists it, whatever feeds are       *)
(* deleted and rows merged meanwhile.                                       *)
THEOREM TypeCorrect == Spec => []TypeOK
  BY AlwaysTyped, TypedMeans, PTL

-----------------------------------------------------------------------------
(* What a step may do to the pictures of a row, and what the collector      *)
(* takes.                                                                   *)

KeepsPictures(i) ==
  /\ items[i].image # NULL => items'[i].image # NULL
  /\ NULL \notin items[i].media =>
       NULL \notin items'[i].media \/ items[i].media \subseteq items'[i].media

(* A re-poll drops no cached picture: the keys it could not store again are *)
(* carried forward (ReplaceEnclosures), and an image key is only ever       *)
(* replaced by another (SetItemImageCacheKey).  Repairs and deletions of    *)
(* feeds keep those of the rows they leave.                                 *)
THEOREM NoPictureDropped == Spec => CachedKept
<1>1. ASSUME Typed, [Next]_vars, NEW i \in Live \cap DOMAIN items'
      PROVE  KeepsPictures(i)
  <2>0. i \in Live /\ i \in Live'
    BY <1>1 DEF Live
  <2>1. CASE UNCHANGED items
    BY <2>1 DEF KeepsPictures
  <2>2. ASSUME NEW p \in Pollers, NEW f \in Feeds, NEW post \in Posts, NEW cached \in BOOLEAN,
               Upsert(p, f, post, cached)
        PROVE  KeepsPictures(i)
    <3>1. PICK j \in Ids : UpsertedAs(p, f, post, j)
      BY <1>1, <2>2, Upserted
    <3>2. CASE i # j
      BY <2>0, <3>1, <3>2 DEF UpsertedAs, KeepsPictures
    <3>3. CASE i = j
      <4>1. items'[i] = [items[i] EXCEPT !.listed = @ \cup {f}] /\ items[i] \in Row
        BY <1>1, <2>0, <3>1, <3>3 DEF UpsertedAs, Typed, RowsTyped, RowTyped
      <4>2. items'[i].image = items[i].image /\ items'[i].media = items[i].media
        BY <4>1 DEF Row
      <4> QED
        BY <4>2 DEF KeepsPictures
    <3> QED
      BY <3>2, <3>3
  <2>3. ASSUME NEW p \in Pollers, SetImage(p) \/ SetMedia(p) PROVE KeepsPictures(i)
    BY <1>1, <2>0, <2>3, SetImageEffect, SetMediaEffect DEF KeepsPictures
  <2>4. ASSUME \/ \E k, j \in Ids : Merge(k, j)
               \/ \E f \in Feeds : Delete(f)
        PROVE  KeepsPictures(i)
    <3>1. PICK dest : MergedBy(dest)
      BY <1>1, <2>4, MergeEffect, DeleteEffect
    <3> QED
      BY <2>0, <3>1 DEF MergedBy, KeepsPictures
  <2> QED
    BY <1>1, <2>1, <2>2, <2>3, <2>4 DEF Next, vars, CacheImage, CacheMedia, Purge, Collect,
       Crash, List, Orphans, EndCollect
<1>2. Typed /\ [Next]_vars =>
        \A i \in Live \cap DOMAIN items' :
          /\ items[i].image # NULL => items'[i].image # NULL
          /\ NULL \notin items[i].media =>
               NULL \notin items'[i].media \/ items[i].media \subseteq items'[i].media
  BY <1>1 DEF KeepsPictures
<1> QED
  BY <1>2, AlwaysTyped, PTL DEF CachedKept, Spec

(* While the collector deletes, a key it is going to delete is named only   *)
(* by rows that came to name it since.                                      *)
Late == gc = "delete" => doomed \cap Referenced \subseteq recent

LEMMA LateRows ==
  ASSUME Late, NEW new, Rows(new), UNCHANGED <<gc, doomed>>
  PROVE  Late'
<1>1. items' = new
      /\ recent' = recent \cup {key \in doomed \ Referenced :
                                /\ gc = "delete"
                                /\ \E i \in DOMAIN new : key \in {new[i].image} \cup new[i].media}
  BY DEF Rows
<1>2. ASSUME gc = "delete", NEW key \in doomed, key \in Referenced' PROVE key \in recent'
  <2>1. PICK i \in DOMAIN items' : key \in {items'[i].image} \cup items'[i].media
    BY <1>2 DEF Referenced, Live, Named
  <2>2. CASE key \in Referenced
    BY <1>1, <1>2, <2>2 DEF Late
  <2>3. CASE key \notin Referenced
    BY <1>1, <1>2, <2>1, <2>3
  <2> QED
    BY <2>2, <2>3
<1> QED
  BY <1>2 DEF Late

LEMMA LateStep == Late /\ [Next]_vars => Late'
<1> SUFFICES ASSUME Late, [Next]_vars PROVE Late'
  OBVIOUS
<1>1. ASSUME UNCHANGED items PROVE Referenced' = Referenced
  BY <1>1 DEF Referenced, Live, Named
<1>2. ASSUME NEW p \in Pollers, NEW f, NEW post, NEW cached, Upsert(p, f, post, cached)
      PROVE  Late'
  BY <1>2, LateRows DEF Upsert
<1>3. ASSUME NEW p \in Pollers, CacheImage(p) \/ CacheMedia(p) PROVE Late'
  BY <1>1, <1>3 DEF CacheImage, CacheMedia, Late
<1>4. ASSUME NEW p \in Pollers, SetImage(p) PROVE Late'
  BY <1>4, LateRows DEF SetImage
<1>5. ASSUME NEW p \in Pollers, SetMedia(p) PROVE Late'
  BY <1>5, LateRows DEF SetMedia
<1>6. ASSUME NEW i, NEW j, Merge(i, j) PROVE Late'
  BY <1>6, LateRows DEF Merge
<1>7. ASSUME NEW f \in Feeds, Delete(f) PROVE Late'
  BY <1>7, LateRows DEF Delete
<1>8. ASSUME NEW key, Purge(key) \/ Collect(key) PROVE Late'
  BY <1>1, <1>8 DEF Purge, Collect, Late
<1>9. CASE Crash \/ List \/ Orphans \/ EndCollect
  BY <1>1, <1>9 DEF Crash, List, Orphans, EndCollect, Late
<1>10. CASE UNCHANGED vars
  BY <1>1, <1>10 DEF vars, Late
<1> QED
  BY <1>2, <1>3, <1>4, <1>5, <1>6, <1>7, <1>8, <1>9, <1>10 DEF Next

(* `storage gc` deletes the picture of a row only if the row came to name   *)
(* it after the collector had read which keys rows name (storage.Orphans).  *)
THEOREM CollectorSpares == Spec => CollectSpares
<1>1. Init => Late
  BY DEF Init, Late
<1>2. ASSUME Late, [Next]_vars, NEW key \in (DOMAIN blobs \ DOMAIN blobs') \cap Referenced,
             key \in doomed \ doomed'
      PROVE  key \in recent
  <2>1. \E k \in Keys : Collect(k)
    <3>1. blobs' # blobs /\ doomed' # doomed
      BY <1>2
    <3> QED
      BY <1>2, <3>1 DEF Next, vars, Upsert, CacheImage, CacheMedia, SetImage, SetMedia, Merge,
         Delete, Purge, Crash, List, Orphans, EndCollect
  <2>2. gc = "delete"
    BY <2>1 DEF Collect
  <2> QED
    BY <1>2, <2>2 DEF Late
<1>3. Late /\ [Next]_vars => \A key \in (DOMAIN blobs \ DOMAIN blobs') \cap Referenced :
                               key \in doomed \ doomed' => key \in recent
  BY <1>2
<1> QED
  BY <1>1, <1>3, LateStep, PTL DEF CollectSpares, Spec

-----------------------------------------------------------------------------
(* What a step does to the keys rows name. *)

LEMMA NamedUpserted ==
  ASSUME NEW p, NEW f, NEW post, NEW i, UpsertedAs(p, f, post, i), Typed
  PROVE  /\ \A j \in Live : Named(j)' = Named(j) /\ items'[j].post = items[j].post
         /\ i \notin Live => Named(i)' = {}
         /\ items'[i].post = post
<1>1. ASSUME NEW j \in Live PROVE Named(j)' = Named(j) /\ items'[j].post = items[j].post
  <2>1. CASE j # i
    BY <2>1 DEF UpsertedAs, Named
  <2>2. CASE j = i
    <3>1. items'[j] = [items[j] EXCEPT !.listed = @ \cup {f}] /\ items[j] \in Row
      BY <2>2 DEF UpsertedAs, Typed, RowsTyped, RowTyped
    <3>2. /\ items'[j].post = items[j].post /\ items'[j].image = items[j].image
          /\ items'[j].media = items[j].media
      BY <3>1 DEF Row
    <3> QED
      BY <3>2 DEF Named
  <2> QED
    BY <2>1, <2>2
<1>2. CASE i \notin Live
  <2>1. items'[i].post = post /\ items'[i].image = NULL /\ items'[i].media = {}
    BY <1>2 DEF UpsertedAs
  <2>2. Named(i)' = {}
    BY <2>1 DEF Named
  <2> QED
    BY <1>1, <1>2, <2>1, <2>2
<1>3. CASE i \in Live
  BY <1>1, <1>3 DEF UpsertedAs
<1> QED
  BY <1>2, <1>3

LEMMA NamedMerged ==
  ASSUME NEW dest, MergedBy(dest), NEW i \in Live', NEW key \in Named(i)'
  PROVE  \E j \in Live : dest[j] = i /\ key \in Named(j) /\ items[j].post = items'[i].post
<1>1. key # NULL /\ (key = items'[i].image \/ key \in items'[i].media)
  BY DEF Named
<1>2. CASE key = items'[i].image
  BY <1>1, <1>2 DEF MergedBy, Named
<1>3. CASE key \in items'[i].media
  BY <1>1, <1>3 DEF MergedBy, Named
<1> QED
  BY <1>1, <1>2, <1>3

LEMMA NamedWritten ==
  ASSUME NEW p, NEW c, WrittenAs(p, c), NEW i \in Live
  PROVE  Named(i)' \subseteq Named(i) \cup Held1(p) /\ (i # poll[p].id => Named(i)' = Named(i))
  BY DEF WrittenAs, Named

-----------------------------------------------------------------------------
(* Which post an id stands for, in every place that says so: the row, a     *)
(* poll under way, the bytes of a blob, the keys a row names.               *)

Running == {p \in Pollers : ~At(p, "idle")}

Said ==
  {<<i, items[i].post>> : i \in Live}
    \cup {<<poll[p].id, poll[p].post>> : p \in Running}
    \cup {<<key[1], blobs[key]>> : key \in DOMAIN blobs}
    \cup UNION {{<<key[1], items[i].post>> : key \in Named(i)} : i \in Live}

(* They agree, unless the id was given twice. *)
Agree ==
  \A x, y \in Said : x[1] \in given /\ (x[1] = y[1] => x[1] \in reused \/ x[2] = y[2])

(* A key is named by one row, which is the row of its id if that one lives. *)
Sole ==
  \A i \in Live : \A key \in Named(i) :
    \/ key[1] \in reused
    \/ /\ key[1] \in Live => key[1] = i
       /\ \A j \in Live : key \in Named(j) => i = j

(* A key that is named, or held by a poll whose row lives, is stored. *)
There(key) == key[1] \in reused \/ key \in DOMAIN blobs \cup raced

Present ==
  /\ \A i \in Live : \A key \in Named(i) : There(key)
  /\ \A p \in Pollers : poll[p].id \in Live => \A key \in Held1(p) : There(key)

(* A key about to be purged is named by no row and its row is gone. *)
PurgeSafe ==
  \A key \in purge :
    /\ key[1] \in given
    /\ key[1] \in reused \/ (key \notin Referenced /\ key[1] \notin Live)

Shown == Typed /\ Agree /\ Sole /\ Present /\ PurgeSafe

LEMMA ShownMeans == Shown => PicturesShown
<1> SUFFICES ASSUME Shown, NEW i \in Live, NEW key \in Named(i), key[1] \notin reused
             PROVE  IF key \in DOMAIN blobs THEN blobs[key] = items[i].post ELSE key \in raced
  BY DEF PicturesShown
<1>1. key \in DOMAIN blobs \cup raced
  BY DEF Shown, Present, There
<1>2. CASE key \in DOMAIN blobs
  <2>1. <<key[1], blobs[key]>> \in Said /\ <<key[1], items[i].post>> \in Said
    BY <1>2 DEF Said
  <2> QED
    BY <1>2, <2>1 DEF Shown, Agree
<1> QED
  BY <1>1, <1>2

LEMMA SaidRow == \A i \in Live : <<i, items[i].post>> \in Said
  BY DEF Said
LEMMA SaidPoll == \A p \in Running : <<poll[p].id, poll[p].post>> \in Said
  BY DEF Said
LEMMA SaidBlob == \A key \in DOMAIN blobs : <<key[1], blobs[key]>> \in Said
  BY DEF Said
LEMMA SaidKey == \A i \in Live : \A key \in Named(i) : <<key[1], items[i].post>> \in Said
  BY DEF Said

LEMMA ShownInit == Init => Shown
<1> SUFFICES ASSUME Init PROVE Shown
  OBVIOUS
<1>1. Live = {} /\ DOMAIN blobs = {} /\ purge = {}
  BY DEF Init, Live
<1>2. \A p \in Pollers : poll[p] = Idle
  BY DEF Init
<1>3. Running = {} /\ \A p \in Pollers : Held1(p) = {}
  BY <1>2, IdleType DEF Running, At, Held1, KeysOf
<1>4. Said = {}
  BY <1>1, <1>3 DEF Said
<1> QED
  BY <1>1, <1>3, <1>4, TypedInit DEF Shown, Agree, Sole, Present, PurgeSafe

LEMMA AgreeKept ==
  ASSUME Agree, Said' \subseteq Said, given \subseteq given', reused \subseteq reused'
  PROVE  Agree'
  BY DEF Agree

LEMMA SaidStep ==
  ASSUME NEW more,
         \A i \in Live' : <<i, items'[i].post>> \in Said \cup more,
         \A p \in Running' : <<poll'[p].id, poll'[p].post>> \in Said \cup more,
         \A key \in DOMAIN blobs' : <<key[1], blobs'[key]>> \in Said \cup more,
         \A i \in Live' : \A key \in Named(i)' : <<key[1], items'[i].post>> \in Said \cup more
  PROVE  Said' \subseteq Said \cup more
<1> DEFINE all == Said \cup more
<1>1. {<<i, items'[i].post>> : i \in Live'} \subseteq all
  OBVIOUS
<1>2. {<<poll'[p].id, poll'[p].post>> : p \in Running'} \subseteq all
  OBVIOUS
<1>3. {<<key[1], blobs'[key]>> : key \in DOMAIN blobs'} \subseteq all
  OBVIOUS
<1>4. UNION {{<<key[1], items'[i].post>> : key \in Named(i)'} : i \in Live'} \subseteq all
  OBVIOUS
<1> HIDE DEF all
<1>5. Said' = {<<i, items'[i].post>> : i \in Live'}
                 \cup {<<poll'[p].id, poll'[p].post>> : p \in Running'}
                 \cup {<<key[1], blobs'[key]>> : key \in DOMAIN blobs'}
                 \cup UNION {{<<key[1], items'[i].post>> : key \in Named(i)'} : i \in Live'}
  BY DEF Said
<1>6. Said' \subseteq all
  BY <1>1, <1>2, <1>3, <1>4, <1>5
<1> QED
  BY <1>6 DEF all

(* A poll starts: the id is the row's, or is new, or is given again. *)
LEMMA ShownUpsert ==
  ASSUME Shown, NEW p \in Pollers, NEW f \in Feeds, NEW post \in Posts, NEW cached \in BOOLEAN,
         Upsert(p, f, post, cached)
  PROVE  Agree' /\ Sole' /\ Present' /\ PurgeSafe'
<1>1. PICK i \in Ids : UpsertedAs(p, f, post, i)
  BY Upserted DEF Shown
<1>2. /\ \A j \in Live : Named(j)' = Named(j) /\ items'[j].post = items[j].post
      /\ i \notin Live => Named(i)' = {}
      /\ items'[i].post = post
  BY <1>1, NamedUpserted DEF Shown
<1>3. UNCHANGED <<blobs, purge, raced>> /\ Live' = Live \cup {i} /\ given' = given \cup {i}
      /\ reused' = (IF i \in given \ Live THEN reused \cup {i} ELSE reused)
      /\ (i \in Live => items[i].post = post)
  BY <1>1 DEF Upsert, UpsertedAs
<1>4. /\ poll'[p].id = i /\ poll'[p].post = post /\ Held1(p)' = {}
      /\ \A q \in Pollers : q # p => poll'[q] = poll[q]
  <2>1. PICK step \in {"image", "setMedia"} : Moves(p, [Idle EXCEPT !.pc = step, !.id = i, !.post = post])
    BY <1>1 DEF UpsertedAs
  <2> DEFINE c == [Idle EXCEPT !.pc = step, !.id = i, !.post = post]
  <2>2. c \in Poll /\ c.id = i /\ c.post = post /\ c.image = NULL /\ c.media = NULL
    BY DEF Idle, Poll, KeyOrNone
  <2> HIDE DEF c
  <2>3. poll'[p] = c /\ \A q \in Pollers : q # p => poll'[q] = poll[q]
    BY <2>1, <2>2, MovesOne DEF c, Shown
  <2> QED
    BY <2>2, <2>3 DEF Held1, KeysOf
<1>5. Said' \subseteq Said \cup {<<i, post>>}
  <2>1. \A j \in Live' : <<j, items'[j].post>> \in Said \cup {<<i, post>>}
    BY <1>2, <1>3, SaidRow
  <2>2. \A q \in Running' : <<poll'[q].id, poll'[q].post>> \in Said \cup {<<i, post>>}
    BY <1>4, SaidPoll DEF Running, At
  <2>3. \A key \in DOMAIN blobs' : <<key[1], blobs'[key]>> \in Said \cup {<<i, post>>}
    BY <1>3, SaidBlob
  <2>4. \A j \in Live' : \A key \in Named(j)' : <<key[1], items'[j].post>> \in Said \cup {<<i, post>>}
    BY <1>2, <1>3, SaidKey
  <2> HIDE DEF Said
  <2> QED
    BY <2>1, <2>2, <2>3, <2>4, SaidStep
<1>6. Agree'
  <2>1. CASE i \in Live
    <3>1. <<i, post>> \in Said
      BY <1>3, <2>1, SaidRow
    <3>2. Said' \subseteq Said
      BY <1>5, <3>1
    <3> QED
      BY <1>3, <3>2, AgreeKept DEF Shown
  <2>2. CASE i \notin Live
    <3>1. \A x \in Said : x[1] \in given
      BY DEF Shown, Agree
    <3>2. i \in reused' \/ \A x \in Said : x[1] # i
      BY <1>3, <2>2, <3>1
    <3>3. ASSUME NEW x \in Said', NEW y \in Said'
          PROVE  x[1] \in given' /\ (x[1] = y[1] => x[1] \in reused' \/ x[2] = y[2])
      <4>1. x \in Said \/ x = <<i, post>>
        BY <1>5
      <4>2. y \in Said \/ y = <<i, post>>
        BY <1>5
      <4>3. CASE x \in Said /\ y \in Said
        BY <1>3, <4>3 DEF Shown, Agree
      <4>4. CASE x = <<i, post>> /\ y = <<i, post>>
        BY <1>3, <4>4
      <4>5. CASE x = <<i, post>> /\ y \in Said
        BY <1>3, <3>2, <4>5
      <4>6. CASE x \in Said /\ y = <<i, post>>
        BY <1>3, <3>1, <3>2, <4>6
      <4> QED
        BY <4>1, <4>2, <4>3, <4>4, <4>5, <4>6
    <3> QED
      BY <3>3 DEF Agree
  <2> QED
    BY <2>1, <2>2
<1>7. ASSUME i \notin Live, i \notin reused'
      PROVE  /\ \A j \in Live : \A key \in Named(j) : key[1] # i
             /\ \A q \in Running : poll[q].id # i
             /\ \A key \in purge : key[1] # i
  <2>1. i \notin given /\ \A x \in Said : x[1] \in given
    BY <1>3, <1>7 DEF Shown, Agree
  <2> QED
    BY <2>1, SaidKey, SaidPoll DEF Shown, PurgeSafe
<1>8. Sole'
  <2>1. ASSUME NEW j \in Live', NEW key \in Named(j)', key[1] \notin reused'
        PROVE  (key[1] \in Live' => key[1] = j) /\ \A k \in Live' : key \in Named(k)' => j = k
    <3>1. j \in Live /\ key \in Named(j) /\ key[1] \notin reused
      BY <1>2, <1>3, <2>1
    <3>2. key[1] \in Live' => key[1] \in Live
      BY <1>3, <1>7, <2>1, <3>1
    <3>3. \A k \in Live' : key \in Named(k)' => k \in Live /\ key \in Named(k)
      BY <1>2, <1>3
    <3> QED
      BY <3>1, <3>2, <3>3 DEF Shown, Sole
  <2> QED
    BY <2>1 DEF Sole
<1>9. \A key : There(key) => There(key)'
  BY <1>3 DEF There
<1>10. Present'
  <2>1. \A j \in Live' : \A key \in Named(j)' : There(key)'
    BY <1>2, <1>3, <1>9 DEF Shown, Present
  <2>2. ASSUME NEW q \in Pollers, poll'[q].id \in Live', NEW key \in Held1(q)'
        PROVE  There(key)'
    <3>1. q # p /\ poll'[q] = poll[q] /\ key \in Held1(q)
      BY <1>4, <2>2 DEF Held1
    <3>2. key[1] = poll[q].id /\ q \in Running
      BY <3>1, PollsAre, IdleType DEF Held1, KeysOf, Local, Running, At, Shown
    <3>3. CASE poll[q].id \in Live
      BY <1>9, <3>1, <3>3 DEF Shown, Present
    <3>4. CASE poll[q].id \notin Live
      BY <1>3, <1>7, <2>2, <3>1, <3>2, <3>4 DEF There
    <3> QED
      BY <3>3, <3>4
  <2> QED
    BY <2>1, <2>2 DEF Present
<1>11. PurgeSafe'
  <2>1. ASSUME NEW key \in purge', key[1] \notin reused'
        PROVE  key \notin Referenced' /\ key[1] \notin Live'
    <3>1. key \in purge /\ key[1] \notin reused
      BY <1>3, <2>1
    <3>2. key \notin Referenced /\ key[1] \notin Live
      BY <3>1 DEF Shown, PurgeSafe
    <3>3. key[1] \notin Live'
      BY <1>3, <1>7, <2>1, <3>1, <3>2
    <3>4. key \notin Referenced'
      BY <1>2, <1>3, <3>2 DEF Referenced
    <3> QED
      BY <3>3, <3>4
  <2>2. \A key \in purge' : key[1] \in given'
    BY <1>3 DEF Shown, PurgeSafe
  <2> QED
    BY <2>1, <2>2 DEF PurgeSafe
<1> QED
  BY <1>6, <1>8, <1>10, <1>11

LEMMA RunningIs ==
  ASSUME Typed, NEW p \in Pollers, NEW c, Moves(p, c), Fits(c)
  PROVE  /\ poll'[p] = c /\ (c.pc # "idle" <=> p \in Running')
         /\ \A q \in Pollers : q # p => poll'[q] = poll[q] /\ (q \in Running' <=> q \in Running)
  BY MovesOne DEF Fits, Running, At

(* A picture is stored under the id of a poll that is under way. *)
LEMMA ShownCache ==
  ASSUME Shown, NEW p \in Pollers, CacheImage(p) \/ CacheMedia(p)
  PROVE  Agree' /\ Sole' /\ Present' /\ PurgeSafe'
<1>0. Typed
  BY DEF Shown
<1>1. PICK c : CachedAs(p, c)
  BY <1>0, CacheEffect
<1>2. /\ UNCHANGED <<items, purge, given, reused>> /\ p \in Running
      /\ Live' = Live /\ \A i : Named(i)' = Named(i)
  BY RowsSame DEF CacheImage, CacheMedia, history, Running, At
<1>3. /\ poll'[p] = c /\ c.id = poll[p].id /\ c.post = poll[p].post
      /\ \A q \in Pollers : q # p => poll'[q] = poll[q] /\ (q \in Running' <=> q \in Running)
  BY <1>0, <1>1, RunningIs DEF CachedAs
<1>4. c.id \in Ids /\ c.post \in Posts
  BY <1>1 DEF CachedAs, Fits
<1>5. \/ UNCHANGED <<blobs, raced>> /\ KeysOf(c) \subseteq Held1(p) \cup DOMAIN blobs
      \/ \E key \in Keys \ DOMAIN blobs :
           /\ key[1] = c.id /\ raced' = raced \ {key}
           /\ KeysOf(c) \subseteq Held1(p) \cup {key}
           /\ DOMAIN blobs' = DOMAIN blobs \cup {key}
           /\ \A k \in DOMAIN blobs' : blobs'[k] = IF k = key THEN c.post ELSE blobs[k]
  BY <1>0, <1>1, <1>4, PutTyped DEF CachedAs
<1>6. Said' \subseteq Said
  <2>1. \A q \in Running' : q \in Running /\ poll'[q].id = poll[q].id /\ poll'[q].post = poll[q].post
    BY <1>2, <1>3 DEF Running
  <2>2. \A q \in Running' : <<poll'[q].id, poll'[q].post>> \in Said \cup {}
    BY <2>1, SaidPoll
  <2>3. <<c.id, c.post>> \in Said
    BY <1>2, <1>3, SaidPoll
  <2>4. \A key \in DOMAIN blobs' : <<key[1], blobs'[key]>> \in Said \cup {}
    <3> TAKE key \in DOMAIN blobs'
    <3>1. (key \in DOMAIN blobs /\ blobs'[key] = blobs[key]) \/ (key[1] = c.id /\ blobs'[key] = c.post)
      BY <1>5
    <3>2. CASE key \in DOMAIN blobs /\ blobs'[key] = blobs[key]
      BY <3>2, SaidBlob
    <3>3. CASE key[1] = c.id /\ blobs'[key] = c.post
      BY <2>3, <3>3
    <3> QED
      BY <3>1, <3>2, <3>3
  <2>5. \A i \in Live' : <<i, items'[i].post>> \in Said \cup {}
    BY <1>2, SaidRow
  <2>6. \A i \in Live' : \A key \in Named(i)' : <<key[1], items'[i].post>> \in Said \cup {}
    BY <1>2, SaidKey
  <2> HIDE DEF Said
  <2>7. Said' \subseteq Said \cup {}
    BY <2>2, <2>4, <2>5, <2>6, SaidStep
  <2> QED
    BY <2>7
<1>7. Agree'
  BY <1>2, <1>6, AgreeKept DEF Shown
<1>8. Sole'
  BY <1>2 DEF Shown, Sole
<1>9. \A key : There(key) => There(key)'
  BY <1>2, <1>5 DEF There
<1>10. Present'
  <2>1. \A i \in Live' : \A key \in Named(i)' : There(key)'
    BY <1>2, <1>9 DEF Shown, Present
  <2>2. ASSUME NEW q \in Pollers, poll'[q].id \in Live', NEW key \in Held1(q)'
        PROVE  There(key)'
    <3>1. CASE q # p
      BY <1>2, <1>3, <1>9, <2>2, <3>1 DEF Shown, Present, Held1
    <3>2. CASE q = p
      <4>1. key \in KeysOf(c) /\ poll[p].id \in Live
        BY <1>2, <1>3, <2>2, <3>2 DEF Held1
      <4>2. CASE key \in Held1(p)
        BY <1>9, <4>1, <4>2 DEF Shown, Present
      <4>3. CASE key \notin Held1(p)
        BY <1>5, <4>1, <4>3 DEF There
      <4> QED
        BY <4>2, <4>3
    <3> QED
      BY <3>1, <3>2
  <2> QED
    BY <2>1, <2>2 DEF Present
<1>11. PurgeSafe'
  <2>1. Referenced' = Referenced
    BY <1>2 DEF Referenced
  <2> QED
    BY <1>2, <2>1 DEF Shown, PurgeSafe
<1> QED
  BY <1>7, <1>8, <1>10, <1>11

(* A row comes to name only keys of its own id. *)
LEMMA ShownWrite ==
  ASSUME Shown, NEW p \in Pollers, SetImage(p) \/ SetMedia(p)
  PROVE  Agree' /\ Sole' /\ Present' /\ PurgeSafe'
<1>0. Typed
  BY DEF Shown
<1>1. PICK c : WrittenAs(p, c)
  BY <1>0, SetImageEffect, SetMediaEffect
<1>2. UNCHANGED <<blobs, purge, given, reused, raced>> /\ p \in Running /\ Live' = Live
  BY <1>1 DEF SetImage, SetMedia, history, Running, At, WrittenAs
<1>3. /\ poll'[p] = c /\ (c.pc # "idle" <=> p \in Running')
      /\ \A q \in Pollers : q # p => poll'[q] = poll[q] /\ (q \in Running' <=> q \in Running)
  BY <1>0, <1>1, RunningIs DEF WrittenAs
<1>4. /\ \A i \in Live : /\ items'[i].post = items[i].post
                         /\ Named(i)' \subseteq Named(i) \cup Held1(p)
                         /\ i # poll[p].id => Named(i)' = Named(i)
      /\ KeysOf(c) \subseteq Held1(p)
      /\ c.pc # "idle" => c.id = poll[p].id /\ c.post = poll[p].post
      /\ c.pc = "idle" => KeysOf(c) = {}
  BY <1>1, NamedWritten, IdleType DEF WrittenAs, Fits, KeysOf
<1>5. \A key \in Held1(p) : key[1] = poll[p].id /\ key \in Keys
  BY <1>0, PollsAre DEF Held1, KeysOf, Local
<1>6. Said' \subseteq Said
  <2>1. \A q \in Running' : q \in Running /\ poll'[q].id = poll[q].id /\ poll'[q].post = poll[q].post
    BY <1>2, <1>3, <1>4 DEF Running
  <2>2. \A q \in Running' : <<poll'[q].id, poll'[q].post>> \in Said \cup {}
    BY <2>1, SaidPoll
  <2>3. \A key \in DOMAIN blobs' : <<key[1], blobs'[key]>> \in Said \cup {}
    BY <1>2, SaidBlob
  <2>4. \A i \in Live' : <<i, items'[i].post>> \in Said \cup {}
    BY <1>2, <1>4, SaidRow
  <2>5. \A i \in Live' : \A key \in Named(i)' : <<key[1], items'[i].post>> \in Said \cup {}
    <3> TAKE i \in Live'
    <3> TAKE key \in Named(i)'
    <3>1. key \in Named(i) \/ key[1] = i
      BY <1>2, <1>4, <1>5
    <3> QED
      BY <1>2, <1>4, <3>1, SaidKey, SaidRow
  <2> HIDE DEF Said
  <2>6. Said' \subseteq Said \cup {}
    BY <2>2, <2>3, <2>4, <2>5, SaidStep
  <2> QED
    BY <2>6
<1>7. Agree'
  BY <1>2, <1>6, AgreeKept DEF Shown
<1>8. ASSUME NEW i \in Live, NEW key \in Named(i)'
      PROVE  key \in Named(i) \/ (i = poll[p].id /\ key \in Held1(p) /\ key[1] = i)
  BY <1>4, <1>5, <1>8
<1>9. Sole'
  <2>1. ASSUME NEW i \in Live', NEW key \in Named(i)', key[1] \notin reused'
        PROVE  (key[1] \in Live' => key[1] = i) /\ \A j \in Live' : key \in Named(j)' => i = j
    <3>1. \A j \in Live : key \in Named(j) /\ key[1] \in Live => key[1] = j
      BY <1>2, <2>1 DEF Shown, Sole
    <3>2. \A j, k \in Live : key \in Named(j) /\ key \in Named(k) => j = k
      BY <1>2, <2>1 DEF Shown, Sole
    <3>3. ASSUME NEW j \in Live, key \in Named(j)'
          PROVE  (key[1] \in Live => key[1] = j) /\ (key \in Named(j) \/ key[1] = j)
      BY <1>8, <3>1, <3>3
    <3>4. key[1] \in Live' => key[1] = i
      BY <1>2, <2>1, <3>3
    <3>5. ASSUME NEW j \in Live', key \in Named(j)' PROVE i = j
      BY <1>2, <2>1, <3>2, <3>3, <3>5
    <3> QED
      BY <3>4, <3>5
  <2> QED
    BY <2>1 DEF Sole
<1>10. \A key : There(key)' <=> There(key)
  BY <1>2 DEF There
<1>11. Present'
  <2>1. ASSUME NEW i \in Live', NEW key \in Named(i)' PROVE There(key)'
    BY <1>2, <1>8, <1>10, <2>1 DEF Shown, Present
  <2>2. ASSUME NEW q \in Pollers, poll'[q].id \in Live', NEW key \in Held1(q)'
        PROVE  There(key)'
    <3>1. CASE q # p
      BY <1>2, <1>3, <1>10, <2>2, <3>1 DEF Shown, Present, Held1
    <3>2. CASE q = p
      BY <1>2, <1>3, <1>4, <1>10, <2>2, <3>2 DEF Shown, Present, Held1
    <3> QED
      BY <3>1, <3>2
  <2> QED
    BY <2>1, <2>2 DEF Present
<1>12. PurgeSafe'
  <2>1. ASSUME NEW key \in purge, key[1] \notin reused
        PROVE  key \notin Referenced' /\ key[1] \notin Live
    <3>1. key \notin Referenced /\ key[1] \notin Live
      BY <2>1 DEF Shown, PurgeSafe
    <3>2. \A i \in Live : key \notin Named(i)
      BY <3>1 DEF Referenced
    <3>3. \A i \in Live : key \notin Named(i)'
      BY <1>8, <3>1, <3>2
    <3> QED
      BY <1>2, <3>1, <3>3 DEF Referenced
  <2> QED
    BY <1>2, <2>1 DEF Shown, PurgeSafe
<1> QED
  BY <1>7, <1>9, <1>11, <1>12

(* Rows are merged: no id comes to stand for another post. *)
LEMMA ShownMerged ==
  ASSUME Shown, NEW dest, MergedBy(dest),
         UNCHANGED <<blobs, poll, given, reused, raced>>
  PROVE  Agree' /\ Sole' /\ Present'
<1>1. /\ Live' \subseteq Live
      /\ \A i \in Live' : items'[i].post = items[i].post
  BY DEF MergedBy
<1>2. \A i \in Live' : \A key \in Named(i)' :
        \E j \in Live : dest[j] = i /\ key \in Named(j) /\ items[j].post = items'[i].post
  BY NamedMerged
<1>3. Said' \subseteq Said
  <2>1. \A i \in Live' : <<i, items'[i].post>> \in Said \cup {}
    BY <1>1, SaidRow
  <2>2. \A q \in Running' : <<poll'[q].id, poll'[q].post>> \in Said \cup {}
    BY SaidPoll DEF Running, At
  <2>3. \A key \in DOMAIN blobs' : <<key[1], blobs'[key]>> \in Said \cup {}
    BY SaidBlob
  <2>4. \A i \in Live' : \A key \in Named(i)' : <<key[1], items'[i].post>> \in Said \cup {}
    <3> TAKE i \in Live'
    <3> TAKE key \in Named(i)'
    <3>1. PICK j \in Live : key \in Named(j) /\ items[j].post = items'[i].post
      BY <1>2
    <3>2. <<key[1], items[j].post>> \in Said
      BY <3>1, SaidKey
    <3> QED
      BY <3>1, <3>2
  <2> HIDE DEF Said
  <2>5. Said' \subseteq Said \cup {}
    BY <2>1, <2>2, <2>3, <2>4, SaidStep
  <2> QED
    BY <2>5
<1>4. Agree'
  BY <1>3, AgreeKept DEF Shown
<1>5. Sole'
  <2>1. ASSUME NEW i \in Live', NEW key \in Named(i)', key[1] \notin reused'
        PROVE  (key[1] \in Live' => key[1] = i) /\ \A k \in Live' : key \in Named(k)' => i = k
    <3>1. PICK j \in Live : dest[j] = i /\ key \in Named(j)
      BY <1>2
    <3>2. (key[1] \in Live => key[1] = j) /\ \A k \in Live : key \in Named(k) => j = k
      BY <2>1, <3>1 DEF Shown, Sole
    <3>3. key[1] \in Live' => key[1] = i
      BY <1>1, <3>1, <3>2 DEF MergedBy
    <3>4. ASSUME NEW k \in Live', key \in Named(k)' PROVE i = k
      <4>1. PICK l \in Live : dest[l] = k /\ key \in Named(l)
        BY <1>2, <3>4
      <4> QED
        BY <3>1, <3>2, <4>1
    <3> QED
      BY <3>3, <3>4
  <2> QED
    BY <2>1 DEF Sole
<1>6. \A key : There(key)' <=> There(key)
  BY DEF There
<1>7. Present'
  <2>1. \A i \in Live' : \A key \in Named(i)' : There(key)'
    BY <1>2, <1>6 DEF Shown, Present
  <2>2. \A q \in Pollers : poll'[q].id \in Live' => \A key \in Held1(q)' : There(key)'
    BY <1>1, <1>6 DEF Shown, Present, Held1
  <2> QED
    BY <2>1, <2>2 DEF Present
<1> QED
  BY <1>4, <1>5, <1>7

LEMMA ReferencedMerged ==
  ASSUME NEW dest, MergedBy(dest)
  PROVE  Referenced' \subseteq Referenced
<1>1. ASSUME NEW i \in Live', NEW key \in Named(i)' PROVE key \in Referenced
  <2>1. \E j \in Live : key \in Named(j)
    BY <1>1, NamedMerged
  <2> QED
    BY <2>1 DEF Referenced
<1> QED
  BY <1>1 DEF Referenced

LEMMA ShownMerge ==
  ASSUME Shown, NEW i \in Ids, NEW j \in Ids, Merge(i, j)
  PROVE  Agree' /\ Sole' /\ Present' /\ PurgeSafe'
<1>1. PICK dest : MergedBy(dest)
  BY MergeEffect DEF Shown
<1>2. UNCHANGED <<blobs, poll, purge, given, reused, raced>>
  BY DEF Merge, history
<1>3. Live' \subseteq Live /\ Referenced' \subseteq Referenced
  BY <1>1, ReferencedMerged DEF MergedBy
<1>4. PurgeSafe'
  BY <1>2, <1>3 DEF Shown, PurgeSafe
<1> QED
  BY <1>1, <1>2, <1>4, ShownMerged

(* The keys a deletion returns are those of rows that end with it. *)
LEMMA ShownDelete ==
  ASSUME Shown, NEW f \in Feeds, Delete(f)
  PROVE  Agree' /\ Sole' /\ Present' /\ PurgeSafe'
<1>1. PICK dest : /\ MergedBy(dest)
                  /\ \A i \in Live : items[i].owner = f /\ items[i].listed = {f} =>
                                       dest[i] \notin Live'
  BY DeleteEffect DEF Shown
<1>2. UNCHANGED <<blobs, poll, given, reused, raced>> /\ purge' = purge \cup FeedKeys(f)
  BY DEF Delete, history
<1>3. Live' \subseteq Live /\ Referenced' \subseteq Referenced
  BY <1>1, ReferencedMerged DEF MergedBy
<1>4. ASSUME NEW key \in FeedKeys(f)
      PROVE  key[1] \in given /\ (key[1] \in reused \/ (key \notin Referenced' /\ key[1] \notin Live'))
  <2>1. PICK i \in Live : items[i].owner = f /\ items[i].listed = {f} /\ key \in Named(i)
    BY DEF FeedKeys
  <2>2. key[1] \in given
    BY <2>1, SaidKey DEF Shown, Agree
  <2>3. i \notin Live'
    BY <1>1, <2>1 DEF MergedBy
  <2>4. ASSUME key[1] \notin reused PROVE key \notin Referenced' /\ key[1] \notin Live'
    <3>1. (key[1] \in Live => key[1] = i) /\ \A j \in Live : key \in Named(j) => i = j
      BY <2>1, <2>4 DEF Shown, Sole
    <3>2. key[1] \notin Live'
      BY <1>3, <2>3, <3>1
    <3>3. ASSUME NEW k \in Live', key \in Named(k)' PROVE FALSE
      <4>1. PICK j \in Live : dest[j] = k /\ key \in Named(j)
        BY <1>1, <3>3, NamedMerged
      <4> QED
        BY <1>1, <2>1, <3>1, <4>1
    <3> QED
      BY <3>2, <3>3 DEF Referenced
  <2> QED
    BY <2>2, <2>4
<1>5. PurgeSafe'
  <2>1. ASSUME NEW key \in purge
        PROVE  key[1] \in given /\ (key[1] \in reused \/ (key \notin Referenced' /\ key[1] \notin Live'))
    BY <1>3 DEF Shown, PurgeSafe
  <2> QED
    BY <1>2, <1>4, <2>1 DEF PurgeSafe
<1> QED
  BY <1>1, <1>2, <1>5, ShownMerged

(* Blobs are deleted, or a poll or a purge ends where it is. *)
LEMMA AgreeDropped ==
  ASSUME Agree, UNCHANGED <<items, given, reused>>,
         UNCHANGED blobs \/ \E key : Drop(key), Typed,
         \A p \in Running' : p \in Running /\ poll'[p] = poll[p]
  PROVE  Agree'
<1>1. Live' = Live /\ \A i : Named(i)' = Named(i)
  BY RowsSame
<1>2. \A key \in DOMAIN blobs' : key \in DOMAIN blobs /\ blobs'[key] = blobs[key]
  BY DropTyped
<1>3. Said' \subseteq Said
  <2>1. \A i \in Live' : <<i, items'[i].post>> \in Said \cup {}
    BY <1>1, SaidRow
  <2>2. \A q \in Running' : <<poll'[q].id, poll'[q].post>> \in Said \cup {}
    BY SaidPoll
  <2>3. \A key \in DOMAIN blobs' : <<key[1], blobs'[key]>> \in Said \cup {}
    BY <1>2, SaidBlob
  <2>4. \A i \in Live' : \A key \in Named(i)' : <<key[1], items'[i].post>> \in Said \cup {}
    BY <1>1, SaidKey
  <2> HIDE DEF Said
  <2>5. Said' \subseteq Said \cup {}
    BY <2>1, <2>2, <2>3, <2>4, SaidStep
  <2> QED
    BY <2>5
<1> QED
  BY <1>3, AgreeKept

LEMMA ShownCollector ==
  ASSUME Shown, \/ \E key \in Keys : Purge(key) \/ Collect(key)
                \/ Crash \/ List \/ Orphans \/ EndCollect \/ UNCHANGED vars
  PROVE  Agree' /\ Sole' /\ Present' /\ PurgeSafe'
<1>0. Typed
  BY DEF Shown
<1>1. /\ UNCHANGED <<items, given, reused>> /\ purge' \subseteq purge
      /\ UNCHANGED blobs \/ \E key : Drop(key)
  BY DEF Purge, Collect, Crash, List, Orphans, EndCollect, history, vars
<1>2. Live' = Live /\ Referenced' = Referenced /\ \A i : Named(i)' = Named(i)
  BY <1>1, RowsSame DEF Referenced
<1>3. /\ \A p \in Running' : p \in Running /\ poll'[p] = poll[p]
      /\ \A p \in Pollers : \/ poll'[p] = poll[p]
                            \/ poll'[p] = Idle
  <2>1. CASE Crash
    <3>1. \A p \in Pollers : poll'[p] = Idle
      BY <2>1 DEF Crash
    <3> QED
      BY <3>1, IdleType DEF Running, At
  <2>2. CASE UNCHANGED poll
    BY <2>2 DEF Running, At
  <2> QED
    BY <2>1, <2>2 DEF Purge, Collect, List, Orphans, EndCollect, vars
<1>4. Agree'
  BY <1>0, <1>1, <1>3, AgreeDropped DEF Shown
<1>5. Sole'
  BY <1>1, <1>2 DEF Shown, Sole
<1>6. PurgeSafe'
  BY <1>1, <1>2 DEF Shown, PurgeSafe
<1>7. ASSUME NEW key, There(key),
             \/ \E i \in Live : key \in Named(i)
             \/ \E p \in Pollers : poll[p].id \in Live /\ key \in Held1(p)
      PROVE  There(key)'
  <2>1. CASE UNCHANGED <<blobs, raced>>
    BY <1>1, <1>7, <2>1 DEF There
  <2>2. ASSUME NEW k \in Keys, Purge(k), Drop(k) PROVE There(key)'
    <3>1. k[1] \in reused \/ (k \notin Referenced /\ k[1] \notin Live)
      BY <2>2 DEF Purge, Shown, PurgeSafe
    <3>2. key # k \/ key[1] \in reused
      <4>1. CASE \E i \in Live : key \in Named(i)
        BY <3>1, <4>1 DEF Referenced
      <4>2. ASSUME NEW p \in Pollers, poll[p].id \in Live, key \in Held1(p)
            PROVE  key # k \/ key[1] \in reused
        BY <1>0, <3>1, <4>2, PollsAre DEF Held1, KeysOf, Local
      <4> QED
        BY <1>7, <4>1, <4>2
    <3>3. raced' = raced /\ DOMAIN blobs' = DOMAIN blobs \ {k}
      BY <1>0, <2>2, DropTyped DEF Purge
    <3> QED
      BY <1>1, <1>7, <3>2, <3>3 DEF There
  <2>3. ASSUME NEW k \in Keys, Collect(k), Drop(k),
               raced' = IF k \in Referenced \cup Held THEN raced \cup {k} ELSE raced
        PROVE  There(key)'
    <3>1. DOMAIN blobs' = DOMAIN blobs \ {k}
      BY <1>0, <2>3, DropTyped
    <3>2. key \in Referenced \cup Held
      <4>1. CASE \E i \in Live : key \in Named(i)
        BY <4>1 DEF Referenced
      <4>2. CASE \E p \in Pollers : key \in Held1(p)
        BY <4>2 DEF Held, Held1, KeysOf
      <4> QED
        BY <1>7, <4>1, <4>2
    <3> QED
      BY <1>1, <1>7, <2>3, <3>1, <3>2 DEF There
  <2> QED
    BY <2>1, <2>2, <2>3 DEF Purge, Collect, Crash, List, Orphans, EndCollect, vars
<1>8. Present'
  <2>1. \A i \in Live' : \A key \in Named(i)' : There(key)'
    BY <1>2, <1>7 DEF Shown, Present
  <2>2. ASSUME NEW q \in Pollers, poll'[q].id \in Live', NEW key \in Held1(q)'
        PROVE  There(key)'
    <3>1. poll'[q] = poll[q] /\ key \in Held1(q)
      BY <1>3, <2>2, IdleType DEF Held1, KeysOf
    <3> QED
      BY <1>2, <1>7, <2>2, <3>1 DEF Shown, Present
  <2> QED
    BY <2>1, <2>2 DEF Present
<1> QED
  BY <1>4, <1>5, <1>6, <1>8

LEMMA ShownStep == Shown /\ [Next]_vars => Shown'
<1> SUFFICES ASSUME Shown, [Next]_vars PROVE Shown'
  OBVIOUS
<1>1. Typed'
  BY TypedStep DEF Shown
<1>2. Agree' /\ Sole' /\ Present' /\ PurgeSafe'
  BY ShownUpsert, ShownCache, ShownWrite, ShownMerge, ShownDelete, ShownCollector DEF Next
<1> QED
  BY <1>1, <1>2 DEF Shown

(* A row shows a blob that is stored and holds its own post's picture,      *)
(* whatever is merged, moved, deleted, purged or collected under the polls, *)
(* unless a collector took the blob from under a poll or the id was given   *)
(* twice (cacheOne, ListFeedCacheKeys, purgeObjects).                       *)
THEOREM PicturesStay == Spec => []PicturesShown
  BY ShownInit, ShownStep, ShownMeans, PTL DEF Spec

=============================================================================
