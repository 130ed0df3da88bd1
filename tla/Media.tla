-------------------------------- MODULE Media --------------------------------
(***************************************************************************)
(* Cached pictures (internal/imagecache, the poller's cacheItemImages and   *)
(* storeEnclosures, the purge after a feed deletion, and `nanoflux storage  *)
(* gc`): the items rows in the database name blobs in object storage, and   *)
(* no transaction spans the two.  The polls, the purges, the repairs and    *)
(* the collector run at once, and the server may crash at any step.         *)
(*                                                                          *)
(* A post may have a picture and a picture attachment.  A blob is named by  *)
(* the row's id and a slot; an id is one more than the largest, so ids are  *)
(* used again.  Which row an entry lands in is ItemStore's subject: here it *)
(* is any row of the same post.                                             *)
(***************************************************************************)
EXTENDS Naturals, FiniteSets, FiniteSetsExt

CONSTANTS
  Feeds,
  Posts,
  Pictured,     \* posts with a picture of their own
  Attached,     \* posts with a picture attachment
  Pollers,      \* polls that may run at once
  MaxId,        \* bound: largest row id
  MaxInserts,   \* bound: rows inserted
  MaxDeletions, \* bound: feeds deleted
  MaxRuns,      \* bound: runs of the collector
  NULL          \* no key: the remote URL is shown

ASSUME PictureAssumption == Pictured \cup Attached \subseteq Posts
ASSUME NullAssumption == NULL \notin (1..MaxId) \X {0, 1}
ASSUME BoundAssumption == {MaxId, MaxInserts, MaxDeletions, MaxRuns} \subseteq Nat

VARIABLES
  feeds,      \* the feeds there are
  items,      \* the items rows, by id
  blobs,      \* object storage: the post whose picture each key holds
  poll,       \* each poll's position and what it keeps between statements
  purge,      \* keys a deletion returned that are not purged yet
  gc,         \* the collector: "idle", "listed" or "delete"
  doomed,     \* what it has listed, then what it is going to delete
  inserts, deletions, runs,
  (* observers: what happened, read by no action *)
  given,      \* ids given so far
  reused,     \* ids given a second time
  recent,     \* keys rows have come to name since gc read the rows
  raced       \* keys gc deleted while a row named them or a poll held them

vars == <<feeds, items, blobs, poll, purge, gc, doomed, inserts,
          deletions, runs, given, reused, recent, raced>>
bounds == <<inserts, deletions, runs>>
history == <<given, reused>>

Ids == 1..MaxId

(* cacheOne's prefix; a blob has one extension, which is left out. *)
Key(i, slot) == <<i, slot>>
Keys == {Key(i, slot) : i \in Ids, slot \in {0, 1}}
KeyOrNone == Keys \cup {NULL}

(* image: image_cache_key.  media: the cache_key of each enclosure row. *)
Row == [post : Posts, owner : Feeds, listed : SUBSET Feeds,
        image : KeyOrNone, media : SUBSET KeyOrNone]

Poll == [pc : {"idle", "image", "media", "setImage", "setMedia"},
         id : Ids \cup {0}, post : Posts \cup {NULL},
         image : KeyOrNone, media : KeyOrNone]
Idle == [pc |-> "idle", id |-> 0, post |-> NULL, image |-> NULL, media |-> NULL]

Live == DOMAIN items
NewId == IF Live = {} THEN 1 ELSE Max(Live) + 1

(* Mutated form of Named: enclosures are left out. *)
NamedImage(i) == {items[i].image} \ {NULL}

(* The keys a row names. *)
Named(i) == ({items[i].image} \cup items[i].media) \ {NULL}

(* AllCacheKeys *)
Referenced == UNION {Named(i) : i \in Live}

Init ==
  /\ feeds = Feeds
  /\ items = <<>>
  /\ blobs = <<>>
  /\ poll = [p \in Pollers |-> Idle]
  /\ purge = {}
  /\ gc = "idle"
  /\ doomed = {}
  /\ reused = {}
  /\ given = {}
  /\ inserts = 0
  /\ deletions = 0
  /\ runs = 0
  /\ recent = {}
  /\ raced = {}

-----------------------------------------------------------------------------
At(p, step) == poll[p].pc = step
Moves(p, local) == poll' = [poll EXCEPT ![p] = local]

Put(key, post) ==
  blobs' = [k \in DOMAIN blobs \cup {key} |-> IF k = key THEN post ELSE blobs[k]]
Drop(key) == blobs' = [k \in DOMAIN blobs \ {key} |-> blobs[k]]

(* The rows change: what they come to name is noted while gc deletes. *)
Rows(new) ==
  /\ items' = new
  /\ recent' = recent \cup {key \in doomed \ Referenced :
                             /\ gc = "delete"
                             /\ \E i \in DOMAIN new : key \in {new[i].image} \cup new[i].media}

(* UpsertMany commits an entry of f: a new row, or one of the same post,    *)
(* which f then lists too.  Whether pictures are cached is the feed's flag. *)
Upsert(p, f, post, cached) ==
  LET rows == {i \in Live : items[i].post = post}
      mine == {i \in rows : f \in items[i].listed}
  IN /\ At(p, "idle") /\ f \in feeds
     /\ \E i \in (IF mine # {} THEN mine ELSE rows \cup {NewId}) \cap Ids :
          /\ Moves(p, [Idle EXCEPT !.pc = IF cached THEN "image" ELSE "setMedia",
                                   !.id = i, !.post = post])
          /\ Rows([j \in Live \cup {i} |->
                     IF j # i THEN items[j]
                     ELSE IF i \in Live THEN [items[i] EXCEPT !.listed = @ \cup {f}]
                     ELSE [post |-> post, owner |-> f, listed |-> {f},
                           image |-> NULL, media |-> {}]])
          /\ reused' = IF i \in given \ Live THEN reused \cup {i} ELSE reused
          /\ given' = given \cup {i}
          /\ i \notin Live => inserts < MaxInserts
          /\ inserts' = IF i \in Live THEN inserts ELSE inserts + 1
     /\ UNCHANGED <<feeds, blobs, purge, gc, doomed, deletions, runs, raced>>

(* cacheOne: a blob already in the slot is taken as it is; else the picture *)
(* is downloaded, which may fail and leaves the post with its remote URL.   *)
CacheOne(p, slot, field, next) ==
  LET key == Key(poll[p].id, slot)
  IN \/ /\ key \in DOMAIN blobs
        /\ Moves(p, [poll[p] EXCEPT !.pc = next, ![field] = key])
        /\ UNCHANGED <<blobs, raced>>
     \/ /\ key \notin DOMAIN blobs
        /\ Moves(p, [poll[p] EXCEPT !.pc = next, ![field] = key])
        /\ Put(key, poll[p].post)
        /\ raced' = raced \ {key}
     \/ /\ key \notin DOMAIN blobs
        /\ Moves(p, [poll[p] EXCEPT !.pc = next])
        /\ UNCHANGED <<blobs, raced>>

CacheImage(p) ==
  /\ At(p, "image")
  /\ IF poll[p].post \in Pictured THEN CacheOne(p, 0, "image", "media")
     ELSE Moves(p, [poll[p] EXCEPT !.pc = "media"]) /\ UNCHANGED <<blobs, raced>>
  /\ UNCHANGED <<feeds, items, purge, gc, doomed, bounds, history, recent>>

(* The attachment of a post that has a picture is that picture, which is    *)
(* stored once.                                                             *)
CacheMedia(p) ==
  /\ At(p, "media")
  /\ IF poll[p].post \in Attached /\ poll[p].image = NULL
     THEN CacheOne(p, 1, "media", "setMedia")
     ELSE /\ Moves(p, [poll[p] EXCEPT
                         !.pc = IF poll[p].image = NULL THEN "setMedia" ELSE "setImage",
                         !.media = IF poll[p].post \in Attached THEN poll[p].image ELSE NULL])
          /\ UNCHANGED <<blobs, raced>>
  /\ UNCHANGED <<feeds, items, purge, gc, doomed, bounds, history, recent>>

(* SetItemImageCacheKey, by id: nothing when the row is gone. *)
SetImage(p) ==
  /\ At(p, "setImage")
  /\ LET i == poll[p].id
     IN Rows(IF i \in Live THEN [items EXCEPT ![i].image = poll[p].image] ELSE items)
  /\ Moves(p, [poll[p] EXCEPT !.pc = "setMedia"])
  /\ UNCHANGED <<feeds, blobs, purge, gc, doomed, bounds, history, raced>>

(* Mutated form of Replacement: the previous slot is not carried forward. *)
ReplacementBare(p, i) == {{poll[p].media}}

(* What ReplaceEnclosures may leave: the new key, or a previous row's.  A   *)
(* merged row has several of the same sort, and the last one read is taken. *)
Replacement(p, i) ==
  IF poll[p].media # NULL \/ items[i].media = {} THEN {{poll[p].media}}
  ELSE {{k} : k \in items[i].media}

(* ReplaceEnclosures, of an entry that has attachments: the foreign key     *)
(* fails when the row is gone.                                              *)
SetMedia(p) ==
  /\ At(p, "setMedia")
  /\ LET i == poll[p].id
     IN IF i \in Live /\ poll[p].post \in Attached
        THEN \E media \in Replacement(p, i) : Rows([items EXCEPT ![i].media = media])
        ELSE Rows(items)
  /\ Moves(p, Idle)
  /\ UNCHANGED <<feeds, blobs, purge, gc, doomed, bounds, history, raced>>

-----------------------------------------------------------------------------
(* mergeItemInto: enclosures are repointed, the loser's own picture is not. *)
Merged(losers, i) ==
  [items[i] EXCEPT !.listed = @ \cup UNION {items[j].listed : j \in losers},
                   !.media = @ \cup UNION {items[j].media : j \in losers}]

(* The repairs merge two rows of a post (DeduplicateItems and the others). *)
Merge(i, j) ==
  /\ {i, j} \subseteq Live /\ i # j
  /\ items[i].post = items[j].post
  /\ Rows([k \in Live \ {j} |-> IF k = i THEN Merged({j}, i) ELSE items[k]])
  /\ UNCHANGED <<feeds, blobs, poll, purge, gc, doomed, bounds, history, raced>>

(* Mutated form of FeedKeys: the posts other feeds list are not spared. *)
FeedKeysAll(f) == UNION {Named(i) : i \in {j \in Live : items[j].owner = f}}

(* ListFeedCacheKeys: of the posts the feed owns that no other feed lists. *)
FeedKeys(f) ==
  UNION {Named(i) : i \in {j \in Live : items[j].owner = f /\ items[j].listed = {f}}}

(* Mutated form of Homes: a feed that does not list the post. *)
HomesAny(f, i) == feeds \ {f}

(* rehomeFeedItems: a post of f goes to the first feed that has no row of   *)
(* it; when each has one it is merged into one of those rows.               *)
Homes(f, i) == items[i].listed \ {f}
Kept(g, i) == {j \in Live : items[j].owner = g /\ items[j].post = items[i].post}

(* FeedStore.Delete: one transaction, then feedDelete has keys to purge. *)
Delete(f) ==
  LET owned == {i \in Live : items[i].owner = f}
      free(i) == {g \in Homes(f, i) : Kept(g, i) = {}}
      moving == {i \in owned : free(i) # {}}
      merging == {i \in owned \ moving : Homes(f, i) # {}}
      left == (Live \ owned) \cup moving
  IN /\ f \in feeds /\ deletions < MaxDeletions
     /\ deletions' = deletions + 1
     /\ feeds' = feeds \ {f}
     /\ purge' = purge \cup FeedKeys(f)
     /\ \E home \in [moving -> Feeds], into \in [merging -> Live] :
          /\ \A i \in moving : home[i] \in free(i)
          /\ \A i \in merging : \E g \in Homes(f, i) : into[i] \in Kept(g, i)
          /\ Rows([i \in left |->
                     [Merged({j \in merging : into[j] = i}, i)
                        EXCEPT !.owner = IF i \in moving THEN home[i] ELSE @,
                               !.listed = @ \ {f}]])
     /\ UNCHANGED <<blobs, poll, gc, doomed, inserts, runs, history, raced>>

(* purgeObjects: one key after the other, a failure is logged. *)
Purge(key) ==
  /\ key \in purge
  /\ purge' = purge \ {key}
  /\ Drop(key) \/ UNCHANGED blobs
  /\ UNCHANGED <<feeds, items, poll, gc, doomed, bounds, history, recent, raced>>

(* The server stops: polls and purges end where they are. *)
Crash ==
  /\ poll' = [p \in Pollers |-> Idle]
  /\ purge' = {}
  /\ UNCHANGED <<feeds, items, blobs, gc, doomed, bounds, history, recent, raced>>

-----------------------------------------------------------------------------
(* Keys polls have stored or found and not written to a row yet. *)
Held == UNION {{poll[p].image, poll[p].media} : p \in Pollers}

(* storage gc: the objects are listed, then the keys rows name are read. *)
List ==
  /\ gc = "idle" /\ runs < MaxRuns
  /\ runs' = runs + 1
  /\ gc' = "listed"
  /\ doomed' = DOMAIN blobs
  /\ UNCHANGED <<feeds, items, blobs, poll, purge, inserts, deletions, history, recent, raced>>

(* Mutated form of Orphans: the pictures of enclosures are not spared. *)
OrphansOfImages ==
  /\ gc = "listed"
  /\ gc' = "delete"
  /\ doomed' = doomed \ UNION {NamedImage(i) : i \in Live}
  /\ recent' = {}
  /\ UNCHANGED <<feeds, items, blobs, poll, purge, bounds, history, raced>>

Orphans ==
  /\ gc = "listed"
  /\ gc' = "delete"
  /\ doomed' = doomed \ Referenced
  /\ recent' = {}
  /\ UNCHANGED <<feeds, items, blobs, poll, purge, bounds, history, raced>>

Collect(key) ==
  /\ gc = "delete" /\ key \in doomed
  /\ doomed' = doomed \ {key}
  /\ recent' = recent \ {key}
  /\ \/ /\ Drop(key)
        /\ raced' = IF key \in Referenced \cup Held THEN raced \cup {key} ELSE raced
     \/ UNCHANGED <<blobs, raced>>
  /\ UNCHANGED <<feeds, items, poll, purge, gc, bounds, history>>

(* Everything is deleted, or the command is interrupted. *)
EndCollect ==
  /\ gc # "idle"
  /\ gc' = "idle"
  /\ doomed' = {}
  /\ recent' = {}
  /\ UNCHANGED <<feeds, items, blobs, poll, purge, bounds, history, raced>>

Next ==
  \/ \E p \in Pollers :
       \/ \E f \in Feeds, post \in Posts, cached \in BOOLEAN : Upsert(p, f, post, cached)
       \/ CacheImage(p) \/ CacheMedia(p) \/ SetImage(p) \/ SetMedia(p)
  \/ \E i, j \in Ids : Merge(i, j)
  \/ \E f \in Feeds : Delete(f)
  \/ \E key \in Keys : Purge(key) \/ Collect(key)
  \/ Crash \/ List \/ Orphans \/ EndCollect

Spec == Init /\ [][Next]_vars

-----------------------------------------------------------------------------
(* The type of every variable, and the foreign keys of the rows. *)
TypeOK ==
  /\ feeds \subseteq Feeds
  /\ Live \subseteq Ids
  /\ \A i \in Live : /\ items[i] \in Row
                     /\ items[i].owner \in items[i].listed
                     /\ items[i].listed \subseteq feeds
  /\ DOMAIN blobs \subseteq Keys /\ \A key \in DOMAIN blobs : blobs[key] \in Posts
  /\ poll \in [Pollers -> Poll]
  /\ gc \in {"idle", "listed", "delete"}
  /\ purge \cup doomed \cup recent \cup raced \subseteq Keys
  /\ reused \subseteq given /\ given \subseteq Ids
  /\ inserts \in 0..MaxInserts
  /\ deletions \in 0..MaxDeletions
  /\ runs \in 0..MaxRuns

(* A row shows a blob that is stored, and it is its own post's picture: a   *)
(* purge takes nothing another feed's posts show, and a slot always holds   *)
(* the bytes of one image, whatever was merged, moved or deleted under a    *)
(* poll.  Left out: what a collector took from under a poll, and ids given  *)
(* twice, whose keys two posts may come to share (purgeObjects runs after   *)
(* the commit).                                                             *)
PicturesShown ==
  \A i \in Live : \A key \in Named(i) :
    \/ key[1] \in reused
    \/ IF key \in DOMAIN blobs THEN blobs[key] = items[i].post ELSE key \in raced

(* The collector deletes the picture of a row only if the row came to name  *)
(* it after the collector had read the rows (storage.Orphans).              *)
CollectSpares ==
  [][\A key \in (DOMAIN blobs \ DOMAIN blobs') \cap Referenced :
       key \in doomed \ doomed' => key \in recent]_vars

(* A re-poll does not drop a cached picture, whether or not it caches or    *)
(* can download again (ReplaceEnclosures, SetItemImageCacheKey).            *)
CachedKept ==
  [][\A i \in Live \cap DOMAIN items' :
       /\ items[i].image # NULL => items'[i].image # NULL
       /\ NULL \notin items[i].media =>
            NULL \notin items'[i].media \/ items[i].media \subseteq items'[i].media]_vars
=============================================================================
