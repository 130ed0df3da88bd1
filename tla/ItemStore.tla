----------------------------- MODULE ItemStore -----------------------------
(***************************************************************************)
(* One user's items (internal/store: item.go, itemdedup.go, feed.go,        *)
(* share.go): rows owned by a feed, the memberships that make a row visible *)
(* in other feeds, the two identities that decide whether a parsed entry is *)
(* a new row, and the user's state attached to rows.  Polls, feed deletion, *)
(* the user and the repair commands merge and delete rows under each other. *)
(*                                                                          *)
(* Every action is one SQLite transaction.  It computes the tables it       *)
(* would leave; if they break a constraint it is rolled back.               *)
(***************************************************************************)
EXTENDS Integers, Sequences, FiniteSets, FiniteSetsExt

CONSTANTS
  Feeds,      \* feed ids
  Posts,      \* what a site published: an entry's link and published time
  Guids,      \* entry GUIDs
  Keys,       \* dedup keys: the plugin's Identity, else the GUID
  CrossKeys,  \* cross-feed keys, 0 when a plugin derives none
  Documents,  \* the documents each feed may serve: sequences of entries
  Tokens,     \* share tokens
  Online,     \* the repair commands run beside a live server
  MaxId       \* bound: item ids

Entry == [post : Posts, guid : Guids, key : Keys, cross : CrossKeys]

ASSUME FeedsAssumption == Feeds \subseteq Nat /\ IsFiniteSet(Feeds)
ASSUME CrossAssumption == CrossKeys \subseteq Nat /\ 0 \in CrossKeys
ASSUME DocumentsAssumption ==
  /\ DOMAIN Documents = Feeds
  /\ \A f \in Feeds : \A document \in Documents[f] : document \in Seq(Entry)
ASSUME BoundAssumption == Online \in BOOLEAN /\ MaxId \in Nat

VARIABLES
  db,      \* the tables
  repair,  \* groups a repair command has scanned and not merged yet
  scan     \* the repair that runs: "none", "feed" or "cross"

vars == <<db, repair, scan>>

(* items, item_feeds, items.favorite (standing for read and bookmark too),  *)
(* list_items of one list, shared_items and feeds.                          *)
Empty == [rows |-> <<>>, members |-> {}, favorite |-> {}, listed |-> {},
          shares |-> {}, feeds |-> Feeds]

Ids(d) == DOMAIN d.rows

(* A row that satisfies the query, or 0 for sql.ErrNoRows. *)
OneOf(S) == IF S = {} THEN 0 ELSE CHOOSE i \in S : TRUE

(* INTEGER PRIMARY KEY without AUTOINCREMENT: one more than the largest. *)
NewId(d) == IF Ids(d) = {} THEN 1 ELSE Max(Ids(d)) + 1

(* The constraints a transaction must leave satisfied: UNIQUE(feed_id,      *)
(* guid), UNIQUE(feed_id, dedup_key), the partial index on cross_key, and   *)
(* the foreign keys of item_feeds.                                          *)
Consistent(d) ==
  /\ \A i, j \in Ids(d) :
       i # j =>
         /\ d.rows[i].feed = d.rows[j].feed =>
              d.rows[i].guid # d.rows[j].guid /\ d.rows[i].key # d.rows[j].key
         /\ d.rows[i].cross # 0 => d.rows[i].cross # d.rows[j].cross
  /\ \A m \in d.members : m[1] \in Ids(d) /\ m[2] \in d.feeds

(* Mutated form of Without: list_items does not cascade. *)
WithoutCascade(d, gone) ==
  [d EXCEPT !.rows = [i \in Ids(d) \ gone |-> d.rows[i]],
            !.members = {m \in @ : m[1] \notin gone},
            !.favorite = @ \ gone,
            !.shares = {x \in @ : x[1] \notin gone}]

(* DELETE FROM items, with its cascades. *)
Without(d, gone) ==
  [d EXCEPT !.rows = [i \in Ids(d) \ gone |-> d.rows[i]],
            !.members = {m \in @ : m[1] \notin gone},
            !.favorite = @ \ gone,
            !.listed = @ \ gone,
            !.shares = {x \in @ : x[1] \notin gone}]

(* What points at a merged row points at its survivor. *)
Repointed(S, into) == S \cup {into[i] : i \in S \cap DOMAIN into}

(* Mutated form of MergeInto: the losers' memberships are not folded in. *)
MergeIntoAlone(d, into) ==
  Without([d EXCEPT !.favorite = Repointed(@, into), !.listed = Repointed(@, into)],
          DOMAIN into)

(* mergeItemInto, for each loser in the domain of into: its state, its      *)
(* memberships and its lists move to the survivor.  Its share is offered to *)
(* the survivor too, but while the loser's own row still holds the token    *)
(* UNIQUE(token) turns that INSERT OR IGNORE into nothing.                  *)
MergeInto(d, into) ==
  Without([d EXCEPT !.favorite = Repointed(@, into), !.listed = Repointed(@, into),
                    !.members = @ \cup {<<into[m[1]], m[2]>> :
                                          m \in {n \in @ : n[1] \in DOMAIN into}}],
          DOMAIN into)

MergeAll(d, survivor, losers) == MergeInto(d, [i \in losers |-> survivor])

-----------------------------------------------------------------------------
(* upsertTx *)

(* The row that owns the entry's cross-feed identity, whatever its feed. *)
Owner(d, e) ==
  IF e.cross = 0 THEN 0 ELSE OneOf({i \in Ids(d) : d.rows[i].cross = e.cross})

(* The row this feed stored for the same dedup key. *)
Local(d, f, e) ==
  OneOf({i \in Ids(d) : d.rows[i].feed = f /\ d.rows[i].key = e.key})

RowOf(f, e) == [feed |-> f, post |-> e.post, guid |-> e.guid,
                key |-> e.key, cross |-> e.cross]

(* Mutated form of Stored: the key is assigned by (feed, dedup key), so a   *)
(* stray beside the owner gets it too.                                      *)
StoredByKey(d, f, e) ==
  LET local == Local(d, f, e)
      id == IF local # 0 THEN local ELSE NewId(d)
      row == IF local = 0 THEN RowOf(f, e)
             ELSE IF d.rows[local].cross = 0 THEN [d.rows[local] EXCEPT !.cross = e.cross]
             ELSE d.rows[local]
  IN [d EXCEPT !.rows = [i \in Ids(d) \cup {id} |-> IF i = id THEN row ELSE d.rows[i]],
               !.members = @ \cup {<<id, f>>}]

(* upsertTx: a row stored before the cross key was derived is folded into   *)
(* its owner; otherwise the feed's own row, or a new one, takes the key.    *)
Stored(d, f, e) ==
  LET owner == Owner(d, e)
      local == Local(d, f, e)
      folded == IF owner # 0 /\ local \notin {0, owner}
                THEN MergeAll(d, owner, {local}) ELSE d
      id == IF owner # 0 THEN owner ELSE IF local # 0 THEN local ELSE NewId(d)
      row == IF id \notin Ids(folded) THEN RowOf(f, e)
             ELSE IF folded.rows[id].cross = 0
                  THEN [folded.rows[id] EXCEPT !.cross = e.cross]
                  ELSE folded.rows[id]
  IN [folded EXCEPT
        !.rows = [i \in Ids(folded) \cup {id} |-> IF i = id THEN row ELSE folded.rows[i]],
        !.members = @ \cup {<<id, f>>}]

(* UpsertMany: a feed's whole document in one transaction. *)
Upserted(d, f, document) ==
  LET after[n \in 0..Len(document)] ==
        IF n = 0 THEN d ELSE Stored(after[n - 1], f, document[n])
  IN after[Len(document)]

-----------------------------------------------------------------------------
(* Feed deletion *)

(* The other feeds a row is a member of, and their row with the same key. *)
Homes(d, f, i) == {g \in Feeds : g # f /\ <<i, g>> \in d.members}
Collision(d, g, i) ==
  OneOf({j \in Ids(d) : d.rows[j].feed = g /\ d.rows[j].key = d.rows[i].key})
FreeHomes(d, f, i) == {g \in Homes(d, f, i) : Collision(d, g, i) = 0}

Owned(d, f) == {i \in Ids(d) : d.rows[i].feed = f}

(* Mutated form of Rehomed: to any other feed of the user, a member or not. *)
RehomedAnywhere(d, f) ==
  [d EXCEPT !.rows =
     [i \in Ids(d) |-> IF i \in Owned(d, f) /\ d.feeds # {f}
                       THEN [d.rows[i] EXCEPT !.feed = Min(d.feeds \ {f})]
                       ELSE d.rows[i]]]

(* rehomeFeedItems: to the first feed where the key is free; where every    *)
(* other feed has a row with the key, into the first of those rows.         *)
Rehomed(d, f) ==
  LET moving == {i \in Owned(d, f) : FreeHomes(d, f, i) # {}}
      merging == {i \in Owned(d, f) : Homes(d, f, i) # {} /\ FreeHomes(d, f, i) = {}}
      moved == [d EXCEPT !.rows =
                  [i \in Ids(d) |-> IF i \in moving
                                    THEN [d.rows[i] EXCEPT !.feed = Min(FreeHomes(d, f, i))]
                                    ELSE d.rows[i]]]
  IN MergeInto(moved, [i \in merging |-> Collision(d, Min(Homes(d, f, i)), i)])

(* FeedStore.Delete: re-home, then the feed's own rows cascade. *)
Deleted(d, f) ==
  LET home == Rehomed(d, f)
      left == Without(home, Owned(home, f))
  IN [left EXCEPT !.feeds = @ \ {f}, !.members = {m \in @ : m[2] # f}]

-----------------------------------------------------------------------------
(* Repairs: a scan, then one transaction for each group it found. *)

Group(S, survivor) == [survivor |-> survivor, losers |-> S \ {survivor}]

(* FindDedupGroups: same feed, same link, same published time; the newest   *)
(* row (the latest fetched_at, then the largest id) survives.               *)
FeedGroups(d) ==
  {Group(S, Max(S)) : S \in
     {T \in {{i \in Owned(d, f) : d.rows[i].post = p} : f \in Feeds, p \in Posts} :
        Cardinality(T) > 1}}

Keyed(d) == {i \in Ids(d) : d.rows[i].cross # 0}

(* The keyed rows whose dedup key an unkeyed row shares, in any feed. *)
Matches(d, i) == {k \in Keyed(d) : d.rows[k].key = d.rows[i].key}
StrayKey(d, i) == Min({d.rows[k].cross : k \in Matches(d, i)})

(* MergeCrossFeedDuplicates' rows of one cross-feed identity. *)
KeyedRows(d, c) == {i \in Keyed(d) : d.rows[i].cross = c}
Strays(d, c) ==
  {i \in Ids(d) \ Keyed(d) : Matches(d, i) # {} /\ StrayKey(d, i) = c}

(* Mutated form of CrossSurvivor: the newest row, keyed or not. *)
NewestSurvivor(d, c) == Max(KeyedRows(d, c) \cup Strays(d, c))

CrossSurvivor(d, c) == Max(KeyedRows(d, c))

CrossGroups(d) ==
  {Group(KeyedRows(d, c) \cup Strays(d, c), CrossSurvivor(d, c)) :
     c \in {x \in CrossKeys \ {0} : KeyedRows(d, x) # {} /\ Cardinality(KeyedRows(d, x) \cup Strays(d, x)) > 1}}

-----------------------------------------------------------------------------
Init == db = Empty /\ repair = {} /\ scan = "none"

(* A transaction: its tables, or a rollback. *)
Commit(d) == db' = IF Consistent(d) THEN d ELSE db

Serving == Online \/ scan = "none"

(* A successful poll stores its document. *)
Poll(f, document) ==
  /\ Serving
  /\ f \in db.feeds
  /\ \A i \in Ids(Upserted(db, f, document)) : i <= MaxId
  /\ Commit(Upserted(db, f, document))
  /\ UNCHANGED <<repair, scan>>

DeleteFeed(f) ==
  /\ Serving
  /\ f \in db.feeds
  /\ Commit(Deleted(db, f))
  /\ UNCHANGED <<repair, scan>>

SetFavorite(i, on) ==
  /\ Serving
  /\ i \in Ids(db)
  /\ db' = [db EXCEPT !.favorite = IF on THEN @ \cup {i} ELSE @ \ {i}]
  /\ UNCHANGED <<repair, scan>>

AddToList(i) ==
  /\ Serving
  /\ i \in Ids(db)
  /\ db' = [db EXCEPT !.listed = @ \cup {i}]
  /\ UNCHANGED <<repair, scan>>

(* ShareStore.Create: an existing share is returned, else a new token. *)
Share(i, t) ==
  /\ Serving
  /\ i \in Ids(db)
  /\ \A x \in db.shares : x[1] # i /\ x[2] # t
  /\ db' = [db EXCEPT !.shares = @ \cup {<<i, t>>}]
  /\ UNCHANGED <<repair, scan>>

Unshare(i) ==
  /\ Serving
  /\ db' = [db EXCEPT !.shares = {x \in @ : x[1] # i}]
  /\ UNCHANGED <<repair, scan>>

(* item dedup --apply; and cross-dedup --apply, which the server also runs  *)
(* before it serves.                                                        *)
ScanFeedDuplicates ==
  /\ scan = "none" /\ scan' = "feed"
  /\ repair' = FeedGroups(db)
  /\ UNCHANGED db

ScanCrossDuplicates ==
  /\ scan = "none" /\ scan' = "cross"
  /\ repair' = CrossGroups(db)
  /\ UNCHANGED db

(* mergeDedupGroup; the first group that fails ends the repair. *)
MergeGroup(g) ==
  LET merged == MergeAll(db, g.survivor, g.losers)
  IN /\ g \in repair
     /\ Commit(merged)
     /\ repair' = IF Consistent(merged) THEN repair \ {g} ELSE {}
     /\ UNCHANGED scan

EndRepair ==
  /\ scan # "none" /\ repair = {}
  /\ scan' = "none"
  /\ UNCHANGED <<db, repair>>

User ==
  \E i \in Ids(db) :
    \/ \E on \in BOOLEAN : SetFavorite(i, on)
    \/ AddToList(i)
    \/ \E t \in Tokens : Share(i, t)
    \/ Unshare(i)

Next ==
  \/ \E f \in Feeds : \E document \in Documents[f] : Poll(f, document)
  \/ \E f \in Feeds : DeleteFeed(f)
  \/ User
  \/ ScanFeedDuplicates \/ ScanCrossDuplicates
  \/ \E g \in repair : MergeGroup(g)
  \/ EndRepair

Spec == Init /\ [][Next]_vars

-----------------------------------------------------------------------------
Row == [feed : Feeds, post : Posts, guid : Guids, key : Keys, cross : CrossKeys]

(* The type of every variable. *)
TypeOK ==
  /\ Ids(db) \subseteq 1..MaxId
  /\ db.rows \in [Ids(db) -> Row]
  /\ db.members \subseteq Ids(db) \X db.feeds
  /\ db.favorite \subseteq Ids(db)
  /\ db.listed \subseteq Ids(db)
  /\ db.shares \subseteq Ids(db) \X Tokens
  /\ db.feeds \subseteq Feeds
  /\ repair \subseteq [survivor : 1..MaxId, losers : SUBSET (1..MaxId)]
  /\ scan \in {"none", "feed", "cross"}

(* Every row is a member of the feed that owns it, so an item that is       *)
(* re-homed or merged never vanishes from its owner's stream while the      *)
(* owner's deletion would still take it along.                              *)
OwnerListed == \A i \in Ids(db) : <<i, db.rows[i].feed>> \in db.members

(* No document a feed serves and no deletion of a feed can break a          *)
(* constraint, which would roll back every later poll of the feed.          *)
BatchesSucceed ==
  \A f \in db.feeds :
    /\ \A document \in Documents[f] : Consistent(Upserted(db, f, document))
    /\ Consistent(Deleted(db, f))

Visible(d, f) == {d.rows[m[1]].post : m \in {n \in d.members : n[2] = f}}

Marked(d, S, f) == {d.rows[m[1]].post : m \in {n \in d.members : n[2] = f /\ n[1] \in S}}

(* A post a feed shows stays in that feed until the feed itself is deleted, *)
(* marked and listed as the user left it: merges, re-homing and repairs     *)
(* hide nothing and forget nothing (rehomeFeedItems, mergeItemInto).        *)
NothingLost ==
  [][~User => \A f \in db'.feeds :
       /\ Visible(db, f) \subseteq Visible(db', f)
       /\ Marked(db, db.favorite, f) \subseteq Marked(db', db'.favorite, f)
       /\ Marked(db, db.listed, f) \subseteq Marked(db', db'.listed, f)]_vars

(* A post's cross-feed identity outlives polls and the cross-feed repair,   *)
(* so every feed's next poll still finds the one row.                       *)
SharedKeyKept ==
  [][scan # "feed" /\ db'.feeds = db.feeds =>
       \A i \in Keyed(db) : KeyedRows(db', db.rows[i].cross) # {}]_vars

SharedPosts(d) == {d.rows[x[1]].post : x \in d.shares}

(* mergeItemInto: "keep the survivor's token if it has one, otherwise adopt *)
(* the loser's": a post with a public link still has one after a merge.     *)
ShareLinksLive ==
  [][~User /\ db'.feeds = db.feeds => SharedPosts(db) \subseteq SharedPosts(db')]_vars
=============================================================================
