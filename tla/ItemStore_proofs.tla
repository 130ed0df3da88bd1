-------------------------- MODULE ItemStore_proofs --------------------------
(***************************************************************************)
(* Proofs about one user's items, for any feeds, entries and documents.     *)
(***************************************************************************)
EXTENDS ItemStore, FiniteSetTheorems, TLAPS

LEMMA GreatestOf ==
  ASSUME NEW n \in Nat, NEW S \in SUBSET (1..n), S # {}
  PROVE  Max(S) \in S /\ \A x \in S : Max(S) >= x
<1> DEFINE back == {n - x : x \in S}
<1>1. \A x \in S : x \in Nat /\ n - x \in Nat
  OBVIOUS
<1>2. back \subseteq Nat /\ back # {}
  BY <1>1
<1>3. IsWellFoundedOn(OpToRel(<, Nat), Nat)
  BY NatLessThanWellFounded
<1>4. PICK b \in back : \A c \in back : <<c, b>> \notin OpToRel(<, Nat)
  BY <1>2, <1>3, WFMin
<1>5. PICK m \in S : b = n - m
  OBVIOUS
<1>6. \A x \in S : m >= x
  <2> TAKE x \in S
  <2>1. ~(n - x < n - m)
    BY <1>1, <1>2, <1>4, <1>5 DEF OpToRel
  <2> QED
    BY <1>1, <2>1
<1> QED
  BY <1>6 DEF Max

LEMMA LeastOf ==
  ASSUME NEW S \in SUBSET Nat, S # {}
  PROVE  Min(S) \in S /\ \A x \in S : Min(S) <= x
<1>1. IsWellFoundedOn(OpToRel(<, Nat), Nat)
  BY NatLessThanWellFounded
<1>2. PICK m \in S : \A c \in S : <<c, m>> \notin OpToRel(<, Nat)
  BY <1>1, WFMin
<1>3. \A x \in S : m <= x
  <2> TAKE x \in S
  <2>1. ~(x < m)
    BY <1>2 DEF OpToRel
  <2> QED
    BY <2>1
<1> QED
  BY <1>3 DEF Min

-----------------------------------------------------------------------------
(* The tables of one transaction: rows in a finite range of ids, and every  *)
(* reference to a row or a feed is to one there is.  It holds between the   *)
(* statements of a transaction too, where the ids have no common bound.     *)

Tables(d) ==
  d = [rows |-> d.rows, members |-> d.members, favorite |-> d.favorite,
       listed |-> d.listed, shares |-> d.shares, feeds |-> d.feeds]

RowsIn(d) == (\E n \in Nat : Ids(d) \subseteq 1..n) /\ d.rows \in [Ids(d) -> Row]

References(d) ==
  /\ d.members \subseteq Ids(d) \X d.feeds
  /\ d.favorite \subseteq Ids(d)
  /\ d.listed \subseteq Ids(d)
  /\ d.shares \subseteq Ids(d) \X Tokens

Listed(d) == \A i \in Ids(d) : <<i, d.rows[i].feed>> \in d.members

Good(d) == Tables(d) /\ RowsIn(d) /\ References(d) /\ Listed(d) /\ d.feeds \subseteq Feeds

LEMMA WithoutIs ==
  ASSUME NEW d, Tables(d), NEW gone
  PROVE  LET e == Without(d, gone)
         IN /\ Tables(e) /\ Ids(e) = Ids(d) \ gone /\ e.rows = [i \in Ids(e) |-> d.rows[i]]
            /\ e.members = {m \in d.members : m[1] \notin gone}
            /\ e.favorite = d.favorite \ gone /\ e.listed = d.listed \ gone
            /\ e.shares = {x \in d.shares : x[1] \notin gone}
            /\ e.feeds = d.feeds
<1> DEFINE rows == [i \in Ids(d) \ gone |-> d.rows[i]]
           members == {m \in d.members : m[1] \notin gone}
           favorite == d.favorite \ gone
           listed == d.listed \ gone
           shares == {x \in d.shares : x[1] \notin gone}
           e == [rows |-> rows, members |-> members, favorite |-> favorite,
                 listed |-> listed, shares |-> shares, feeds |-> d.feeds]
<1>1. Without(d, gone) = [d EXCEPT !.rows = rows, !.members = members, !.favorite = favorite,
                                   !.listed = listed, !.shares = shares]
  BY DEF Without
<1> HIDE DEF rows, members, favorite, listed, shares
<1>2. Without(d, gone) = e
  BY <1>1 DEF Tables
<1>3. Tables(e) /\ e.rows = rows /\ e.members = members /\ e.favorite = favorite
      /\ e.listed = listed /\ e.shares = shares /\ e.feeds = d.feeds
  BY DEF Tables
<1>4. Ids(e) = Ids(d) \ gone
  BY <1>3 DEF Ids, rows
<1> QED
  BY <1>2, <1>3, <1>4 DEF rows, members, favorite, listed, shares

LEMMA MarksUpdated ==
  ASSUME NEW d, Tables(d), NEW f, NEW l, NEW m
  PROVE  [d EXCEPT !.favorite = f, !.listed = l, !.members = m] =
           [rows |-> d.rows, members |-> m, favorite |-> f,
            listed |-> l, shares |-> d.shares, feeds |-> d.feeds]
<1> DEFINE a == [d EXCEPT !.favorite = f]
           b == [a EXCEPT !.listed = l]
<1>1. a = [rows |-> d.rows, members |-> d.members, favorite |-> f,
           listed |-> d.listed, shares |-> d.shares, feeds |-> d.feeds]
  BY DEF Tables
<1>2. [d EXCEPT !.favorite = f, !.listed = l, !.members = m] = [b EXCEPT !.members = m]
  OBVIOUS
<1> HIDE DEF a
<1>3. b = [rows |-> d.rows, members |-> d.members, favorite |-> f,
           listed |-> l, shares |-> d.shares, feeds |-> d.feeds]
  BY <1>1
<1> HIDE DEF b
<1> QED
  BY <1>2, <1>3

LEMMA RowsUpdated ==
  ASSUME NEW d, Tables(d), NEW r, NEW m
  PROVE  [d EXCEPT !.rows = r, !.members = m] =
           [rows |-> r, members |-> m, favorite |-> d.favorite,
            listed |-> d.listed, shares |-> d.shares, feeds |-> d.feeds]
<1> DEFINE a == [d EXCEPT !.rows = r]
<1>1. a = [rows |-> r, members |-> d.members, favorite |-> d.favorite,
           listed |-> d.listed, shares |-> d.shares, feeds |-> d.feeds]
  BY DEF Tables
<1>2. [d EXCEPT !.rows = r, !.members = m] = [a EXCEPT !.members = m]
  OBVIOUS
<1> HIDE DEF a
<1> QED
  BY <1>1, <1>2

LEMMA FeedsUpdated ==
  ASSUME NEW d, Tables(d), NEW f, NEW m
  PROVE  [d EXCEPT !.feeds = f, !.members = m] =
           [rows |-> d.rows, members |-> m, favorite |-> d.favorite,
            listed |-> d.listed, shares |-> d.shares, feeds |-> f]
<1> DEFINE a == [d EXCEPT !.feeds = f]
<1>1. a = [rows |-> d.rows, members |-> d.members, favorite |-> d.favorite,
           listed |-> d.listed, shares |-> d.shares, feeds |-> f]
  BY DEF Tables
<1>2. [d EXCEPT !.feeds = f, !.members = m] = [a EXCEPT !.members = m]
  OBVIOUS
<1> HIDE DEF a
<1> QED
  BY <1>1, <1>2

(* Merging rows takes what points at them to their survivors. *)
LEMMA MergeIntoIs ==
  ASSUME NEW d, Tables(d), NEW into
  PROVE  LET e == MergeInto(d, into)
             all == d.members \cup {<<into[m[1]], m[2]>> :
                                      m \in {n \in d.members : n[1] \in DOMAIN into}}
         IN /\ Tables(e) /\ Ids(e) = Ids(d) \ DOMAIN into
            /\ e.rows = [i \in Ids(e) |-> d.rows[i]]
            /\ e.members = {m \in all : m[1] \notin DOMAIN into}
            /\ e.favorite = Repointed(d.favorite, into) \ DOMAIN into
            /\ e.listed = Repointed(d.listed, into) \ DOMAIN into
            /\ e.shares = {x \in d.shares : x[1] \notin DOMAIN into}
            /\ e.feeds = d.feeds
<1> DEFINE all == d.members \cup {<<into[m[1]], m[2]>> :
                                    m \in {n \in d.members : n[1] \in DOMAIN into}}
           favorite == Repointed(d.favorite, into)
           listed == Repointed(d.listed, into)
           c == [rows |-> d.rows, members |-> all, favorite |-> favorite,
                 listed |-> listed, shares |-> d.shares, feeds |-> d.feeds]
<1>1. MergeInto(d, into) =
        Without([d EXCEPT !.favorite = favorite, !.listed = listed, !.members = all], DOMAIN into)
  BY DEF MergeInto
<1> HIDE DEF all, favorite, listed
<1>2. [d EXCEPT !.favorite = favorite, !.listed = listed, !.members = all] = c
  BY MarksUpdated
<1>3. Tables(c) /\ c.rows = d.rows /\ c.members = all /\ c.favorite = favorite
      /\ c.listed = listed /\ c.shares = d.shares /\ c.feeds = d.feeds
  BY DEF Tables
<1>4. Ids(c) = Ids(d)
  BY <1>3 DEF Ids
<1> HIDE DEF c
<1>5. MergeInto(d, into) = Without(c, DOMAIN into)
  BY <1>1, <1>2
<1> QED
  BY <1>3, <1>4, <1>5, WithoutIs DEF all, favorite, listed

LEMMA WithoutGood ==
  ASSUME NEW d, Good(d), NEW gone
  PROVE  Good(Without(d, gone))
<1> DEFINE e == Without(d, gone)
<1>1. /\ Tables(e) /\ Ids(e) = Ids(d) \ gone /\ e.rows = [i \in Ids(e) |-> d.rows[i]]
      /\ e.members = {m \in d.members : m[1] \notin gone}
      /\ e.favorite = d.favorite \ gone /\ e.listed = d.listed \ gone
      /\ e.shares = {x \in d.shares : x[1] \notin gone}
      /\ e.feeds = d.feeds
  BY WithoutIs DEF Good
<1> HIDE DEF e
<1>2. RowsIn(e)
  BY <1>1 DEF Good, RowsIn
<1>3. References(e)
  BY <1>1 DEF Good, References
<1>4. Listed(e)
  BY <1>1 DEF Good, Listed
<1>5. Good(e)
  BY <1>1, <1>2, <1>3, <1>4 DEF Good
<1> QED
  BY <1>5 DEF e

(* Each loser there is has a survivor that stays. *)
Survivors(d, into) ==
  \A i \in DOMAIN into \cap Ids(d) : into[i] \in Ids(d) \ DOMAIN into

LEMMA MergeGood ==
  ASSUME NEW d, Good(d), NEW into, Survivors(d, into)
  PROVE  Good(MergeInto(d, into))
<1> DEFINE e == MergeInto(d, into)
           all == d.members \cup {<<into[m[1]], m[2]>> :
                                    m \in {n \in d.members : n[1] \in DOMAIN into}}
<1>1. /\ Tables(e) /\ Ids(e) = Ids(d) \ DOMAIN into
      /\ e.rows = [i \in Ids(e) |-> d.rows[i]]
      /\ e.members = {m \in all : m[1] \notin DOMAIN into}
      /\ e.favorite = Repointed(d.favorite, into) \ DOMAIN into
      /\ e.listed = Repointed(d.listed, into) \ DOMAIN into
      /\ e.shares = {x \in d.shares : x[1] \notin DOMAIN into}
      /\ e.feeds = d.feeds
  BY MergeIntoIs DEF Good
<1>2. all \subseteq Ids(d) \X d.feeds
  <2>1. \A m \in d.members : m[1] \in Ids(d) /\ m[2] \in d.feeds
    BY DEF Good, References
  <2>2. \A m \in d.members : m[1] \in DOMAIN into => into[m[1]] \in Ids(d)
    BY <2>1 DEF Survivors
  <2> QED
    BY <2>1, <2>2 DEF Good, References
<1>3. Repointed(d.favorite, into) \subseteq Ids(d) /\ Repointed(d.listed, into) \subseteq Ids(d)
  BY DEF Good, References, Repointed, Survivors
<1>4. d.members \subseteq all
  OBVIOUS
<1> HIDE DEF e, all
<1>5. RowsIn(e)
  BY <1>1 DEF Good, RowsIn
<1>6. References(e)
  BY <1>1, <1>2, <1>3 DEF Good, References
<1>7. Listed(e)
  BY <1>1, <1>4 DEF Good, Listed
<1>8. Good(e)
  BY <1>1, <1>5, <1>6, <1>7 DEF Good
<1> QED
  BY <1>8 DEF e

LEMMA RowFields ==
  ASSUME NEW row \in Row
  PROVE  /\ row.feed \in Feeds /\ row.post \in Posts /\ row.guid \in Guids
         /\ row.key \in Keys /\ row.cross \in CrossKeys
  BY DEF Row

LEMMA GoodRows ==
  ASSUME NEW d, Good(d), NEW i \in Ids(d)
  PROVE  d.rows[i] \in Row
  BY DEF Good, RowsIn

-----------------------------------------------------------------------------
(* What a transaction keeps: every post a feed shows, marked as it was, and *)
(* every cross-feed key.                                                    *)

Keeps(d, e) ==
  \A m \in d.members : m[2] \in e.feeds =>
    \E j \in Ids(e) :
      /\ <<j, m[2]>> \in e.members
      /\ e.rows[j].post = d.rows[m[1]].post
      /\ m[1] \in d.favorite => j \in e.favorite
      /\ m[1] \in d.listed => j \in e.listed

KeepsKeys(d, e) ==
  \A i \in Ids(d) : d.rows[i].cross # 0 =>
    \E j \in Ids(e) : e.rows[j].cross = d.rows[i].cross

LEMMA KeepsSelf == \A d : Good(d) => Keeps(d, d) /\ KeepsKeys(d, d)
  BY DEF Keeps, KeepsKeys, Good, References

LEMMA KeepsThen ==
  ASSUME NEW c, NEW d, NEW e, Keeps(c, d), Keeps(d, e), e.feeds \subseteq d.feeds
  PROVE  Keeps(c, e)
<1> SUFFICES ASSUME NEW m \in c.members, m[2] \in e.feeds
             PROVE  \E j \in Ids(e) :
                      /\ <<j, m[2]>> \in e.members
                      /\ e.rows[j].post = c.rows[m[1]].post
                      /\ m[1] \in c.favorite => j \in e.favorite
                      /\ m[1] \in c.listed => j \in e.listed
  BY DEF Keeps
<1>1. PICK k \in Ids(d) : /\ <<k, m[2]>> \in d.members
                          /\ d.rows[k].post = c.rows[m[1]].post
                          /\ m[1] \in c.favorite => k \in d.favorite
                          /\ m[1] \in c.listed => k \in d.listed
  BY DEF Keeps
<1> DEFINE n == <<k, m[2]>>
<1>2. n \in d.members /\ n[1] = k /\ n[2] = m[2]
  BY <1>1
<1> HIDE DEF n
<1>3. PICK j \in Ids(e) : /\ <<j, n[2]>> \in e.members
                          /\ e.rows[j].post = d.rows[n[1]].post
                          /\ n[1] \in d.favorite => j \in e.favorite
                          /\ n[1] \in d.listed => j \in e.listed
  BY <1>2 DEF Keeps
<1> QED
  BY <1>1, <1>2, <1>3

LEMMA KeepsKeysThen ==
  ASSUME NEW c, NEW d, NEW e, KeepsKeys(c, d), KeepsKeys(d, e)
  PROVE  KeepsKeys(c, e)
  BY DEF KeepsKeys

(* A merge keeps what it merges when the rows are of one post. *)
LEMMA MergeKeeps ==
  ASSUME NEW d, Good(d), NEW into, Survivors(d, into),
         \A i \in DOMAIN into \cap Ids(d) : d.rows[into[i]].post = d.rows[i].post
  PROVE  Keeps(d, MergeInto(d, into))
<1> DEFINE e == MergeInto(d, into)
           all == d.members \cup {<<into[m[1]], m[2]>> :
                                    m \in {n \in d.members : n[1] \in DOMAIN into}}
<1>1. /\ Ids(e) = Ids(d) \ DOMAIN into
      /\ e.rows = [i \in Ids(e) |-> d.rows[i]]
      /\ e.members = {m \in all : m[1] \notin DOMAIN into}
      /\ e.favorite = Repointed(d.favorite, into) \ DOMAIN into
      /\ e.listed = Repointed(d.listed, into) \ DOMAIN into
      /\ e.feeds = d.feeds
  BY MergeIntoIs DEF Good
<1> HIDE DEF e
<1>2. ASSUME NEW m \in d.members, m[2] \in e.feeds
      PROVE  \E j \in Ids(e) :
               /\ <<j, m[2]>> \in e.members
               /\ e.rows[j].post = d.rows[m[1]].post
               /\ m[1] \in d.favorite => j \in e.favorite
               /\ m[1] \in d.listed => j \in e.listed
  <2>1. m[1] \in Ids(d) /\ m = <<m[1], m[2]>>
    BY DEF Good, References
  <2>2. CASE m[1] \notin DOMAIN into
    BY <1>1, <2>1, <2>2 DEF Repointed
  <2>3. CASE m[1] \in DOMAIN into
    <3> DEFINE j == into[m[1]]
    <3>1. j \in Ids(d) \ DOMAIN into /\ d.rows[j].post = d.rows[m[1]].post
      BY <2>1, <2>3 DEF Survivors
    <3>2. <<j, m[2]>> \in all
      BY <2>3
    <3>3. /\ m[1] \in d.favorite => j \in Repointed(d.favorite, into)
          /\ m[1] \in d.listed => j \in Repointed(d.listed, into)
      BY <2>3 DEF Repointed
    <3> HIDE DEF j, all
    <3>4. <<j, m[2]>>[1] = j
      OBVIOUS
    <3>5. j \in Ids(e) /\ <<j, m[2]>> \in e.members /\ e.rows[j].post = d.rows[m[1]].post
      BY <1>1, <3>1, <3>2, <3>4
    <3> QED
      BY <1>1, <3>1, <3>3, <3>5
  <2> QED
    BY <2>2, <2>3
<1>3. Keeps(d, e)
  BY <1>2 DEF Keeps
<1> QED
  BY <1>3 DEF e

LEMMA MergeKeepsKeys ==
  ASSUME NEW d, Good(d), NEW into, Survivors(d, into),
         \A i \in DOMAIN into \cap Ids(d) : d.rows[i].cross \in {0, d.rows[into[i]].cross}
  PROVE  KeepsKeys(d, MergeInto(d, into))
<1> DEFINE e == MergeInto(d, into)
<1>1. /\ Ids(e) = Ids(d) \ DOMAIN into
      /\ e.rows = [i \in Ids(e) |-> d.rows[i]]
  BY MergeIntoIs DEF Good
<1> HIDE DEF e
<1>2. ASSUME NEW i \in Ids(d), d.rows[i].cross # 0
      PROVE  \E j \in Ids(e) : e.rows[j].cross = d.rows[i].cross
  <2>1. CASE i \in DOMAIN into
    BY <1>1, <1>2, <2>1 DEF Survivors
  <2>2. CASE i \notin DOMAIN into
    BY <1>1, <2>2
  <2> QED
    BY <2>1, <2>2
<1>3. KeepsKeys(d, e)
  BY <1>2 DEF KeepsKeys
<1> QED
  BY <1>3 DEF e

-----------------------------------------------------------------------------
(* One entry of a document (upsertTx). *)

LEMMA OneOfIs ==
  ASSUME NEW S, 0 \notin S
  PROVE  /\ OneOf(S) = 0 => S = {}
         /\ OneOf(S) # 0 => OneOf(S) \in S
  BY DEF OneOf

LEMMA NewIdIs ==
  ASSUME NEW d, RowsIn(d)
  PROVE  NewId(d) \in Nat \ {0} /\ NewId(d) \notin Ids(d) /\ 0 \notin Ids(d)
<1>1. PICK n \in Nat : Ids(d) \subseteq 1..n
  BY DEF RowsIn
<1>2. CASE Ids(d) = {}
  BY <1>2 DEF NewId
<1>3. CASE Ids(d) # {}
  <2>1. Max(Ids(d)) \in Ids(d) /\ \A x \in Ids(d) : Max(Ids(d)) >= x
    BY <1>1, <1>3, GreatestOf
  <2>2. NewId(d) = Max(Ids(d)) + 1
    BY <1>3 DEF NewId
  <2>3. \A x \in Ids(d) : x \in Nat /\ x # 0
    BY <1>1
  <2> QED
    BY <2>1, <2>2, <2>3
<1> QED
  BY <1>2, <1>3

(* A row is written and its membership in f with it. *)
Put(d, id, row, f) ==
  [d EXCEPT !.rows = [i \in Ids(d) \cup {id} |-> IF i = id THEN row ELSE d.rows[i]],
            !.members = @ \cup {<<id, f>>}]

LEMMA PutIs ==
  ASSUME NEW d, Tables(d), NEW id, NEW row, NEW f
  PROVE  LET e == Put(d, id, row, f)
         IN /\ Tables(e) /\ Ids(e) = Ids(d) \cup {id}
            /\ e.rows = [i \in Ids(e) |-> IF i = id THEN row ELSE d.rows[i]]
            /\ e.members = d.members \cup {<<id, f>>}
            /\ e.favorite = d.favorite /\ e.listed = d.listed
            /\ e.shares = d.shares /\ e.feeds = d.feeds
<1> DEFINE rows == [i \in Ids(d) \cup {id} |-> IF i = id THEN row ELSE d.rows[i]]
           members == d.members \cup {<<id, f>>}
           e == [rows |-> rows, members |-> members, favorite |-> d.favorite,
                 listed |-> d.listed, shares |-> d.shares, feeds |-> d.feeds]
<1>1. Put(d, id, row, f) = [d EXCEPT !.rows = rows, !.members = members]
  BY DEF Put
<1>2. DOMAIN rows = Ids(d) \cup {id}
  OBVIOUS
<1> HIDE DEF rows, members
<1>3. Put(d, id, row, f) = e
  BY <1>1, RowsUpdated
<1>4. /\ Tables(e) /\ e.rows = rows /\ e.members = members /\ e.favorite = d.favorite
      /\ e.listed = d.listed /\ e.shares = d.shares /\ e.feeds = d.feeds
  BY DEF Tables
<1>5. Ids(e) = Ids(d) \cup {id}
  BY <1>2, <1>4 DEF Ids
<1> QED
  BY <1>3, <1>4, <1>5 DEF rows, members

LEMMA PutGood ==
  ASSUME NEW d, Good(d), NEW id \in Nat \ {0}, NEW row \in Row, NEW f \in d.feeds,
         row.feed = IF id \in Ids(d) THEN d.rows[id].feed ELSE f
  PROVE  Good(Put(d, id, row, f)) /\ Put(d, id, row, f).feeds = d.feeds
<1> DEFINE e == Put(d, id, row, f)
<1>1. /\ Tables(e) /\ Ids(e) = Ids(d) \cup {id}
      /\ e.rows = [i \in Ids(e) |-> IF i = id THEN row ELSE d.rows[i]]
      /\ e.members = d.members \cup {<<id, f>>}
      /\ e.favorite = d.favorite /\ e.listed = d.listed
      /\ e.shares = d.shares /\ e.feeds = d.feeds
  BY PutIs DEF Good
<1> HIDE DEF e
<1>2. RowsIn(e)
  <2>1. PICK n \in Nat : Ids(d) \subseteq 1..n
    BY DEF Good, RowsIn
  <2>2. Ids(e) \subseteq 1..(n + id)
    BY <1>1, <2>1
  <2>3. e.rows \in [Ids(e) -> Row]
    BY <1>1, GoodRows
  <2> QED
    BY <2>1, <2>2, <2>3 DEF RowsIn
<1>3. References(e)
  BY <1>1 DEF Good, References
<1>4. Listed(e)
  BY <1>1 DEF Good, Listed
<1>5. Good(e)
  BY <1>1, <1>2, <1>3, <1>4 DEF Good
<1> QED
  BY <1>1, <1>5 DEF e

(* Nobody has the entry's cross-feed key, and no row of f its dedup key. *)
Unowned(d, e) == e.cross # 0 => \A k \in Ids(d) : d.rows[k].cross # e.cross
Unkeyed(d, f, e) == \A k \in Ids(d) : d.rows[k].feed = f => d.rows[k].key # e.key

(* The row an entry goes to, in the tables after the fold: the owner of its *)
(* cross-feed key, the feed's row of its dedup key, or a new one.           *)
StoredAs(d, f, e, c, id, row) ==
  /\ \/ c = d
     \/ \E j \in Ids(d) \ {id} :
          /\ id \in Ids(d) /\ c = MergeAll(d, id, {j})
          /\ d.rows[id].cross = e.cross /\ d.rows[j].key = e.key /\ e.cross # 0
  /\ id \in Nat \ {0}
  /\ id \in Ids(c) =>
       /\ id \in Ids(d) /\ c.rows[id] = d.rows[id]
       /\ \/ d.rows[id].cross = e.cross /\ e.cross # 0 /\ row = d.rows[id]
          \/ /\ d.rows[id].key = e.key /\ Unowned(d, e)
             /\ row = IF d.rows[id].cross = 0 THEN [d.rows[id] EXCEPT !.cross = e.cross]
                                              ELSE d.rows[id]
  /\ id \notin Ids(c) => row = RowOf(f, e) /\ c = d /\ Unowned(d, e) /\ Unkeyed(d, f, e)

LEMMA MergeAllIs ==
  ASSUME NEW d, Tables(d), NEW i, NEW L
  PROVE  LET c == MergeAll(d, i, L)
         IN Ids(c) = Ids(d) \ L /\ c.rows = [k \in Ids(c) |-> d.rows[k]] /\ c.feeds = d.feeds
  BY MergeIntoIs DEF MergeAll

LEMMA StoredIs ==
  ASSUME NEW d, Good(d), NEW f, NEW e
  PROVE  \E c, id, row : Stored(d, f, e) = Put(c, id, row, f) /\ StoredAs(d, f, e, c, id, row)
<1> DEFINE owner == Owner(d, e)
           local == Local(d, f, e)
           c == IF owner # 0 /\ local \notin {0, owner} THEN MergeAll(d, owner, {local}) ELSE d
           id == IF owner # 0 THEN owner ELSE IF local # 0 THEN local ELSE NewId(d)
           row == IF id \notin Ids(c) THEN RowOf(f, e)
                  ELSE IF c.rows[id].cross = 0 THEN [c.rows[id] EXCEPT !.cross = e.cross]
                  ELSE c.rows[id]
<1>1. Stored(d, f, e) = Put(c, id, row, f)
  BY DEF Stored, Put
<1>2. NewId(d) \in Nat \ {0} /\ NewId(d) \notin Ids(d) /\ 0 \notin Ids(d)
  BY NewIdIs DEF Good
<1>3. owner # 0 => owner \in Ids(d) /\ d.rows[owner].cross = e.cross /\ e.cross # 0
  BY <1>2, OneOfIs DEF Owner
<1>4. local # 0 => local \in Ids(d) /\ d.rows[local].key = e.key
  BY <1>2, OneOfIs DEF Local
<1>8. owner = 0 => Unowned(d, e)
  <2> SUFFICES ASSUME owner = 0, e.cross # 0 PROVE {i \in Ids(d) : d.rows[i].cross = e.cross} = {}
    BY DEF Unowned
  <2> QED
    BY <1>2, OneOfIs DEF Owner
<1>9. local = 0 => Unkeyed(d, f, e)
  <2> SUFFICES ASSUME local = 0
               PROVE  {i \in Ids(d) : d.rows[i].feed = f /\ d.rows[i].key = e.key} = {}
    BY DEF Unkeyed
  <2> QED
    BY <1>2, OneOfIs DEF Local
<1> HIDE DEF owner, local
<1>5. \A i \in Ids(d) : i \in Nat \ {0}
  BY <1>2 DEF Good, RowsIn
<1>6. id \in Nat \ {0}
  BY <1>2, <1>3, <1>4, <1>5
<1>7. StoredAs(d, f, e, c, id, row)
  <2>1. CASE owner # 0 /\ local \notin {0, owner}
    <3>1. id = owner /\ c = MergeAll(d, id, {local}) /\ local \in Ids(d) \ {id}
      BY <1>3, <1>4, <2>1
    <3>2. Ids(c) = Ids(d) \ {local} /\ c.rows = [k \in Ids(c) |-> d.rows[k]]
      BY <3>1, MergeAllIs DEF Good
    <3>3. id \in Ids(d) /\ id \in Ids(c) /\ c.rows[id] = d.rows[id]
      BY <1>3, <2>1, <3>1, <3>2
    <3>4. row = d.rows[id]
      BY <1>3, <2>1, <3>1, <3>3
    <3> HIDE DEF c, id, row
    <3> QED
      BY <1>3, <1>4, <1>6, <2>1, <3>1, <3>3, <3>4 DEF StoredAs
  <2>2. CASE owner # 0 /\ local \in {0, owner}
    <3>1. id = owner /\ c = d /\ row = d.rows[id]
      BY <1>3, <2>2
    <3> HIDE DEF c, id, row
    <3> QED
      BY <1>3, <1>6, <2>2, <3>1 DEF StoredAs
  <2>3. CASE owner = 0 /\ local # 0
    <3>1. /\ id = local /\ c = d
          /\ row = IF d.rows[id].cross = 0 THEN [d.rows[id] EXCEPT !.cross = e.cross] ELSE d.rows[id]
      BY <1>4, <2>3
    <3> HIDE DEF c, id, row
    <3> QED
      BY <1>4, <1>6, <1>8, <2>3, <3>1 DEF StoredAs
  <2>4. CASE owner = 0 /\ local = 0
    <3>1. id = NewId(d) /\ c = d /\ row = RowOf(f, e)
      BY <1>2, <2>4
    <3> HIDE DEF c, id, row
    <3> QED
      BY <1>2, <1>6, <1>8, <1>9, <2>4, <3>1 DEF StoredAs
  <2> QED
    BY <2>1, <2>2, <2>3, <2>4
<1> QED
  BY <1>1, <1>7

(* The row that is written belongs to the feed it belonged to. *)
LEMMA StoredRow ==
  ASSUME NEW d, Good(d), NEW f \in d.feeds, NEW e \in Entry, NEW c, NEW id, NEW row,
         StoredAs(d, f, e, c, id, row)
  PROVE  /\ row \in Row
         /\ row.feed = IF id \in Ids(c) THEN c.rows[id].feed ELSE f
         /\ id \in Ids(c) => /\ row.post = d.rows[id].post /\ row.key = d.rows[id].key
                             /\ row.cross = d.rows[id].cross
                                \/ (d.rows[id].cross = 0 /\ row.cross = e.cross
                                    /\ d.rows[id].key = e.key)
         /\ id \notin Ids(c) => row.post = e.post /\ row.key = e.key /\ row.cross = e.cross
         /\ row.guid = IF id \in Ids(c) THEN c.rows[id].guid ELSE e.guid
<1>1. e.post \in Posts /\ e.guid \in Guids /\ e.key \in Keys /\ e.cross \in CrossKeys /\ f \in Feeds
  BY DEF Entry, Good
<1>2. CASE id \notin Ids(c)
  BY <1>1, <1>2 DEF StoredAs, RowOf, Row
<1>3. CASE id \in Ids(c)
  <2> DEFINE r == d.rows[id]
             keyed == [r EXCEPT !.cross = e.cross]
  <2>1. r \in Row /\ c.rows[id] = r
    BY <1>3, GoodRows DEF StoredAs
  <2>2. row = r \/ (row = keyed /\ r.cross = 0 /\ r.key = e.key)
    BY <1>3 DEF StoredAs
  <2> HIDE DEF r
  <2>3. /\ keyed \in Row /\ keyed.feed = r.feed /\ keyed.post = r.post /\ keyed.key = r.key
        /\ keyed.guid = r.guid
        /\ keyed.cross = e.cross
    BY <1>1, <2>1 DEF Row
  <2> HIDE DEF keyed
  <2>4. /\ row \in Row /\ row.feed = r.feed /\ row.post = r.post /\ row.key = r.key
        /\ row.guid = r.guid
        /\ row.cross = r.cross \/ (r.cross = 0 /\ row.cross = e.cross /\ r.key = e.key)
    BY <2>1, <2>2, <2>3
  <2> QED
    BY <1>3, <2>1, <2>4 DEF r
<1> QED
  BY <1>2, <1>3

(* The tables between the fold and the write. *)
LEMMA FoldedGood ==
  ASSUME NEW d, Good(d), NEW f, NEW e, NEW c, NEW id, NEW row, StoredAs(d, f, e, c, id, row)
  PROVE  /\ Good(c) /\ c.feeds = d.feeds /\ Ids(c) \subseteq Ids(d)
         /\ \A i \in Ids(c) : c.rows[i] = d.rows[i]
<1>1. CASE c = d
  BY <1>1
<1>2. ASSUME NEW j \in Ids(d) \ {id}, id \in Ids(d), c = MergeAll(d, id, {j})
      PROVE  /\ Good(c) /\ c.feeds = d.feeds /\ Ids(c) \subseteq Ids(d)
             /\ \A i \in Ids(c) : c.rows[i] = d.rows[i]
  <2> DEFINE into == [i \in {j} |-> id]
  <2>1. Survivors(d, into)
    BY <1>2 DEF Survivors
  <2>2. c = MergeInto(d, into)
    BY <1>2 DEF MergeAll
  <2> HIDE DEF into
  <2>3. Good(c)
    BY <2>1, <2>2, MergeGood
  <2>4. LET b == MergeAll(d, id, {j})
        IN Ids(b) = Ids(d) \ {j} /\ b.rows = [k \in Ids(b) |-> d.rows[k]] /\ b.feeds = d.feeds
    BY MergeAllIs DEF Good
  <2>5. Ids(c) = Ids(d) \ {j} /\ c.rows = [k \in Ids(c) |-> d.rows[k]] /\ c.feeds = d.feeds
    BY <1>2, <2>4
  <2> QED
    BY <2>3, <2>5
<1> QED
  BY <1>1, <1>2 DEF StoredAs

LEMMA StoredGood ==
  ASSUME NEW d, Good(d), NEW f \in d.feeds, NEW e \in Entry
  PROVE  Good(Stored(d, f, e)) /\ Stored(d, f, e).feeds = d.feeds
<1>1. PICK c, id, row : Stored(d, f, e) = Put(c, id, row, f) /\ StoredAs(d, f, e, c, id, row)
  BY StoredIs
<1>2. Good(c) /\ c.feeds = d.feeds
  BY <1>1, FoldedGood
<1>3. row \in Row /\ row.feed = (IF id \in Ids(c) THEN c.rows[id].feed ELSE f)
  BY <1>1, StoredRow
<1>4. Good(Put(c, id, row, f)) /\ Put(c, id, row, f).feeds = c.feeds
  BY <1>1, <1>2, <1>3, PutGood DEF StoredAs
<1> QED
  BY <1>1, <1>2, <1>4

-----------------------------------------------------------------------------
(* A document (UpsertMany): the tables after each of its entries. *)

LEMMA LeastCounterexample ==
  ASSUME NEW S \in SUBSET Nat, 0 \notin S, \A n \in Nat : n + 1 \in S => n \in S
  PROVE  S = {}
<1> SUFFICES ASSUME S # {} PROVE FALSE
  OBVIOUS
<1>1. Min(S) \in S /\ \A x \in S : Min(S) <= x
  BY LeastOf
<1>2. PICK m \in S : \A x \in S : m <= x
  BY <1>1
<1>3. m - 1 \in Nat /\ (m - 1) + 1 = m
  BY <1>2
<1>4. m - 1 \in S
  BY <1>2, <1>3
<1> QED
  BY <1>2, <1>3, <1>4

LEMMA UpsertedSteps ==
  ASSUME NEW d, NEW f, NEW document \in Seq(Entry)
  PROVE  \E after :
           /\ after = [n \in 0..Len(document) |->
                         IF n = 0 THEN d ELSE Stored(after[n - 1], f, document[n])]
           /\ Upserted(d, f, document) = after[Len(document)]
<1> DEFINE N == Len(document)
           Is(g, m) == g = [n \in 0..m |->
                              IF n = 0 THEN d ELSE Stored(g[n - 1], f, document[n])]
           after == CHOOSE g : Is(g, N)
<1>1. N \in Nat
  OBVIOUS
<1>2. \E g : Is(g, N)
  <2> DEFINE S == {m \in Nat : ~\E g : Is(g, m)}
  <2>1. 0 \notin S
    <3> DEFINE g == [n \in 0..0 |-> d]
    <3>1. Is(g, 0)
      OBVIOUS
    <3> QED
      BY <3>1
  <2>2. ASSUME NEW m \in Nat, m \notin S PROVE m + 1 \notin S
    <3>1. PICK g : Is(g, m)
      BY <2>2
    <3> DEFINE h == [n \in 0..(m + 1) |->
                       IF n = m + 1 THEN Stored(g[m], f, document[m + 1]) ELSE g[n]]
    <3>2. DOMAIN h = 0..(m + 1)
      OBVIOUS
    <3>3. \A n \in 0..m : h[n] = g[n]
      OBVIOUS
    <3>4. h[0] = d
      BY <3>1, <3>3
    <3>5. h[m + 1] = Stored(h[m], f, document[m + 1])
      BY <3>3
    <3>6. \A n \in 0..m : n # 0 => h[n] = Stored(h[n - 1], f, document[n])
      BY <3>1, <3>3
    <3>7. \A n \in 0..(m + 1) : h[n] = IF n = 0 THEN d ELSE Stored(h[n - 1], f, document[n])
      <4> HIDE DEF h
      <4> TAKE n \in 0..(m + 1)
      <4>1. n = m + 1 \/ n \in 0..m
        OBVIOUS
      <4> QED
        BY <3>4, <3>5, <3>6, <4>1
    <3>8. h = [n \in 0..(m + 1) |-> h[n]]
      OBVIOUS
    <3> HIDE DEF h
    <3>9. Is(h, m + 1)
      BY <3>7, <3>8
    <3> QED
      BY <3>9
  <2> HIDE DEF Is
  <2>3. S = {}
    <3>1. S \subseteq Nat
      OBVIOUS
    <3> HIDE DEF S
    <3> QED
      BY <2>1, <2>2, <3>1, LeastCounterexample
  <2> QED
    BY <1>1, <2>3
<1>3. Is(after, N)
  <2> HIDE DEF Is, N
  <2> QED
    BY <1>2
<1>4. Upserted(d, f, document) = after[N]
  BY DEF Upserted
<1> HIDE DEF after
<1> QED
  BY <1>3, <1>4

-----------------------------------------------------------------------------
(* What the keys of entries stand for.  Merges compare keys, across feeds   *)
(* too (Collision, Matches), so they keep posts apart only as well as the   *)
(* keys do: a key is of one post and goes with one cross-feed key, and a    *)
(* cross-feed key is of one post.                                           *)

Entries == UNION {UNION {{document[n] : n \in DOMAIN document} : document \in Documents[f]} :
                    f \in Feeds}

Identified ==
  \A a, b \in Entries :
    /\ a.key = b.key => a.post = b.post /\ (a.cross = b.cross \/ 0 \in {a.cross, b.cross})
    /\ a.cross = b.cross /\ a.cross # 0 => a.post = b.post

(* Every row is of an entry that was served. *)
Drawn(d) ==
  \A i \in Ids(d) : \E e \in Entries :
    e.key = d.rows[i].key /\ e.post = d.rows[i].post /\ e.cross = d.rows[i].cross

LEMMA EntriesAre ==
  ASSUME NEW f \in Feeds, NEW document \in Documents[f]
  PROVE  /\ document \in Seq(Entry)
         /\ \A n \in 1..Len(document) : document[n] \in Entry /\ document[n] \in Entries
<1>1. document \in Seq(Entry)
  BY DocumentsAssumption
<1>2. DOMAIN document = 1..Len(document)
  BY <1>1
<1> QED
  BY <1>1, <1>2 DEF Entries

LEMMA DrawnPairs ==
  ASSUME Identified, NEW a, NEW b, (\E e \in Entries : e.key = a.key /\ e.post = a.post /\ e.cross = a.cross),
         \E e \in Entries : e.key = b.key /\ e.post = b.post /\ e.cross = b.cross
  PROVE  /\ a.key = b.key => a.post = b.post /\ (a.cross = b.cross \/ 0 \in {a.cross, b.cross})
         /\ a.cross = b.cross /\ a.cross # 0 => a.post = b.post
  BY DEF Identified

LEMMA StoredKeeps ==
  ASSUME NEW d, Good(d), NEW f \in d.feeds, NEW e \in Entry, e \in Entries, Identified, Drawn(d)
  PROVE  LET a == Stored(d, f, e) IN Drawn(a) /\ Keeps(d, a) /\ KeepsKeys(d, a)
<1>1. PICK c, id, row : Stored(d, f, e) = Put(c, id, row, f) /\ StoredAs(d, f, e, c, id, row)
  BY StoredIs
<1>2. /\ Good(c) /\ c.feeds = d.feeds /\ Ids(c) \subseteq Ids(d)
      /\ \A i \in Ids(c) : c.rows[i] = d.rows[i]
  BY <1>1, FoldedGood
<1>3. /\ id \in Ids(c) => /\ row.post = d.rows[id].post /\ row.key = d.rows[id].key
                          /\ row.cross = d.rows[id].cross
                             \/ (d.rows[id].cross = 0 /\ row.cross = e.cross
                                 /\ d.rows[id].key = e.key)
      /\ id \notin Ids(c) => row.post = e.post /\ row.key = e.key /\ row.cross = e.cross
  BY <1>1, StoredRow
<1>4. Keeps(d, c) /\ KeepsKeys(d, c)
  <2>1. CASE c = d
    BY <2>1, KeepsSelf
  <2>2. ASSUME NEW j \in Ids(d) \ {id}, id \in Ids(d), c = MergeAll(d, id, {j}),
               d.rows[id].cross = e.cross, d.rows[j].key = e.key, e.cross # 0
        PROVE  Keeps(d, c) /\ KeepsKeys(d, c)
    <3> DEFINE into == [i \in {j} |-> id]
    <3>1. Survivors(d, into)
      BY <2>2 DEF Survivors
    <3>2. c = MergeInto(d, into)
      BY <2>2 DEF MergeAll
    <3>3. PICK a \in Entries : a.key = d.rows[id].key /\ a.post = d.rows[id].post /\ a.cross = e.cross
      BY <2>2 DEF Drawn
    <3>4. PICK b \in Entries : b.key = e.key /\ b.post = d.rows[j].post /\ b.cross = d.rows[j].cross
      BY <2>2 DEF Drawn
    <3>5. a.post = e.post /\ b.post = e.post /\ b.cross \in {0, e.cross}
      BY <2>2, <3>3, <3>4 DEF Identified
    <3>6. d.rows[id].post = d.rows[j].post /\ d.rows[j].cross \in {0, d.rows[id].cross}
      BY <2>2, <3>3, <3>4, <3>5
    <3>7. \A i \in DOMAIN into \cap Ids(d) : d.rows[into[i]].post = d.rows[i].post
      BY <3>6
    <3>8. \A i \in DOMAIN into \cap Ids(d) : d.rows[i].cross \in {0, d.rows[into[i]].cross}
      BY <3>6
    <3> HIDE DEF into
    <3> QED
      BY <3>1, <3>2, <3>7, <3>8, MergeKeeps, MergeKeepsKeys
  <2> QED
    BY <1>1, <2>1, <2>2 DEF StoredAs
<1> DEFINE a == Put(c, id, row, f)
<1>5. /\ Ids(a) = Ids(c) \cup {id}
      /\ a.rows = [i \in Ids(a) |-> IF i = id THEN row ELSE c.rows[i]]
      /\ a.members = c.members \cup {<<id, f>>}
      /\ a.favorite = c.favorite /\ a.listed = c.listed /\ a.feeds = c.feeds
  BY <1>2, PutIs DEF Good
<1> HIDE DEF a
<1>6. Drawn(a)
  <2>1. \E b \in Entries : b.key = row.key /\ b.post = row.post /\ b.cross = row.cross
    <3>1. CASE id \notin Ids(c)
      BY <1>3, <3>1
    <3>2. CASE id \in Ids(c) /\ row.cross = d.rows[id].cross
      BY <1>2, <1>3, <3>2 DEF Drawn
    <3>3. CASE id \in Ids(c) /\ row.cross = e.cross /\ d.rows[id].key = e.key
      <4>1. PICK b \in Entries : b.key = e.key /\ b.post = row.post
        BY <1>2, <1>3, <3>3 DEF Drawn
      <4>2. e.post = row.post
        BY <4>1 DEF Identified
      <4> QED
        BY <1>3, <3>3, <4>2
    <3> QED
      BY <1>3, <3>1, <3>2, <3>3
  <2>2. \A i \in Ids(a) \ {id} : i \in Ids(d) /\ a.rows[i] = d.rows[i]
    BY <1>2, <1>5
  <2>3. id \in Ids(a) => a.rows[id] = row
    BY <1>5
  <2> QED
    BY <2>1, <2>2, <2>3 DEF Drawn
<1>7. \A i \in Ids(c) : i \in Ids(a) /\ a.rows[i].post = c.rows[i].post
                        /\ (c.rows[i].cross # 0 => a.rows[i].cross = c.rows[i].cross)
  BY <1>2, <1>3, <1>5
<1>8. Keeps(c, a)
  BY <1>2, <1>5, <1>7 DEF Keeps, Good, References
<1>9. KeepsKeys(c, a)
  BY <1>7 DEF KeepsKeys
<1> QED
  BY <1>1, <1>2, <1>4, <1>5, <1>6, <1>8, <1>9, KeepsThen, KeepsKeysThen DEF a

(* Two rows of a feed have different dedup keys, and two rows different     *)
(* cross-feed keys.                                                         *)
Unique(d) ==
  \A i, j \in Ids(d) :
    i # j => /\ d.rows[i].feed = d.rows[j].feed => d.rows[i].key # d.rows[j].key
             /\ d.rows[i].cross # 0 => d.rows[i].cross # d.rows[j].cross

(* A GUID always comes with one dedup key: the condition under which the    *)
(* dedup key tells rows apart for UNIQUE(feed_id, guid) too.                *)
GuidsKeyed == \A a, b \in Entries : a.guid = b.guid => a.key = b.key

(* Every row has the GUID and the dedup key of one entry that was served. *)
Named(d) ==
  \A i \in Ids(d) : \E e \in Entries : e.guid = d.rows[i].guid /\ e.key = d.rows[i].key

Distinct(d) == Named(d) /\ Unique(d)

LEMMA DistinctConsistent ==
  ASSUME GuidsKeyed, NEW d, Good(d), Distinct(d)
  PROVE  Consistent(d)
<1>1. ASSUME NEW i \in Ids(d), NEW j \in Ids(d), d.rows[i].guid = d.rows[j].guid
      PROVE  d.rows[i].key = d.rows[j].key
  <2>1. PICK a \in Entries : a.guid = d.rows[i].guid /\ a.key = d.rows[i].key
    BY DEF Distinct, Named
  <2>2. PICK b \in Entries : b.guid = d.rows[j].guid /\ b.key = d.rows[j].key
    BY DEF Distinct, Named
  <2>3. a.guid = b.guid
    BY <1>1, <2>1, <2>2
  <2>4. a.key = b.key
    BY <2>3 DEF GuidsKeyed
  <2> QED
    BY <2>1, <2>2, <2>4
<1>2. \A m \in d.members : m[1] \in Ids(d) /\ m[2] \in d.feeds
  BY DEF Good, References
<1> QED
  BY <1>1, <1>2 DEF Consistent, Distinct, Unique

(* Rows that are taken away leave the others distinct. *)
LEMMA FewerDistinct ==
  ASSUME NEW d, Distinct(d), NEW e, \A i \in Ids(e) : i \in Ids(d) /\ e.rows[i] = d.rows[i]
  PROVE  Distinct(e)
  BY DEF Distinct, Named, Unique

LEMMA StoredDistinct ==
  ASSUME NEW d, Good(d), NEW f \in d.feeds, NEW e \in Entry, e \in Entries, Distinct(d)
  PROVE  Distinct(Stored(d, f, e))
<1>1. PICK c, id, row : Stored(d, f, e) = Put(c, id, row, f) /\ StoredAs(d, f, e, c, id, row)
  BY StoredIs
<1>2. Good(c) /\ Ids(c) \subseteq Ids(d) /\ \A i \in Ids(c) : c.rows[i] = d.rows[i]
  BY <1>1, FoldedGood
<1>3. /\ row.feed = (IF id \in Ids(c) THEN c.rows[id].feed ELSE f)
      /\ row.guid = (IF id \in Ids(c) THEN c.rows[id].guid ELSE e.guid)
      /\ id \in Ids(c) => row.key = d.rows[id].key
      /\ id \notin Ids(c) => row.key = e.key /\ row.cross = e.cross
  BY <1>1, StoredRow
<1> DEFINE a == Put(c, id, row, f)
<1>4. Ids(a) = Ids(c) \cup {id} /\ a.rows = [i \in Ids(a) |-> IF i = id THEN row ELSE c.rows[i]]
  BY <1>2, PutIs DEF Good
<1> HIDE DEF a
<1>5. /\ \A i \in Ids(a) : i # id => i \in Ids(d) /\ a.rows[i] = d.rows[i]
      /\ id \in Ids(a) /\ a.rows[id] = row
  BY <1>2, <1>4
<1>6. \E b \in Entries : b.guid = row.guid /\ b.key = row.key
  <2>1. CASE id \notin Ids(c)
    BY <1>3, <2>1
  <2>2. CASE id \in Ids(c)
    <3>1. id \in Ids(d) /\ row.guid = d.rows[id].guid /\ row.key = d.rows[id].key
      BY <1>2, <1>3, <2>2
    <3> QED
      BY <3>1 DEF Distinct, Named
  <2> QED
    BY <2>1, <2>2
<1>7. Named(a)
  BY <1>5, <1>6 DEF Distinct, Named
(* The row that is written, beside any other. *)
<1>8. ASSUME NEW k \in Ids(a), k # id
      PROVE  /\ row.feed = d.rows[k].feed => row.key # d.rows[k].key
             /\ row.cross # 0 => row.cross # d.rows[k].cross
             /\ d.rows[k].cross # 0 => row.cross # d.rows[k].cross
  <2>1. k \in Ids(d)
    BY <1>5, <1>8
  <2>2. CASE id \notin Ids(c)
    <3>1. row.feed = f /\ row.key = e.key /\ row.cross = e.cross
      BY <1>3, <2>2
    <3>2. Unowned(d, e) /\ Unkeyed(d, f, e)
      BY <1>1, <2>2 DEF StoredAs
    <3> QED
      BY <2>1, <3>1, <3>2 DEF Unowned, Unkeyed
  <2>3. CASE id \in Ids(c)
    <3>1. id \in Ids(d) /\ row.feed = d.rows[id].feed /\ row.key = d.rows[id].key
      BY <1>2, <1>3, <2>3
    <3>2. row.cross = d.rows[id].cross \/ (row.cross = e.cross /\ Unowned(d, e))
      <4>1. row = d.rows[id] \/ (row = [d.rows[id] EXCEPT !.cross = e.cross] /\ Unowned(d, e))
        BY <1>1, <2>3 DEF StoredAs
      <4>2. d.rows[id] \in Row
        BY <3>1, GoodRows
      <4> QED
        BY <4>1, <4>2 DEF Row
    <3>3. CASE row.cross = d.rows[id].cross
      BY <1>8, <2>1, <3>1, <3>3 DEF Distinct, Unique
    <3>4. CASE row.cross = e.cross /\ Unowned(d, e)
      <4>1. row.cross # 0 => row.cross # d.rows[k].cross
        BY <2>1, <3>4 DEF Unowned
      <4> QED
        BY <1>8, <2>1, <3>1, <4>1 DEF Distinct, Unique
    <3> QED
      BY <3>2, <3>3, <3>4
  <2> QED
    BY <2>2, <2>3
<1>9. Unique(a)
  <2> SUFFICES ASSUME NEW i \in Ids(a), NEW j \in Ids(a), i # j
               PROVE  /\ a.rows[i].feed = a.rows[j].feed => a.rows[i].key # a.rows[j].key
                      /\ a.rows[i].cross # 0 => a.rows[i].cross # a.rows[j].cross
    BY DEF Unique
  <2>1. CASE i = id
    <3>1. a.rows[i] = row /\ a.rows[j] = d.rows[j]
      BY <1>5, <2>1
    <3> QED
      BY <1>8, <2>1, <3>1
  <2>2. CASE j = id
    <3>1. a.rows[j] = row /\ a.rows[i] = d.rows[i]
      BY <1>5, <2>2
    <3> QED
      BY <1>8, <2>2, <3>1
  <2>3. CASE i # id /\ j # id
    <3>1. i \in Ids(d) /\ j \in Ids(d) /\ a.rows[i] = d.rows[i] /\ a.rows[j] = d.rows[j]
      BY <1>5, <2>3
    <3> QED
      BY <3>1 DEF Distinct, Unique
  <2> QED
    BY <2>1, <2>2, <2>3
<1> QED
  BY <1>1, <1>7, <1>9 DEF a, Distinct

(* What holds after each entry of a document. *)
Along(d, a) ==
  /\ Good(a) /\ a.feeds = d.feeds
  /\ Identified /\ Drawn(d) => Drawn(a) /\ Keeps(d, a) /\ KeepsKeys(d, a)
  /\ Distinct(d) => Distinct(a)

LEMMA UpsertedAlong ==
  ASSUME NEW d, Good(d), NEW f \in d.feeds, NEW document \in Documents[f]
  PROVE  Along(d, Upserted(d, f, document))
<1>0. f \in Feeds
  BY DEF Good
<1>1. /\ document \in Seq(Entry)
      /\ \A n \in 1..Len(document) : document[n] \in Entry /\ document[n] \in Entries
  BY <1>0, EntriesAre
<1> DEFINE N == Len(document)
<1>2. PICK after : /\ after = [n \in 0..N |->
                                 IF n = 0 THEN d ELSE Stored(after[n - 1], f, document[n])]
                   /\ Upserted(d, f, document) = after[N]
  BY <1>1, UpsertedSteps
<1>3. N \in Nat
  BY <1>1
<1>4. after[0] = d /\ \A n \in 1..N : after[n] = Stored(after[n - 1], f, document[n])
  <2> HIDE DEF N
  <2>1. \A n \in 0..N : after[n] = IF n = 0 THEN d ELSE Stored(after[n - 1], f, document[n])
    BY <1>2
  <2>2. 0 \in 0..N /\ \A n \in 1..N : n \in 0..N /\ n # 0
    BY <1>3
  <2> QED
    BY <2>1, <2>2
<1> DEFINE S == {n \in Nat : n <= N /\ ~Along(d, after[n])}
<1>5. 0 \notin S
  <2>1. Along(d, d)
    BY KeepsSelf DEF Along
  <2> QED
    BY <1>4, <2>1
<1>6. ASSUME NEW n \in Nat, n \notin S PROVE n + 1 \notin S
  <2> SUFFICES ASSUME n + 1 <= N PROVE Along(d, after[n + 1])
    OBVIOUS
  <2>1. n <= N /\ n + 1 \in 1..N /\ (n + 1) - 1 = n
    BY <1>3
  <2>2. Along(d, after[n])
    BY <1>6, <2>1
  <2>3. after[n + 1] = Stored(after[n], f, document[n + 1])
    BY <1>4, <2>1
  <2>4. document[n + 1] \in Entry /\ document[n + 1] \in Entries
    BY <1>1, <2>1
  <2>5. Good(after[n]) /\ f \in after[n].feeds
    BY <2>2 DEF Along
  <2>6. Good(after[n + 1]) /\ after[n + 1].feeds = after[n].feeds
    BY <2>3, <2>4, <2>5, StoredGood
  <2>7. ASSUME Identified, Drawn(d)
        PROVE  Drawn(after[n + 1]) /\ Keeps(d, after[n + 1]) /\ KeepsKeys(d, after[n + 1])
    <3>1. Drawn(after[n]) /\ Keeps(d, after[n]) /\ KeepsKeys(d, after[n])
      BY <2>2, <2>7 DEF Along
    <3>2. Drawn(after[n + 1]) /\ Keeps(after[n], after[n + 1]) /\ KeepsKeys(after[n], after[n + 1])
      BY <2>3, <2>4, <2>5, <2>7, <3>1, StoredKeeps
    <3> QED
      BY <2>6, <3>1, <3>2, KeepsThen, KeepsKeysThen
  <2>8. Distinct(d) => Distinct(after[n + 1])
    BY <2>2, <2>3, <2>4, <2>5, StoredDistinct DEF Along
  <2> QED
    BY <2>2, <2>6, <2>7, <2>8 DEF Along
<1>7. S = {}
  <2>1. S \subseteq Nat
    OBVIOUS
  <2> HIDE DEF S
  <2> QED
    BY <1>5, <1>6, <2>1, LeastCounterexample
<1>8. Along(d, after[N])
  BY <1>3, <1>7
<1> HIDE DEF N, S
<1> QED
  BY <1>2, <1>8

-----------------------------------------------------------------------------
(* The deletion of a feed. *)

(* The rows of f that go to another feed, and the rows of f that are merged *)
(* into a row another feed has of the same key (rehomeFeedItems).           *)
Moving(d, f) == {i \in Owned(d, f) : FreeHomes(d, f, i) # {}}
Merging(d, f) == {i \in Owned(d, f) : Homes(d, f, i) # {} /\ FreeHomes(d, f, i) = {}}

MovedRows(d, f) ==
  [i \in Ids(d) |-> IF i \in Moving(d, f)
                    THEN [d.rows[i] EXCEPT !.feed = Min(FreeHomes(d, f, i))]
                    ELSE d.rows[i]]
Moved(d, f) == [d EXCEPT !.rows = MovedRows(d, f)]
Into(d, f) == [i \in Merging(d, f) |-> Collision(d, Min(Homes(d, f, i)), i)]

LEMMA RehomedIs ==
  ASSUME NEW d, NEW f
  PROVE  Rehomed(d, f) = MergeInto(Moved(d, f), Into(d, f))
  BY DEF Rehomed, Moved, MovedRows, Into, Moving, Merging

LEMMA HomesAre ==
  ASSUME NEW d, Good(d), NEW f, NEW i
  PROVE  /\ Homes(d, f, i) \subseteq Nat /\ FreeHomes(d, f, i) \subseteq Homes(d, f, i)
         /\ \A g \in Homes(d, f, i) : g \in Feeds /\ g # f /\ <<i, g>> \in d.members
  BY FeedsAssumption DEF Homes, FreeHomes

MovedAs(d, f, i, row) ==
  /\ row \in Row /\ row.post = d.rows[i].post /\ row.key = d.rows[i].key
  /\ row.cross = d.rows[i].cross /\ row.guid = d.rows[i].guid
  /\ <<i, row.feed>> \in d.members
  /\ i \in Moving(d, f) => row.feed # f /\ row.feed \in FreeHomes(d, f, i)
  /\ i \notin Moving(d, f) => row = d.rows[i]

LEMMA MovedRow ==
  ASSUME NEW d, Good(d), NEW f, NEW i \in Ids(d)
  PROVE  MovedAs(d, f, i, MovedRows(d, f)[i])
<1> DEFINE r == d.rows[i]
           g == Min(FreeHomes(d, f, i))
           row == MovedRows(d, f)[i]
<1>1. r \in Row /\ <<i, r.feed>> \in d.members
  BY GoodRows DEF Good, Listed
<1>2. row = IF i \in Moving(d, f) THEN [r EXCEPT !.feed = g] ELSE r
  BY DEF MovedRows
<1>3. CASE i \notin Moving(d, f)
  BY <1>1, <1>2, <1>3 DEF MovedAs
<1>4. CASE i \in Moving(d, f)
  <2>1. FreeHomes(d, f, i) # {}
    BY <1>4 DEF Moving
  <2>2. FreeHomes(d, f, i) \subseteq Nat
    BY HomesAre
  <2>3. g \in FreeHomes(d, f, i)
    BY <2>1, <2>2, LeastOf
  <2>4. g \in Feeds /\ g # f /\ <<i, g>> \in d.members
    BY <2>3, HomesAre
  <2> HIDE DEF g, r, row
  <2>5. row = [r EXCEPT !.feed = g]
    BY <1>2, <1>4
  <2>6. row \in Row /\ row.feed = g /\ row.post = r.post /\ row.key = r.key /\ row.cross = r.cross
        /\ row.guid = r.guid
    BY <1>1, <2>4, <2>5 DEF Row
  <2> QED
    BY <1>4, <2>3, <2>4, <2>6 DEF r, row, MovedAs
<1> QED
  BY <1>3, <1>4

LEMMA MovedIs ==
  ASSUME NEW d, Good(d), NEW f
  PROVE  LET c == Moved(d, f)
         IN /\ Good(c) /\ Ids(c) = Ids(d) /\ c.rows = MovedRows(d, f) /\ c.members = d.members
            /\ c.favorite = d.favorite /\ c.listed = d.listed /\ c.feeds = d.feeds
<1> DEFINE rows == MovedRows(d, f)
           c == [rows |-> rows, members |-> d.members, favorite |-> d.favorite,
                 listed |-> d.listed, shares |-> d.shares, feeds |-> d.feeds]
<1>1. DOMAIN rows = Ids(d) /\ rows = [i \in Ids(d) |-> rows[i]]
  BY DEF MovedRows
<1>2. \A i \in Ids(d) : rows[i] \in Row /\ <<i, rows[i].feed>> \in d.members
  BY MovedRow DEF MovedAs
<1> HIDE DEF rows
<1>3. Moved(d, f) = c
  BY DEF Moved, rows, Good, Tables
<1>4. /\ Tables(c) /\ c.rows = rows /\ c.members = d.members /\ c.favorite = d.favorite
      /\ c.listed = d.listed /\ c.shares = d.shares /\ c.feeds = d.feeds
  BY DEF Tables
<1> HIDE DEF c
<1>5. Ids(c) = Ids(d)
  BY <1>1, <1>4 DEF Ids
<1>6. RowsIn(c)
  <2>1. c.rows \in [Ids(c) -> Row]
    BY <1>1, <1>2, <1>4, <1>5
  <2> QED
    BY <1>5, <2>1 DEF Good, RowsIn
<1>7. References(c) /\ Listed(c)
  BY <1>2, <1>4, <1>5 DEF Good, References, Listed
<1>8. Good(c)
  BY <1>4, <1>6, <1>7 DEF Good
<1> QED
  BY <1>3, <1>4, <1>5, <1>8 DEF rows

(* A row that is merged goes into a row of another feed with its key. *)
LEMMA IntoIs ==
  ASSUME NEW d, Good(d), NEW f, NEW i \in Merging(d, f)
  PROVE  LET j == Into(d, f)[i]
         IN /\ i \in Ids(d) /\ d.rows[i].feed = f
            /\ j \in Ids(d) /\ j \notin Merging(d, f) /\ j \notin Moving(d, f)
            /\ d.rows[j].feed # f /\ d.rows[j].key = d.rows[i].key
<1> DEFINE g == Min(Homes(d, f, i))
           j == Collision(d, g, i)
<1>1. i \in Ids(d) /\ d.rows[i].feed = f /\ Homes(d, f, i) # {} /\ FreeHomes(d, f, i) = {}
  BY DEF Merging, Owned
<1>2. g \in Homes(d, f, i)
  BY <1>1, HomesAre, LeastOf
<1>3. g # f
  BY <1>2, HomesAre
<1>4. j # 0
  BY <1>1, <1>2 DEF FreeHomes
<1>5. j \in {k \in Ids(d) : d.rows[k].feed = g /\ d.rows[k].key = d.rows[i].key}
  <2>1. 0 \notin Ids(d)
    BY NewIdIs DEF Good
  <2> HIDE DEF g
  <2>2. j = OneOf({k \in Ids(d) : d.rows[k].feed = g /\ d.rows[k].key = d.rows[i].key})
    BY DEF Collision
  <2> HIDE DEF j
  <2> QED
    BY <1>4, <2>1, <2>2, OneOfIs
<1>6. Into(d, f)[i] = j
  BY DEF Into
<1> HIDE DEF g, j
<1> QED
  BY <1>1, <1>3, <1>5, <1>6 DEF Merging, Moving, Owned

LEMMA RehomedEffect ==
  ASSUME NEW d, Good(d), NEW f
  PROVE  LET c == Moved(d, f)
             h == Rehomed(d, f)
         IN /\ Good(c) /\ Survivors(c, Into(d, f)) /\ h = MergeInto(c, Into(d, f)) /\ Good(h)
            /\ Ids(h) = Ids(d) \ Merging(d, f) /\ h.feeds = d.feeds
            /\ \A i \in Ids(h) : h.rows[i] = MovedRows(d, f)[i]
            /\ \A m \in h.members :
                 m \in d.members \/ \E i \in Merging(d, f) : m[1] = Into(d, f)[i]
<1> DEFINE c == Moved(d, f)
           into == Into(d, f)
           h == MergeInto(c, into)
<1>1. /\ Good(c) /\ Ids(c) = Ids(d) /\ c.rows = MovedRows(d, f) /\ c.members = d.members
      /\ c.feeds = d.feeds
  BY MovedIs
<1>2. DOMAIN into = Merging(d, f) /\ \A i \in Merging(d, f) : into[i] \in Ids(d) \ Merging(d, f)
  <2>1. DOMAIN into = Merging(d, f)
    BY DEF Into
  <2> QED
    BY <2>1, IntoIs
<1> HIDE DEF c, into
<1>3. Survivors(c, into)
  BY <1>1, <1>2 DEF Survivors
<1>4. Good(h)
  BY <1>1, <1>3, MergeGood
<1> DEFINE all == c.members \cup {<<into[m[1]], m[2]>> : m \in {n \in c.members : n[1] \in DOMAIN into}}
<1>5. /\ Ids(h) = Ids(c) \ DOMAIN into /\ h.rows = [i \in Ids(h) |-> c.rows[i]]
      /\ h.members = {m \in all : m[1] \notin DOMAIN into} /\ h.feeds = c.feeds
  BY <1>1, MergeIntoIs DEF Good
<1>6. \A m \in all : m \in d.members \/ \E i \in Merging(d, f) : m[1] = into[i]
  BY <1>1, <1>2
<1>7. Rehomed(d, f) = h
  BY RehomedIs DEF c, into
<1> HIDE DEF h, all
<1>8. Ids(h) = Ids(d) \ Merging(d, f) /\ \A i \in Ids(h) : h.rows[i] = MovedRows(d, f)[i]
  BY <1>1, <1>2, <1>5
<1>9. \A m \in h.members : m \in d.members \/ \E i \in Merging(d, f) : m[1] = into[i]
  BY <1>5, <1>6
<1> QED
  BY <1>1, <1>3, <1>4, <1>5, <1>7, <1>8, <1>9 DEF c, into, h

(* A row that still belongs to f has no member but f. *)
LEMMA LeftAlone ==
  ASSUME NEW d, Good(d), NEW f, NEW m \in Rehomed(d, f).members, m[1] \in Owned(Rehomed(d, f), f)
  PROVE  m[2] = f
<1> DEFINE h == Rehomed(d, f)
           i == m[1]
<1>1. /\ Ids(h) = Ids(d) \ Merging(d, f)
      /\ \A k \in Ids(h) : h.rows[k] = MovedRows(d, f)[k]
      /\ m \in d.members \/ \E k \in Merging(d, f) : i = Into(d, f)[k]
  BY RehomedEffect
<1>2. i \in Ids(h) /\ h.rows[i].feed = f
  BY DEF Owned
<1> HIDE DEF h
<1>3. i \in Ids(d) \ Merging(d, f) /\ MovedRows(d, f)[i].feed = f
  BY <1>1, <1>2
<1>4. i \notin Moving(d, f) /\ MovedRows(d, f)[i] = d.rows[i]
  <2>1. MovedAs(d, f, i, MovedRows(d, f)[i])
    BY <1>3, MovedRow
  <2> QED
    BY <1>3, <2>1 DEF MovedAs
<1>5. i \in Owned(d, f)
  BY <1>3, <1>4 DEF Owned
<1>6. Homes(d, f, i) = {}
  BY <1>3, <1>4, <1>5 DEF Moving, Merging
<1>7. m \in d.members
  <2>1. ASSUME NEW k \in Merging(d, f), i = Into(d, f)[k] PROVE FALSE
    BY <1>3, <1>4, <2>1, IntoIs
  <2> QED
    BY <1>1, <2>1
<1>8. m = <<i, m[2]>> /\ m[2] \in Feeds
  BY <1>7 DEF Good, References
<1> HIDE DEF i
<1> QED
  BY <1>6, <1>7, <1>8 DEF Homes

LEMMA DeletedIs ==
  ASSUME NEW d, Good(d), NEW f
  PROVE  LET h == Rehomed(d, f)
             e == Deleted(d, f)
         IN /\ Tables(e) /\ Ids(e) = Ids(h) \ Owned(h, f)
            /\ e.rows = [i \in Ids(e) |-> h.rows[i]]
            /\ e.members = {m \in h.members : m[1] \notin Owned(h, f) /\ m[2] # f}
            /\ e.favorite = h.favorite \ Owned(h, f) /\ e.listed = h.listed \ Owned(h, f)
            /\ e.shares = {x \in h.shares : x[1] \notin Owned(h, f)}
            /\ e.feeds = d.feeds \ {f}
<1> DEFINE h == Rehomed(d, f)
           gone == Owned(h, f)
           left == Without(h, gone)
           members == {m \in left.members : m[2] # f}
           feeds == left.feeds \ {f}
           e == [rows |-> left.rows, members |-> members, favorite |-> left.favorite,
                 listed |-> left.listed, shares |-> left.shares, feeds |-> feeds]
<1>1. Tables(h) /\ h.feeds = d.feeds
  BY RehomedEffect DEF Good
<1>2. Deleted(d, f) = [left EXCEPT !.feeds = feeds, !.members = members]
  BY DEF Deleted
<1> HIDE DEF h, gone
<1>3. /\ Tables(left) /\ Ids(left) = Ids(h) \ gone /\ left.rows = [i \in Ids(left) |-> h.rows[i]]
      /\ left.members = {m \in h.members : m[1] \notin gone}
      /\ left.favorite = h.favorite \ gone /\ left.listed = h.listed \ gone
      /\ left.shares = {x \in h.shares : x[1] \notin gone}
      /\ left.feeds = h.feeds
  BY <1>1, WithoutIs
<1> HIDE DEF left
<1>4. [left EXCEPT !.feeds = feeds, !.members = members] = e
  <2>1. Tables(left)
    BY <1>3
  <2> HIDE DEF feeds, members
  <2> QED
    BY <2>1, FeedsUpdated
<1>5. /\ Tables(e) /\ e.rows = left.rows /\ e.members = members /\ e.favorite = left.favorite
      /\ e.listed = left.listed /\ e.shares = left.shares /\ e.feeds = feeds
  BY DEF Tables
<1>6. Ids(e) = Ids(left)
  BY <1>5 DEF Ids
<1> HIDE DEF e
<1>7. /\ e.members = {m \in h.members : m[1] \notin gone /\ m[2] # f}
      /\ e.feeds = d.feeds \ {f}
  BY <1>1, <1>3, <1>5
<1>8. Deleted(d, f) = e
  BY <1>2, <1>4
<1> HIDE DEF members, feeds
<1> QED
  BY <1>3, <1>5, <1>6, <1>7, <1>8 DEF h, gone

LEMMA DeletedGood ==
  ASSUME NEW d, Good(d), NEW f
  PROVE  Good(Deleted(d, f)) /\ Deleted(d, f).feeds = d.feeds \ {f}
<1> DEFINE h == Rehomed(d, f)
           gone == Owned(h, f)
           e == Deleted(d, f)
<1>1. Good(h) /\ h.feeds = d.feeds
  BY RehomedEffect
<1>2. /\ Tables(e) /\ Ids(e) = Ids(h) \ gone /\ e.rows = [i \in Ids(e) |-> h.rows[i]]
      /\ e.members = {m \in h.members : m[1] \notin gone /\ m[2] # f}
      /\ e.favorite = h.favorite \ gone /\ e.listed = h.listed \ gone
      /\ e.shares = {x \in h.shares : x[1] \notin gone}
      /\ e.feeds = d.feeds \ {f}
  BY DeletedIs
<1>3. gone = {i \in Ids(h) : h.rows[i].feed = f}
  BY DEF Owned
<1> HIDE DEF h, gone, e
<1>4. RowsIn(e)
  BY <1>1, <1>2 DEF Good, RowsIn
<1>5. References(e)
  BY <1>1, <1>2 DEF Good, References
<1>6. Listed(e)
  <2> SUFFICES ASSUME NEW i \in Ids(e) PROVE <<i, e.rows[i].feed>> \in e.members
    BY DEF Listed
  <2>1. i \in Ids(h) /\ i \notin gone /\ e.rows[i] = h.rows[i] /\ h.rows[i].feed # f
    BY <1>2, <1>3
  <2>2. <<i, h.rows[i].feed>> \in h.members
    BY <1>1, <2>1 DEF Good, Listed
  <2> QED
    BY <1>2, <2>1, <2>2
<1>7. Good(e)
  BY <1>1, <1>2, <1>4, <1>5, <1>6 DEF Good
<1> QED
  BY <1>2, <1>7 DEF e

LEMMA DeletedKeeps ==
  ASSUME NEW d, Good(d), NEW f, Identified, Drawn(d)
  PROVE  Drawn(Deleted(d, f)) /\ Keeps(d, Deleted(d, f))
<1> DEFINE h == Rehomed(d, f)
           c == Moved(d, f)
           into == Into(d, f)
           e == Deleted(d, f)
<1>1. /\ Good(c) /\ Ids(c) = Ids(d) /\ c.rows = MovedRows(d, f) /\ c.members = d.members
      /\ c.favorite = d.favorite /\ c.listed = d.listed /\ c.feeds = d.feeds
  BY MovedIs
<1>2. /\ Survivors(c, into) /\ h = MergeInto(c, into) /\ Good(h)
      /\ Ids(h) = Ids(d) \ Merging(d, f) /\ h.feeds = d.feeds
      /\ \A i \in Ids(h) : h.rows[i] = MovedRows(d, f)[i]
  BY RehomedEffect
<1>3. \A i \in Ids(d) : /\ c.rows[i].post = d.rows[i].post /\ c.rows[i].key = d.rows[i].key
                        /\ c.rows[i].cross = d.rows[i].cross
  <2>1. \A i \in Ids(d) : /\ MovedRows(d, f)[i].post = d.rows[i].post
                          /\ MovedRows(d, f)[i].key = d.rows[i].key
                          /\ MovedRows(d, f)[i].cross = d.rows[i].cross
    <3>1. \A i \in Ids(d) : MovedAs(d, f, i, MovedRows(d, f)[i])
      BY MovedRow
    <3> QED
      BY <3>1 DEF MovedAs
  <2> QED
    BY <1>1, <2>1
<1>4. /\ Ids(e) = Ids(h) \ Owned(h, f) /\ e.rows = [i \in Ids(e) |-> h.rows[i]]
      /\ e.members = {m \in h.members : m[1] \notin Owned(h, f) /\ m[2] # f}
      /\ e.favorite = h.favorite \ Owned(h, f) /\ e.listed = h.listed \ Owned(h, f)
      /\ e.feeds = d.feeds \ {f}
  BY DeletedIs
<1>5. Keeps(d, c)
  BY <1>1, <1>3 DEF Keeps, Good, References
<1>6. \A i \in DOMAIN into \cap Ids(c) : c.rows[into[i]].post = c.rows[i].post
  <2> TAKE i \in DOMAIN into \cap Ids(c)
  <2>1. i \in Merging(d, f)
    BY DEF Into
  <2>2. into[i] \in Ids(d) /\ i \in Ids(d) /\ d.rows[into[i]].key = d.rows[i].key
    BY <2>1, IntoIs
  <2> HIDE DEF into
  <2>3. d.rows[into[i]].post = d.rows[i].post
    BY <2>2 DEF Identified, Drawn
  <2> QED
    BY <1>3, <2>2, <2>3
<1>7. Keeps(c, h)
  BY <1>1, <1>2, <1>6, MergeKeeps
<1>8. \A m \in h.members : m[1] \in Owned(h, f) => m[2] = f
  BY LeftAlone
<1> HIDE DEF h, c, into, e
<1>9. Keeps(h, e)
  <2> SUFFICES ASSUME NEW m \in h.members, m[2] \in e.feeds
               PROVE  \E j \in Ids(e) :
                        /\ <<j, m[2]>> \in e.members
                        /\ e.rows[j].post = h.rows[m[1]].post
                        /\ m[1] \in h.favorite => j \in e.favorite
                        /\ m[1] \in h.listed => j \in e.listed
    BY DEF Keeps
  <2>1. m[2] # f /\ m[1] \notin Owned(h, f)
    BY <1>4, <1>8
  <2>2. m[1] \in Ids(h) /\ m = <<m[1], m[2]>>
    BY <1>2 DEF Good, References
  <2>3. m[1] \in Ids(e) /\ e.rows[m[1]] = h.rows[m[1]] /\ <<m[1], m[2]>> \in e.members
    BY <1>4, <2>1, <2>2
  <2> QED
    BY <1>4, <2>1, <2>3
<1>10. Keeps(d, e)
  <2>1. e.feeds \subseteq h.feeds /\ h.feeds \subseteq c.feeds
    BY <1>1, <1>2, <1>4
  <2>2. Keeps(d, h)
    BY <1>5, <1>7, <2>1, KeepsThen
  <2> QED
    BY <1>9, <2>1, <2>2, KeepsThen
<1>11. \A i \in Ids(e) : i \in Ids(d) /\ e.rows[i] = c.rows[i]
  BY <1>1, <1>2, <1>4
<1>12. Drawn(e)
  BY <1>3, <1>11 DEF Drawn
<1> QED
  BY <1>10, <1>12 DEF e

(* A re-homed row is given a feed where its key is free. *)
LEMMA DeletedDistinct ==
  ASSUME NEW d, Good(d), NEW f, Distinct(d)
  PROVE  Distinct(Deleted(d, f))
<1> DEFINE h == Rehomed(d, f)
           e == Deleted(d, f)
           R == MovedRows(d, f)
<1>1. /\ Ids(h) = Ids(d) \ Merging(d, f) /\ \A i \in Ids(h) : h.rows[i] = R[i]
  BY RehomedEffect
<1>2. Ids(e) = Ids(h) \ Owned(h, f) /\ e.rows = [i \in Ids(e) |-> h.rows[i]]
  BY DeletedIs
<1>3. \A i \in Ids(d) : MovedAs(d, f, i, R[i])
  BY MovedRow
<1>4. \A i \in Ids(d) : /\ R[i].guid = d.rows[i].guid /\ R[i].key = d.rows[i].key
                        /\ R[i].cross = d.rows[i].cross
  BY <1>3 DEF MovedAs
<1>5. \A i \in Ids(d) : IF i \in Moving(d, f) THEN R[i].feed \in FreeHomes(d, f, i)
                                              ELSE R[i].feed = d.rows[i].feed
  BY <1>3 DEF MovedAs
<1> HIDE DEF R, h, e
(* A row that moves, beside one that stays. *)
<1>6. ASSUME NEW i \in Moving(d, f), NEW j \in Ids(d), j \notin Moving(d, f), R[i].feed = R[j].feed
      PROVE  d.rows[i].key # d.rows[j].key
  <2> DEFINE g == R[i].feed
  <2>1. Collision(d, g, i) = 0 /\ d.rows[j].feed = g
    BY <1>5, <1>6 DEF FreeHomes, Moving, Owned
  <2>2. 0 \notin Ids(d)
    BY NewIdIs DEF Good
  <2> HIDE DEF g
  <2>3. {k \in Ids(d) : d.rows[k].feed = g /\ d.rows[k].key = d.rows[i].key} = {}
    BY <2>1, <2>2, OneOfIs DEF Collision
  <2> QED
    BY <2>1, <2>3
<1>7. ASSUME NEW i \in Ids(d), NEW j \in Ids(d), i # j, R[i].feed = R[j].feed
      PROVE  d.rows[i].key # d.rows[j].key
  <2>1. CASE i \in Moving(d, f) /\ j \in Moving(d, f)
    BY <1>7, <2>1 DEF Moving, Owned, Distinct, Unique
  <2>2. CASE i \in Moving(d, f) /\ j \notin Moving(d, f)
    BY <1>6, <1>7, <2>2
  <2>3. CASE i \notin Moving(d, f) /\ j \in Moving(d, f)
    BY <1>6, <1>7, <2>3
  <2>4. CASE i \notin Moving(d, f) /\ j \notin Moving(d, f)
    BY <1>5, <1>7, <2>4 DEF Distinct, Unique
  <2> QED
    BY <2>1, <2>2, <2>3, <2>4
<1>8. \A i \in Ids(e) : i \in Ids(d) /\ e.rows[i] = R[i]
  BY <1>1, <1>2
<1>9. Named(e)
  <2> SUFFICES ASSUME NEW i \in Ids(e)
               PROVE  \E b \in Entries : b.guid = e.rows[i].guid /\ b.key = e.rows[i].key
    BY DEF Named
  <2>1. i \in Ids(d) /\ e.rows[i].guid = d.rows[i].guid /\ e.rows[i].key = d.rows[i].key
    BY <1>4, <1>8
  <2> QED
    BY <2>1 DEF Distinct, Named
<1>10. Unique(e)
  BY <1>4, <1>7, <1>8 DEF Distinct, Unique
<1> QED
  BY <1>9, <1>10 DEF e, Distinct

-----------------------------------------------------------------------------
(* The type invariant. *)

InBounds == Ids(db) \subseteq 1..MaxId

GroupTyped(g) ==
  /\ g \in [survivor : 1..MaxId, losers : SUBSET (1..MaxId)]
  /\ g.survivor \notin g.losers

Typed ==
  /\ Good(db) /\ InBounds
  /\ \A g \in repair : GroupTyped(g)
  /\ scan \in {"none", "feed", "cross"}

LEMMA TypedMeans == Typed => TypeOK /\ OwnerListed
<1> SUFFICES ASSUME Typed PROVE TypeOK /\ OwnerListed
  OBVIOUS
<1>1. repair \subseteq [survivor : 1..MaxId, losers : SUBSET (1..MaxId)]
  BY DEF Typed, GroupTyped
<1> QED
  BY <1>1 DEF Typed, InBounds, Good, RowsIn, References, Listed, TypeOK, OwnerListed

LEMMA TypedInit == Init => Typed
<1> SUFFICES ASSUME Init PROVE Typed
  OBVIOUS
<1>1. db = [rows |-> <<>>, members |-> {}, favorite |-> {}, listed |-> {},
            shares |-> {}, feeds |-> Feeds]
  BY DEF Init, Empty
<1>2. Tables(db) /\ db.rows = <<>> /\ db.members = {} /\ db.favorite = {} /\ db.listed = {}
      /\ db.shares = {} /\ db.feeds = Feeds
  BY <1>1 DEF Tables
<1>3. Ids(db) = {}
  BY <1>2 DEF Ids
<1>4. RowsIn(db)
  <2>1. Ids(db) \subseteq 1..0
    BY <1>3
  <2>2. db.rows \in [Ids(db) -> Row]
    BY <1>2, <1>3
  <2> QED
    BY <2>1, <2>2 DEF RowsIn
<1>5. Good(db)
  BY <1>2, <1>3, <1>4 DEF Good, References, Listed
<1> QED
  BY <1>3, <1>5 DEF Typed, InBounds, Init

(* The groups a scan finds. *)
LEMMA GroupIs ==
  ASSUME NEW T \in SUBSET (1..MaxId), NEW m \in T
  PROVE  /\ GroupTyped(Group(T, m)) /\ Group(T, m).survivor = m
         /\ {Group(T, m).survivor} \cup Group(T, m).losers = T
<1> DEFINE g == Group(T, m)
<1>1. g = [survivor |-> m, losers |-> T \ {m}]
  BY DEF Group
<1>2. g.survivor = m /\ g.losers = T \ {m}
  BY <1>1
<1> HIDE DEF g
<1>3. g \in [survivor : 1..MaxId, losers : SUBSET (1..MaxId)]
  BY <1>1
<1>4. GroupTyped(g) /\ g.survivor = m /\ {g.survivor} \cup g.losers = T
  BY <1>2, <1>3 DEF GroupTyped
<1> QED
  BY <1>4 DEF g

LEMMA FeedGroupsAre ==
  ASSUME Typed, NEW g \in FeedGroups(db)
  PROVE  /\ GroupTyped(g)
         /\ \E f, p : LET S == {i \in Owned(db, f) : db.rows[i].post = p}
                      IN {g.survivor} \cup g.losers = S /\ g = Group(S, Max(S))
<1> DEFINE Candidates == {{i \in Owned(db, f) : db.rows[i].post = p} : f \in Feeds, p \in Posts}
<1>1. PICK S \in Candidates : Cardinality(S) > 1 /\ g = Group(S, Max(S))
  BY DEF FeedGroups
<1>2. PICK f \in Feeds, p \in Posts : S = {i \in Owned(db, f) : db.rows[i].post = p}
  BY <1>1
<1> HIDE DEF Candidates
<1>3. S # {}
  <2> SUFFICES ASSUME S = {} PROVE FALSE
    OBVIOUS
  <2>1. Cardinality(S) = 0
    BY FS_EmptySet
  <2> QED
    BY <1>1, <2>1
<1>4. S \in SUBSET (1..MaxId) /\ S # {} /\ g = Group(S, Max(S))
  <2>1. S \subseteq Ids(db)
    BY <1>2 DEF Owned
  <2> QED
    BY <1>1, <1>3, <2>1 DEF Typed, InBounds
<1>5. Max(S) \in S
  BY <1>4, GreatestOf, BoundAssumption
<1>6. GroupTyped(g) /\ {g.survivor} \cup g.losers = S
  BY <1>4, <1>5, GroupIs
<1> DEFINE T(h, q) == {i \in Owned(db, h) : db.rows[i].post = q}
<1>7. {g.survivor} \cup g.losers = T(f, p) /\ g = Group(T(f, p), Max(T(f, p)))
  BY <1>2, <1>4, <1>6
<1>8. \E h, q : {g.survivor} \cup g.losers = T(h, q) /\ g = Group(T(h, q), Max(T(h, q)))
  BY <1>7
<1> QED
  BY <1>6, <1>8

LEMMA CrossGroupsAre ==
  ASSUME Typed, NEW g \in CrossGroups(db)
  PROVE  /\ GroupTyped(g)
         /\ \E c \in CrossKeys \ {0} :
              /\ {g.survivor} \cup g.losers = KeyedRows(db, c) \cup Strays(db, c)
              /\ g = Group(KeyedRows(db, c) \cup Strays(db, c), CrossSurvivor(db, c))
              /\ g.survivor \in KeyedRows(db, c)
<1>1. PICK c \in CrossKeys \ {0} :
        /\ KeyedRows(db, c) # {}
        /\ g = Group(KeyedRows(db, c) \cup Strays(db, c), CrossSurvivor(db, c))
  BY DEF CrossGroups
<1> DEFINE K == KeyedRows(db, c)
           S == K \cup Strays(db, c)
           m == CrossSurvivor(db, c)
<1>2. K \in SUBSET (1..MaxId) /\ S \in SUBSET (1..MaxId) /\ K \subseteq S
  BY DEF KeyedRows, Keyed, Strays, Typed, InBounds
<1>3. m = Max(K) /\ K # {} /\ g = Group(S, m)
  BY <1>1 DEF CrossSurvivor
<1> HIDE DEF K, S, m
<1>4. m \in K /\ m \in S
  BY <1>2, <1>3, GreatestOf, BoundAssumption
<1>5. GroupTyped(g) /\ g.survivor = m /\ {g.survivor} \cup g.losers = S
  BY <1>2, <1>3, <1>4, GroupIs
<1> QED
  BY <1>3, <1>4, <1>5 DEF K, S, m

(* A merge that commits had its survivor. *)
LEMMA MergeCommits ==
  ASSUME NEW d, Good(d), NEW s, NEW L, s \notin L, Consistent(MergeAll(d, s, L))
  PROVE  Survivors(d, [i \in L |-> s])
<1> DEFINE into == [i \in L |-> s]
           e == MergeAll(d, s, L)
           all == d.members \cup {<<into[m[1]], m[2]>> : m \in {n \in d.members : n[1] \in DOMAIN into}}
<1>1. e = MergeInto(d, into)
  BY DEF MergeAll
<1>3. DOMAIN into = L /\ \A i \in L : into[i] = s
  OBVIOUS
<1> HIDE DEF e, into
<1>2. /\ Ids(e) = Ids(d) \ DOMAIN into
      /\ e.members = {m \in all : m[1] \notin DOMAIN into}
  BY <1>1, MergeIntoIs DEF Good
<1>4. ASSUME NEW i \in L \cap Ids(d) PROVE s \in Ids(d)
  <2>1. <<i, d.rows[i].feed>> \in d.members
    BY <1>4 DEF Good, Listed
  <2> DEFINE m == <<i, d.rows[i].feed>>
  <2>2. m \in d.members /\ m[1] = i /\ m[1] \in DOMAIN into
    BY <1>3, <1>4, <2>1
  <2>3. <<into[m[1]], m[2]>> \in all
    BY <2>2
  <2>4. into[m[1]] = s
    BY <1>3, <1>4, <2>2
  <2> HIDE DEF m, all
  <2>5. <<s, m[2]>> \in e.members
    BY <1>2, <1>3, <2>3, <2>4
  <2>6. \A n \in e.members : n[1] \in Ids(e)
    BY DEF Consistent, e
  <2>7. <<s, m[2]>>[1] = s
    OBVIOUS
  <2> QED
    BY <1>2, <2>5, <2>6, <2>7
<1>5. \A i \in DOMAIN into \cap Ids(d) : into[i] \in Ids(d) \ DOMAIN into
  BY <1>3, <1>4
<1> QED
  BY <1>5 DEF Survivors, into

-----------------------------------------------------------------------------
(* The type invariant is kept by every step. *)

LEMMA CommitTyped ==
  ASSUME Typed, NEW d, Good(d), Ids(d) \subseteq 1..MaxId, Commit(d)
  PROVE  (Good(db) /\ InBounds)'
<1>1. db' = d \/ db' = db
  BY DEF Commit
<1>2. CASE db' = d
  BY <1>2 DEF InBounds
<1>3. CASE db' = db
  BY <1>3 DEF Typed, InBounds
<1> QED
  BY <1>1, <1>2, <1>3

(* The user's own marks, lists and shares. *)
LEMMA UserGood ==
  ASSUME Typed, User
  PROVE  /\ Good(db') /\ Ids(db') = Ids(db) /\ db'.rows = db.rows
         /\ db'.members = db.members /\ db'.feeds = db.feeds /\ UNCHANGED <<repair, scan>>
<1>1. /\ Tables(db) /\ RowsIn(db) /\ References(db) /\ Listed(db) /\ db.feeds \subseteq Feeds
  BY DEF Typed, Good
<1>2. PICK i \in Ids(db) : \/ \E on \in BOOLEAN : SetFavorite(i, on)
                           \/ AddToList(i)
                           \/ \E t \in Tokens : Share(i, t)
                           \/ Unshare(i)
  BY DEF User
<1>3. \E S \in SUBSET Ids(db) :
        \/ db' = [db EXCEPT !.favorite = S]
        \/ db' = [db EXCEPT !.listed = S]
      \/ \E X \in SUBSET (Ids(db) \X Tokens) : db' = [db EXCEPT !.shares = X]
  <2>1. ASSUME NEW on \in BOOLEAN, SetFavorite(i, on)
        PROVE  \E S \in SUBSET Ids(db) : db' = [db EXCEPT !.favorite = S]
    <3> DEFINE S == IF on THEN db.favorite \cup {i} ELSE db.favorite \ {i}
    <3>1. S \subseteq Ids(db)
      BY <1>1 DEF References
    <3>2. db' = [db EXCEPT !.favorite = S]
      BY <2>1 DEF SetFavorite
    <3> QED
      BY <3>1, <3>2
  <2>2. ASSUME AddToList(i)
        PROVE  \E S \in SUBSET Ids(db) : db' = [db EXCEPT !.listed = S]
    <3>1. db.listed \cup {i} \subseteq Ids(db)
      BY <1>1 DEF References
    <3> QED
      BY <2>2, <3>1 DEF AddToList
  <2>3. ASSUME NEW t \in Tokens, Share(i, t)
        PROVE  \E X \in SUBSET (Ids(db) \X Tokens) : db' = [db EXCEPT !.shares = X]
    <3>1. db.shares \cup {<<i, t>>} \subseteq Ids(db) \X Tokens
      BY <1>1 DEF References
    <3> QED
      BY <2>3, <3>1 DEF Share
  <2>4. ASSUME Unshare(i)
        PROVE  \E X \in SUBSET (Ids(db) \X Tokens) : db' = [db EXCEPT !.shares = X]
    <3>1. {x \in db.shares : x[1] # i} \subseteq Ids(db) \X Tokens
      BY <1>1 DEF References
    <3> QED
      BY <2>4, <3>1 DEF Unshare
  <2> QED
    BY <1>2, <2>1, <2>2, <2>3, <2>4
<1>4. /\ Tables(db') /\ db'.rows = db.rows /\ db'.members = db.members /\ db'.feeds = db.feeds
      /\ db'.favorite \subseteq Ids(db) /\ db'.listed \subseteq Ids(db)
      /\ db'.shares \subseteq Ids(db) \X Tokens
  <2>1. ASSUME NEW S \in SUBSET Ids(db), db' = [db EXCEPT !.favorite = S]
        PROVE  /\ Tables(db') /\ db'.rows = db.rows /\ db'.members = db.members /\ db'.feeds = db.feeds
               /\ db'.favorite = S /\ db'.listed = db.listed /\ db'.shares = db.shares
    BY <1>1, <2>1 DEF Tables
  <2>2. ASSUME NEW S \in SUBSET Ids(db), db' = [db EXCEPT !.listed = S]
        PROVE  /\ Tables(db') /\ db'.rows = db.rows /\ db'.members = db.members /\ db'.feeds = db.feeds
               /\ db'.favorite = db.favorite /\ db'.listed = S /\ db'.shares = db.shares
    BY <1>1, <2>2 DEF Tables
  <2>3. ASSUME NEW X \in SUBSET (Ids(db) \X Tokens), db' = [db EXCEPT !.shares = X]
        PROVE  /\ Tables(db') /\ db'.rows = db.rows /\ db'.members = db.members /\ db'.feeds = db.feeds
               /\ db'.favorite = db.favorite /\ db'.listed = db.listed /\ db'.shares = X
    BY <1>1, <2>3 DEF Tables
  <2> QED
    BY <1>1, <1>3, <2>1, <2>2, <2>3 DEF References
<1>5. Ids(db') = Ids(db)
  BY <1>4 DEF Ids
<1>6. RowsIn(db') /\ References(db') /\ Listed(db')
  BY <1>1, <1>4, <1>5 DEF RowsIn, References, Listed
<1>7. UNCHANGED <<repair, scan>>
  BY <1>2 DEF SetFavorite, AddToList, Share, Unshare
<1> QED
  BY <1>1, <1>4, <1>5, <1>6, <1>7 DEF Good

LEMMA PollTyped ==
  ASSUME Typed, NEW f \in Feeds, NEW document \in Documents[f], Poll(f, document)
  PROVE  Typed'
<1> DEFINE u == Upserted(db, f, document)
<1>1. /\ f \in db.feeds /\ \A i \in Ids(u) : i <= MaxId
      /\ Commit(u) /\ UNCHANGED <<repair, scan>>
  BY DEF Poll
<1>2. Good(u)
  BY <1>1, UpsertedAlong DEF Typed, Along
<1> HIDE DEF u
<1>3. Ids(u) \subseteq 1..MaxId
  BY <1>1, <1>2, BoundAssumption DEF Good, RowsIn
<1>4. (Good(db) /\ InBounds)'
  BY <1>1, <1>2, <1>3, CommitTyped
<1> QED
  BY <1>1, <1>4 DEF Typed, GroupTyped

LEMMA DeleteTyped ==
  ASSUME Typed, NEW f \in Feeds, DeleteFeed(f)
  PROVE  Typed'
<1> DEFINE e == Deleted(db, f)
<1>1. Commit(e) /\ UNCHANGED <<repair, scan>>
  BY DEF DeleteFeed
<1>2. Good(db)
  BY DEF Typed
<1>3. Good(e)
  BY <1>2, DeletedGood
<1>4. Ids(e) \subseteq Ids(db)
  <2>1. Ids(e) = Ids(Rehomed(db, f)) \ Owned(Rehomed(db, f), f)
    BY <1>2, DeletedIs
  <2>2. Ids(Rehomed(db, f)) = Ids(db) \ Merging(db, f)
    BY <1>2, RehomedEffect
  <2> HIDE DEF e
  <2> QED
    BY <2>1, <2>2
<1> HIDE DEF e
<1>5. (Good(db) /\ InBounds)'
  BY <1>1, <1>3, <1>4, CommitTyped DEF Typed, InBounds
<1> QED
  BY <1>1, <1>5 DEF Typed, GroupTyped

LEMMA MergeTyped ==
  ASSUME Typed, NEW g \in repair, MergeGroup(g)
  PROVE  Typed'
<1> DEFINE merged == MergeAll(db, g.survivor, g.losers)
           into == [i \in g.losers |-> g.survivor]
<1>1. /\ db' = IF Consistent(merged) THEN merged ELSE db
      /\ repair' \subseteq repair /\ scan' = scan
  BY DEF MergeGroup, Commit
<1>2. Good(db) /\ g.survivor \notin g.losers /\ merged = MergeInto(db, into)
  BY DEF Typed, GroupTyped, MergeAll
<1>3. CASE Consistent(merged)
  <2>1. Survivors(db, into)
    BY <1>2, <1>3, MergeCommits
  <2>4. Tables(db)
    BY <1>2 DEF Good
  <2>5. Ids(MergeAll(db, g.survivor, g.losers)) = Ids(db) \ g.losers
    <3> DEFINE s == g.survivor
               L == g.losers
    <3> HIDE DEF s, L
    <3>1. Ids(MergeAll(db, s, L)) = Ids(db) \ L
      BY <2>4, MergeAllIs
    <3> QED
      BY <3>1 DEF s, L
  <2> HIDE DEF into
  <2>2. Good(merged)
    BY <1>2, <2>1, MergeGood
  <2> HIDE DEF merged
  <2>3. (Good(db) /\ InBounds)'
    BY <1>1, <1>3, <2>2, <2>5 DEF merged, Typed, InBounds
  <2> QED
    BY <1>1, <2>3 DEF Typed, GroupTyped
<1>4. CASE ~Consistent(merged)
  BY <1>1, <1>4 DEF Typed, InBounds, GroupTyped
<1> QED
  BY <1>3, <1>4

LEMMA TypedStep == Typed /\ [Next]_vars => Typed'
<1> SUFFICES ASSUME Typed, [Next]_vars PROVE Typed'
  OBVIOUS
<1>1. ASSUME NEW f \in Feeds, NEW document \in Documents[f], Poll(f, document) PROVE Typed'
  BY <1>1, PollTyped
<1>2. ASSUME NEW f \in Feeds, DeleteFeed(f) PROVE Typed'
  BY <1>2, DeleteTyped
<1>3. CASE User
  BY <1>3, UserGood DEF Typed, InBounds, GroupTyped
<1>4. CASE ScanFeedDuplicates
  BY <1>4, FeedGroupsAre DEF ScanFeedDuplicates, Typed, InBounds, GroupTyped
<1>5. CASE ScanCrossDuplicates
  BY <1>5, CrossGroupsAre DEF ScanCrossDuplicates, Typed, InBounds, GroupTyped
<1>6. ASSUME NEW g \in repair, MergeGroup(g) PROVE Typed'
  BY <1>6, MergeTyped
<1>7. CASE EndRepair
  BY <1>7 DEF EndRepair, Typed, InBounds, GroupTyped
<1>8. CASE UNCHANGED vars
  BY <1>8 DEF vars, Typed, InBounds, GroupTyped
<1> QED
  BY <1>1, <1>2, <1>3, <1>4, <1>5, <1>6, <1>7, <1>8 DEF Next

(* Whatever the documents say, the tables hold their types and every        *)
(* reference (item_feeds, list_items, shared_items, favorites) is to a row  *)
(* and a feed there are: no merge, re-homing or cascade leaves one behind.  *)
THEOREM TypeCorrect == Spec => []TypeOK
<1>1. Init => Typed
  BY TypedInit
<1>2. Typed /\ [Next]_vars => Typed'
  BY TypedStep
<1>3. Typed => TypeOK
  BY TypedMeans
<1> QED
  BY <1>1, <1>2, <1>3, PTL DEF Spec

(* Every row is listed in the feed that owns it, through polls, merges,     *)
(* re-homing and repairs.                                                   *)
THEOREM OwnersList == Spec => []OwnerListed
<1>1. Init => Typed
  BY TypedInit
<1>2. Typed /\ [Next]_vars => Typed'
  BY TypedStep
<1>3. Typed => OwnerListed
  BY TypedMeans
<1> QED
  BY <1>1, <1>2, <1>3, PTL DEF Spec

-----------------------------------------------------------------------------
(* Nothing is lost when the repairs run on their own (Online = FALSE) and   *)
(* the identities are of posts (Identified).  A group that is still to be   *)
(* merged is then as the scan found it: its rows are there, of one post,    *)
(* and of one cross-feed key or none.                                       *)

GroupRows(g) == {g.survivor} \cup g.losers

Same(d, g) ==
  /\ GroupRows(g) \subseteq Ids(d)
  /\ \A i \in g.losers : d.rows[i].post = d.rows[g.survivor].post

SameKey(d, g) == \A i \in g.losers : d.rows[i].cross \in {0, d.rows[g.survivor].cross}

Disjoint(S) == \A g, h \in S : g # h => GroupRows(g) \cap GroupRows(h) = {}

Fresh ==
  /\ Drawn(db)
  /\ scan = "none" => repair = {}
  /\ \A g \in repair : Same(db, g) /\ (scan = "cross" => SameKey(db, g))
  /\ Disjoint(repair)

LEMMA FeedGroupsFresh ==
  ASSUME Typed
  PROVE  (\A g \in FeedGroups(db) : Same(db, g)) /\ Disjoint(FeedGroups(db))
<1> DEFINE T(f, p) == {i \in Owned(db, f) : db.rows[i].post = p}
<1>1. ASSUME NEW g \in FeedGroups(db)
      PROVE  \E f, p : GroupRows(g) = T(f, p) /\ g = Group(T(f, p), Max(T(f, p)))
  BY FeedGroupsAre DEF GroupRows
<1>2. ASSUME NEW g \in FeedGroups(db) PROVE Same(db, g)
  <2>1. PICK f, p : GroupRows(g) = T(f, p)
    BY <1>1
  <2>2. \A i \in GroupRows(g) : i \in Ids(db) /\ db.rows[i].post = p
    BY <2>1 DEF Owned
  <2> QED
    BY <2>2 DEF Same, GroupRows
<1>3. ASSUME NEW g \in FeedGroups(db), NEW h \in FeedGroups(db),
             NEW i \in GroupRows(g) \cap GroupRows(h)
      PROVE  g = h
  <2>1. PICK f, p : GroupRows(g) = T(f, p) /\ g = Group(T(f, p), Max(T(f, p)))
    BY <1>1
  <2>2. PICK k, q : GroupRows(h) = T(k, q) /\ h = Group(T(k, q), Max(T(k, q)))
    BY <1>1
  <2>3. f = db.rows[i].feed /\ p = db.rows[i].post /\ k = db.rows[i].feed /\ q = db.rows[i].post
    BY <2>1, <2>2 DEF Owned
  <2>4. f = k /\ p = q
    BY <2>3
  <2> QED
    BY <2>1, <2>2, <2>4
<1> QED
  BY <1>2, <1>3 DEF Disjoint

LEMMA CrossGroupsFresh ==
  ASSUME Typed, Identified, Drawn(db)
  PROVE  (\A g \in CrossGroups(db) : Same(db, g) /\ SameKey(db, g)) /\ Disjoint(CrossGroups(db))
<1> DEFINE All(c) == KeyedRows(db, c) \cup Strays(db, c)
<1>1. ASSUME NEW g \in CrossGroups(db)
      PROVE  \E c \in CrossKeys \ {0} : /\ GroupRows(g) = All(c)
                                        /\ g = Group(All(c), CrossSurvivor(db, c))
                                        /\ g.survivor \in KeyedRows(db, c)
  BY CrossGroupsAre DEF GroupRows
<1>2. \A i, k \in Ids(db) :
        /\ db.rows[i].key = db.rows[k].key => db.rows[i].post = db.rows[k].post
        /\ db.rows[i].cross = db.rows[k].cross /\ db.rows[i].cross # 0 =>
             db.rows[i].post = db.rows[k].post
  BY DEF Identified, Drawn
<1>3. ASSUME NEW c, NEW i \in Strays(db, c)
      PROVE  /\ i \in Ids(db) /\ db.rows[i].cross = 0 /\ StrayKey(db, i) = c
             /\ \E k \in KeyedRows(db, c) : db.rows[k].key = db.rows[i].key
  <2> DEFINE C == {db.rows[k].cross : k \in Matches(db, i)}
  <2>1. i \in Ids(db) /\ db.rows[i].cross = 0 /\ Matches(db, i) # {} /\ StrayKey(db, i) = c
    BY DEF Strays, Keyed
  <2>2. \A k \in Matches(db, i) : k \in Keyed(db) /\ db.rows[k].key = db.rows[i].key
    BY DEF Matches
  <2>3. \A k \in Keyed(db) : db.rows[k] \in Row
    BY GoodRows DEF Keyed, Typed
  <2>4. C \subseteq Nat
    BY <2>2, <2>3, RowFields, CrossAssumption
  <2>5. C # {} /\ c = Min(C)
    BY <2>1 DEF StrayKey
  <2>6. c \in C
    <3> HIDE DEF C
    <3> QED
      BY <2>4, <2>5, LeastOf
  <2>7. PICK k \in Matches(db, i) : c = db.rows[k].cross
    BY <2>6
  <2> QED
    BY <2>1, <2>2, <2>7 DEF KeyedRows
<1>4. ASSUME NEW c, NEW i \in KeyedRows(db, c)
      PROVE  i \in Ids(db) /\ db.rows[i].cross = c /\ db.rows[i].cross # 0
  BY DEF KeyedRows, Keyed
<1>5. ASSUME NEW g \in CrossGroups(db) PROVE Same(db, g) /\ SameKey(db, g)
  <2>1. PICK c \in CrossKeys \ {0} : GroupRows(g) = All(c) /\ g.survivor \in KeyedRows(db, c)
    BY <1>1
  <2> DEFINE s == g.survivor
  <2>2. s \in Ids(db) /\ db.rows[s].cross = c
    BY <1>4, <2>1
  <2>3. \A i \in All(c) : i \in Ids(db) /\ db.rows[i].cross \in {0, c}
    BY <1>3, <1>4
  <2>4. ASSUME NEW i \in All(c) PROVE db.rows[i].post = db.rows[s].post
    <3>1. CASE i \in KeyedRows(db, c)
      BY <1>2, <1>4, <2>2, <3>1
    <3>2. CASE i \in Strays(db, c)
      <4>1. PICK k \in KeyedRows(db, c) : db.rows[k].key = db.rows[i].key
        BY <1>3, <3>2
      <4>2. db.rows[k].post = db.rows[i].post
        BY <1>2, <1>4, <2>3, <4>1
      <4>3. db.rows[k].post = db.rows[s].post
        BY <1>2, <1>4, <2>2
      <4> QED
        BY <4>2, <4>3
    <3> QED
      BY <3>1, <3>2
  <2> QED
    BY <2>1, <2>2, <2>3, <2>4 DEF Same, SameKey, GroupRows
<1>6. ASSUME NEW g \in CrossGroups(db), NEW h \in CrossGroups(db),
             NEW i \in GroupRows(g) \cap GroupRows(h)
      PROVE  g = h
  <2>1. PICK c : GroupRows(g) = All(c) /\ g = Group(All(c), CrossSurvivor(db, c))
    BY <1>1
  <2>2. PICK x : GroupRows(h) = All(x) /\ h = Group(All(x), CrossSurvivor(db, x))
    BY <1>1
  <2>3. c = IF db.rows[i].cross = 0 THEN StrayKey(db, i) ELSE db.rows[i].cross
    BY <1>3, <1>4, <2>1
  <2>4. x = IF db.rows[i].cross = 0 THEN StrayKey(db, i) ELSE db.rows[i].cross
    BY <1>3, <1>4, <2>2
  <2>5. c = x
    BY <2>3, <2>4
  <2> QED
    BY <2>1, <2>2, <2>5
<1> QED
  BY <1>5, <1>6 DEF Disjoint

(* What a step must keep. *)
StepKeeps ==
  /\ ~User => Keeps(db, db')
  /\ scan # "feed" /\ db'.feeds = db.feeds => KeepsKeys(db, db')

LEMMA SameTables ==
  ASSUME Typed, db' = db
  PROVE  StepKeeps
<1>1. Keeps(db, db) /\ KeepsKeys(db, db)
  BY KeepsSelf DEF Typed
<1> QED
  BY <1>1 DEF StepKeeps

LEMMA PollKeeps ==
  ASSUME Typed, Fresh, Identified, Online = FALSE,
         NEW f \in Feeds, NEW document \in Documents[f], Poll(f, document)
  PROVE  Fresh' /\ StepKeeps
<1> DEFINE u == Upserted(db, f, document)
<1>1. /\ f \in db.feeds /\ db' = (IF Consistent(u) THEN u ELSE db)
      /\ repair' = repair /\ scan' = scan /\ repair = {}
  BY DEF Poll, Commit, Serving, Fresh
<1>2. Drawn(u) /\ Keeps(db, u) /\ KeepsKeys(db, u)
  BY <1>1, UpsertedAlong DEF Typed, Along, Fresh
<1> HIDE DEF u
<1>3. StepKeeps
  BY <1>1, <1>2, SameTables DEF StepKeeps
<1>4. Drawn(db')
  BY <1>1, <1>2 DEF Fresh
<1> QED
  BY <1>1, <1>3, <1>4 DEF Fresh, Disjoint

LEMMA DeleteKeeps ==
  ASSUME Typed, Fresh, Identified, Online = FALSE, NEW f \in Feeds, DeleteFeed(f)
  PROVE  Fresh' /\ StepKeeps
<1> DEFINE e == Deleted(db, f)
<1>1. /\ f \in db.feeds /\ db' = (IF Consistent(e) THEN e ELSE db)
      /\ repair' = repair /\ scan' = scan /\ repair = {}
  BY DEF DeleteFeed, Commit, Serving, Fresh
<1>2. Drawn(e) /\ Keeps(db, e)
  BY DeletedKeeps DEF Typed, Fresh
<1>3. e.feeds = db.feeds \ {f}
  BY DeletedGood DEF Typed
<1> HIDE DEF e
<1>4. StepKeeps
  <2>1. CASE Consistent(e)
    BY <1>1, <1>2, <1>3, <2>1 DEF StepKeeps
  <2>2. CASE ~Consistent(e)
    BY <1>1, <2>2, SameTables
  <2> QED
    BY <2>1, <2>2
<1>5. Drawn(db')
  BY <1>1, <1>2 DEF Fresh
<1> QED
  BY <1>1, <1>4, <1>5 DEF Fresh, Disjoint

LEMMA MergeFresh ==
  ASSUME Typed, Fresh, NEW g \in repair, MergeGroup(g)
  PROVE  Fresh' /\ StepKeeps
<1> DEFINE s == g.survivor
           L == g.losers
           merged == MergeAll(db, s, L)
           into == [i \in L |-> s]
<1>1. /\ db' = (IF Consistent(merged) THEN merged ELSE db)
      /\ repair' = IF Consistent(merged) THEN repair \ {g} ELSE {}
      /\ scan' = scan
  BY DEF MergeGroup, Commit
<1>2. Good(db) /\ s \notin L /\ L \subseteq Ids(db) /\ s \in Ids(db)
  BY DEF Typed, GroupTyped, Fresh, Same, GroupRows
<1>3. merged = MergeInto(db, into) /\ DOMAIN into = L /\ \A i \in L : into[i] = s
  BY DEF MergeAll
<1>4. \A i \in L : db.rows[i].post = db.rows[s].post
  BY DEF Fresh, Same
<1>5. scan = "cross" => \A i \in L : db.rows[i].cross \in {0, db.rows[s].cross}
  BY DEF Fresh, SameKey
<1>6. GroupRows(g) = {s} \cup L
  BY DEF GroupRows
<1>7. scan \in {"feed", "cross"}
  BY DEF Typed, Fresh
<1> HIDE DEF s, L
<1>8. Ids(merged) = Ids(db) \ L /\ merged.rows = [i \in Ids(merged) |-> db.rows[i]]
  <2>1. Tables(db)
    BY <1>2 DEF Good
  <2> QED
    BY <2>1, MergeAllIs
<1> HIDE DEF merged, into
<1>9. Survivors(db, into)
  BY <1>2, <1>3 DEF Survivors
<1>10. Keeps(db, merged)
  BY <1>2, <1>3, <1>4, <1>9, MergeKeeps
<1>11. scan = "cross" => KeepsKeys(db, merged)
  <2> SUFFICES ASSUME scan = "cross" PROVE KeepsKeys(db, merged)
    OBVIOUS
  <2>1. \A i \in DOMAIN into \cap Ids(db) : db.rows[i].cross \in {0, db.rows[into[i]].cross}
    BY <1>3, <1>5
  <2> QED
    BY <1>2, <1>3, <1>9, <2>1, MergeKeepsKeys
<1>12. CASE Consistent(merged)
  <2>1. StepKeeps
    BY <1>1, <1>7, <1>10, <1>11, <1>12 DEF StepKeeps
  <2>2. \A i \in Ids(db') : i \in Ids(db) /\ db'.rows[i] = db.rows[i]
    BY <1>1, <1>8, <1>12
  <2>3. Drawn(db')
    BY <2>2 DEF Fresh, Drawn
  <2>4. ASSUME NEW h \in repair' PROVE Same(db', h) /\ (scan = "cross" => SameKey(db', h))
    <3>1. h \in repair /\ h # g
      BY <1>1, <1>12
    <3>2. Same(db, h) /\ (scan = "cross" => SameKey(db, h)) /\ GroupRows(h) \cap GroupRows(g) = {}
      BY <3>1 DEF Fresh, Disjoint
    <3>3. GroupRows(h) \subseteq Ids(db')
      BY <1>1, <1>6, <1>8, <1>12, <3>2 DEF Same
    <3> QED
      BY <2>2, <3>2, <3>3 DEF Same, SameKey, GroupRows
  <2>5. Disjoint(repair')
    BY <1>1 DEF Fresh, Disjoint
  <2> QED
    BY <1>1, <1>7, <2>1, <2>3, <2>4, <2>5 DEF Fresh
<1>13. CASE ~Consistent(merged)
  BY <1>1, <1>13, SameTables DEF Fresh, Disjoint
<1> QED
  BY <1>12, <1>13

LEMMA FreshStep ==
  ASSUME Identified, Online = FALSE
  PROVE  Typed /\ Fresh /\ [Next]_vars => Fresh' /\ StepKeeps
<1> SUFFICES ASSUME Typed, Fresh, [Next]_vars PROVE Fresh' /\ StepKeeps
  OBVIOUS
<1>1. ASSUME NEW f \in Feeds, NEW document \in Documents[f], Poll(f, document)
      PROVE  Fresh' /\ StepKeeps
  BY <1>1, PollKeeps
<1>2. ASSUME NEW f \in Feeds, DeleteFeed(f) PROVE Fresh' /\ StepKeeps
  BY <1>2, DeleteKeeps
<1>3. CASE User
  <2>1. /\ Ids(db') = Ids(db) /\ db'.rows = db.rows /\ repair' = repair /\ scan' = scan
    BY <1>3, UserGood
  <2>2. KeepsKeys(db, db')
    BY <2>1 DEF KeepsKeys
  <2>3. Drawn(db')
    BY <2>1 DEF Drawn, Fresh
  <2>4. \A g \in repair : Same(db', g) /\ (scan = "cross" => SameKey(db', g))
    BY <2>1 DEF Fresh, Same, SameKey
  <2> QED
    BY <1>3, <2>1, <2>2, <2>3, <2>4 DEF Fresh, StepKeeps
<1>4. CASE ScanFeedDuplicates
  BY <1>4, FeedGroupsFresh, SameTables DEF ScanFeedDuplicates, Fresh
<1>5. CASE ScanCrossDuplicates
  BY <1>5, CrossGroupsFresh, SameTables DEF ScanCrossDuplicates, Fresh
<1>6. ASSUME NEW g \in repair, MergeGroup(g) PROVE Fresh' /\ StepKeeps
  BY <1>6, MergeFresh
<1>7. CASE EndRepair
  BY <1>7, SameTables DEF EndRepair, Fresh, Disjoint
<1>8. CASE UNCHANGED vars
  BY <1>8, SameTables DEF vars, Fresh
<1> QED
  BY <1>1, <1>2, <1>3, <1>4, <1>5, <1>6, <1>7, <1>8 DEF Next

LEMMA FreshInit == Init => Fresh
<1> SUFFICES ASSUME Init PROVE Fresh
  OBVIOUS
<1>1. db.rows = <<>>
  BY DEF Init, Empty
<1>2. Ids(db) = {}
  BY <1>1 DEF Ids
<1> QED
  BY <1>2 DEF Init, Fresh, Drawn, Disjoint

LEMMA KeepsMeans ==
  ASSUME NEW d, NEW e, Keeps(d, e), NEW f \in e.feeds
  PROVE  /\ Visible(d, f) \subseteq Visible(e, f)
         /\ Marked(d, d.favorite, f) \subseteq Marked(e, e.favorite, f)
         /\ Marked(d, d.listed, f) \subseteq Marked(e, e.listed, f)
<1>1. ASSUME NEW m \in d.members, m[2] = f
      PROVE  \E n \in e.members :
               /\ n[2] = f /\ e.rows[n[1]].post = d.rows[m[1]].post
               /\ m[1] \in d.favorite => n[1] \in e.favorite
               /\ m[1] \in d.listed => n[1] \in e.listed
  <2>1. PICK j \in Ids(e) : /\ <<j, m[2]>> \in e.members
                            /\ e.rows[j].post = d.rows[m[1]].post
                            /\ m[1] \in d.favorite => j \in e.favorite
                            /\ m[1] \in d.listed => j \in e.listed
    BY <1>1 DEF Keeps
  <2>2. <<j, m[2]>>[1] = j /\ <<j, m[2]>>[2] = f
    BY <1>1
  <2> QED
    BY <2>1, <2>2
<1>2. Visible(d, f) \subseteq Visible(e, f)
  BY <1>1 DEF Visible
<1>3. Marked(d, d.favorite, f) \subseteq Marked(e, e.favorite, f)
  BY <1>1 DEF Marked
<1>4. Marked(d, d.listed, f) \subseteq Marked(e, e.listed, f)
  BY <1>1 DEF Marked
<1> QED
  BY <1>2, <1>3, <1>4

(* A post a feed shows stays there, marked and listed as it was, until that *)
(* feed is deleted: no poll, merge, re-homing or repair takes it away, as   *)
(* long as the identities tell posts apart and a repair runs alone.         *)
THEOREM PostsStay ==
  ASSUME Identified, Online = FALSE
  PROVE  Spec => NothingLost
<1>1. Init => Typed /\ Fresh
  BY TypedInit, FreshInit
<1>2. Typed /\ Fresh /\ [Next]_vars => Typed' /\ Fresh'
  BY TypedStep, FreshStep
<1>3. Typed /\ Fresh /\ [Next]_vars =>
        [~User => \A f \in db'.feeds :
           /\ Visible(db, f) \subseteq Visible(db', f)
           /\ Marked(db, db.favorite, f) \subseteq Marked(db', db'.favorite, f)
           /\ Marked(db, db.listed, f) \subseteq Marked(db', db'.listed, f)]_vars
  <2> SUFFICES ASSUME Typed, Fresh, [Next]_vars, ~User
               PROVE  \A f \in db'.feeds :
                        /\ Visible(db, f) \subseteq Visible(db', f)
                        /\ Marked(db, db.favorite, f) \subseteq Marked(db', db'.favorite, f)
                        /\ Marked(db, db.listed, f) \subseteq Marked(db', db'.listed, f)
    OBVIOUS
  <2>1. Keeps(db, db')
    BY FreshStep DEF StepKeeps
  <2> QED
    BY <2>1, KeepsMeans
<1> QED
  BY <1>1, <1>2, <1>3, PTL DEF Spec, NothingLost

(* A cross-feed key never leaves the tables while no feed is deleted, so    *)
(* every feed's next poll finds the one row: polls and the cross-feed       *)
(* repair hand it to the row that survives.                                 *)
THEOREM SharedKeysStay ==
  ASSUME Identified, Online = FALSE
  PROVE  Spec => SharedKeyKept
<1>1. Init => Typed /\ Fresh
  BY TypedInit, FreshInit
<1>2. Typed /\ Fresh /\ [Next]_vars => Typed' /\ Fresh'
  BY TypedStep, FreshStep
<1>3. Typed /\ Fresh /\ [Next]_vars =>
        [scan # "feed" /\ db'.feeds = db.feeds =>
           \A i \in Keyed(db) : KeyedRows(db', db.rows[i].cross) # {}]_vars
  <2> SUFFICES ASSUME Typed, Fresh, [Next]_vars, scan # "feed", db'.feeds = db.feeds,
                      NEW i \in Keyed(db)
               PROVE  KeyedRows(db', db.rows[i].cross) # {}
    OBVIOUS
  <2>1. KeepsKeys(db, db')
    BY FreshStep DEF StepKeeps
  <2>2. i \in Ids(db) /\ db.rows[i].cross # 0
    BY DEF Keyed
  <2>3. PICK j \in Ids(db') : db'.rows[j].cross = db.rows[i].cross
    BY <2>1, <2>2 DEF KeepsKeys
  <2> QED
    BY <2>2, <2>3 DEF KeyedRows, Keyed
<1> QED
  BY <1>1, <1>2, <1>3, PTL DEF Spec, SharedKeyKept

-----------------------------------------------------------------------------
(* No batch breaks a constraint when a GUID always comes with one dedup     *)
(* key, whatever posts the keys are of and whether or not repairs run       *)
(* beside the server.                                                       *)

DistinctNow == Distinct(db)

LEMMA DistinctInit == Init => DistinctNow
<1> SUFFICES ASSUME Init PROVE DistinctNow
  OBVIOUS
<1>1. Ids(db) = {}
  BY DEF Init, Empty, Ids
<1> QED
  BY <1>1 DEF DistinctNow, Distinct, Named, Unique

LEMMA BatchesKeep ==
  ASSUME Typed, DistinctNow, NEW f \in db.feeds
  PROVE  /\ \A document \in Documents[f] :
              Good(Upserted(db, f, document)) /\ Distinct(Upserted(db, f, document))
         /\ Good(Deleted(db, f)) /\ Distinct(Deleted(db, f))
  BY UpsertedAlong, DeletedGood, DeletedDistinct DEF Typed, DistinctNow, Along

LEMMA DistinctStep == Typed /\ DistinctNow /\ [Next]_vars => DistinctNow'
<1> SUFFICES ASSUME Typed, DistinctNow, [Next]_vars PROVE DistinctNow'
  OBVIOUS
<1>1. ASSUME NEW f \in Feeds, NEW document \in Documents[f], Poll(f, document)
      PROVE  DistinctNow'
  BY <1>1, BatchesKeep DEF Poll, Commit, DistinctNow
<1>2. ASSUME NEW f \in Feeds, DeleteFeed(f) PROVE DistinctNow'
  BY <1>2, BatchesKeep DEF DeleteFeed, Commit, DistinctNow
<1>3. CASE User
  <2>1. Ids(db') = Ids(db) /\ db'.rows = db.rows
    BY <1>3, UserGood
  <2> QED
    BY <2>1, FewerDistinct DEF DistinctNow
<1>4. ASSUME NEW g \in repair, MergeGroup(g) PROVE DistinctNow'
  <2> DEFINE s == g.survivor
             L == g.losers
             merged == MergeAll(db, s, L)
  <2>1. db' = merged \/ db' = db
    BY <1>4 DEF MergeGroup, Commit
  <2> HIDE DEF s, L
  <2>2. Ids(merged) = Ids(db) \ L /\ merged.rows = [i \in Ids(merged) |-> db.rows[i]]
    BY MergeAllIs DEF Typed, Good
  <2> HIDE DEF merged
  <2>3. Distinct(merged)
    BY <2>2, FewerDistinct DEF DistinctNow
  <2> QED
    BY <2>1, <2>3 DEF DistinctNow
<1>5. ScanFeedDuplicates \/ ScanCrossDuplicates \/ EndRepair \/ UNCHANGED vars => db' = db
  BY DEF ScanFeedDuplicates, ScanCrossDuplicates, EndRepair, vars
<1> QED
  BY <1>1, <1>2, <1>3, <1>4, <1>5 DEF Next, DistinctNow

(* As long as a GUID always comes with the same dedup key, no document that *)
(* a feed may serve and no deletion is ever rolled back, however rows were  *)
(* merged, keyed and re-homed before (upsertTx, rehomeFeedItems).           *)
THEOREM NoBatchFails ==
  ASSUME GuidsKeyed
  PROVE  Spec => []BatchesSucceed
<1>1. Init => Typed /\ DistinctNow
  BY TypedInit, DistinctInit
<1>2. Typed /\ DistinctNow /\ [Next]_vars => (Typed /\ DistinctNow)'
  BY TypedStep, DistinctStep
<1>3. Typed /\ DistinctNow => BatchesSucceed
  BY BatchesKeep, DistinctConsistent DEF BatchesSucceed
<1> QED
  BY <1>1, <1>2, <1>3, PTL DEF Spec
=============================================================================
