---------------------------- MODULE MCItemStore ----------------------------
(* Instances of ItemStore for TLC. *)
EXTENDS ItemStore

E(post, guid, key, cross) ==
  [post |-> post, guid |-> guid, key |-> key, cross |-> cross]

(* Feed 1's plugin changes its GUID scheme, then derives a cross-feed key   *)
(* which feed 2 shares; feed 1 also carries a post of its own.              *)
Moving ==
  [f \in Feeds |->
     IF f = 1
     THEN {<<E("p", "old", "old", 0)>>, <<E("p", "new", "new", 0)>>,
           <<E("p", "new", "new", 1), E("q", "other", "other", 0)>>}
     ELSE {<<E("p", "new", "new", 0)>>, <<E("p", "new", "new", 1)>>}]

(* The plugin starts to set Identity and keeps its GUIDs. *)
GuidsKept ==
  [f \in Feeds |-> {<<E("p", "new", "new", 0)>>, <<E("p", "new", "durable", 0)>>}]
=============================================================================
