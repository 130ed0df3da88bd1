--------------------------- MODULE MCManagedPlugin ---------------------------
(* A plugin whose setting is its service's address: each setting claims one *)
(* of two pages.                                                            *)
EXTENDS ManagedPlugin

ModelClaims == [v \in Settings |-> {u \in Urls : u = v}]
=============================================================================
