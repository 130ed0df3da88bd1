----------------------------- MODULE MCFeedRow -----------------------------
(* Instances of FeedRow for TLC. *)
EXTENDS FeedRow

CONSTANTS home, moved, poller

SameUrl == {[url |-> home, auto |-> TRUE], [url |-> home, auto |-> FALSE]}
OtherUrl == {[url |-> moved, auto |-> TRUE]}
=============================================================================
