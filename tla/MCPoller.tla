------------------------------ MODULE MCPoller ------------------------------
(* Instances of Poller for TLC. *)
EXTENDS Poller, Cadence

CONSTANTS f1, f2, f3, h1, h2

(* The arithmetic that Intervals and Offsets stand for, in short days. *)
ASSUME AdaptiveIsMean(0..5, 2, 3)
ASSUME NextFetchIsNext(0..(2 * Day), 0..Jitter)

OneHost == [f \in Feeds |-> h1]
TwoHosts == [f \in Feeds |-> IF f = f3 THEN h2 ELSE h1]

(* f1 is the fast feed of its host. *)
FastAndSlow == [f \in Feeds |-> IF f = f1 THEN {1} ELSE {3}]

FloorTwo == [f \in Feeds |-> 2]

OneOffset == [f \in Feeds |-> IF f = f1 THEN {1, 4} ELSE {}]
=============================================================================
