---------------------------- MODULE Cadence_proofs ----------------------------
(***************************************************************************)
(* Bounds on the deadline the poller plans, for any clock, hour and feed.   *)
(***************************************************************************)
EXTENDS Cadence, TLAPS

LEMMA OffsetBounds ==
  ASSUME NEW hour \in 0..(Day - 1), NEW feed \in Nat
  PROVE  Offset(hour, feed) \in 0..(Day + Buffer + Jitter - 2)
<1>1. feed % Jitter \in 0..(Jitter - 1)
  BY DayAssumption
<1> QED
  BY <1>1, DayAssumption DEF Offset

(* The next fetch is strictly ahead, and at most a day, the buffer and the  *)
(* jitter away (nextFetchTime).                                             *)
THEOREM NextFetchAhead ==
  ASSUME NEW now \in Nat, NEW hour \in 0..(Day - 1), NEW feed \in Nat
  PROVE  /\ NextFetchTime(now, hour, feed) \in Nat
         /\ NextFetchTime(now, hour, feed) > now
         /\ NextFetchTime(now, hour, feed) <= now + Day + Buffer + Jitter
<1>1. now % Day \in 0..(Day - 1) /\ Day \in Nat
  BY DayAssumption
<1>2. Offset(hour, feed) \in 0..(Day + Buffer + Jitter - 2)
  BY OffsetBounds
<1> DEFINE today == (now - (now % Day)) + Offset(hour, feed)
<1>3. today \in Int /\ today + Day > now /\ today <= now + Day + Buffer + Jitter - 2
  BY <1>1, <1>2, DayAssumption
<1>4. NextFetchTime(now, hour, feed) = IF today > now THEN today ELSE today + Day
  BY DEF NextFetchTime
<1> HIDE DEF today
<1> QED
  BY <1>1, <1>3, <1>4, DayAssumption

(* A planned poll never undercuts the floor and is never later than the     *)
(* feed's own interval, raised to the floor, would have polled: a schedule  *)
(* only ever brings a fetch forward (scheduleNextPoll).                     *)
THEOREM PlanOnlyForward ==
  ASSUME NEW now \in Nat, NEW hour \in 0..(Day - 1), NEW feed \in Nat,
         NEW interval \in Nat, NEW floor \in Nat, interval <= Day
  PROVE  LET plan == PlannedPoll(now, hour, feed, interval, floor)
         IN /\ plan >= now + floor
            /\ plan <= now + interval \/ plan <= now + floor
            /\ interval > 0 \/ floor > 0 => plan > now
<1> DEFINE target == NextFetchTime(now, hour, feed)
<1>1. target \in Nat /\ target > now
  BY NextFetchAhead
<1> HIDE DEF target
<1> QED
  BY <1>1, DayAssumption DEF PlannedPoll, target
=============================================================================
