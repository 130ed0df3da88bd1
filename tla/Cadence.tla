------------------------------- MODULE Cadence -------------------------------
(***************************************************************************)
(* The interval arithmetic of internal/poller/interval.go, and the deadline *)
(* scheduleNextPoll plans with it, in seconds.  Where the hour comes from   *)
(* (preferredFetchTime, a circular mean in floating point) is left out: it  *)
(* is any second of a day.  Poller takes what these may return from its     *)
(* constants Intervals and Offsets.                                         *)
(***************************************************************************)
EXTENDS Integers, Sequences, FiniteSetsExt, TLC

CONSTANTS
  Day,     \* seconds of a day
  Buffer,  \* scheduleBuffer
  Jitter   \* scheduleJitter

ASSUME DayAssumption == Day \in Nat \ {0} /\ Buffer \in Nat /\ Jitter \in Nat \ {0}

Clamp(x, lo, hi) ==
  LET raised == IF x < lo THEN lo ELSE x IN IF raised > hi THEN hi ELSE raised

(* The mean of the positive gaps between posts, rounded to the nearest      *)
(* second; 0 when the posts suggest no cadence.                             *)
AdaptiveInterval(posts, lo, hi) ==
  LET sorted == SortSeq(posts, <)
      rises == {i \in 1..(Len(sorted) - 1) : sorted[i] < sorted[i + 1]}
      sum == MapThenSumSet(LAMBDA i : sorted[i + 1] - sorted[i], rises)
      n == Cardinality(rises)
  IN IF n = 0 THEN 0 ELSE Clamp((2 * sum + n) \div (2 * n), lo, hi)

Offset(hour, feed) == hour + Buffer + (feed % Jitter)

(* The day's fetch, or the next day's when that is not ahead. *)
NextFetchTime(now, hour, feed) ==
  LET today == (now - (now % Day)) + Offset(hour, feed)
  IN IF today > now THEN today ELSE today + Day

(* scheduleNextPoll: raised to the floor, then lowered to the interval; 0   *)
(* when nothing is planned, because the interval is longer than a day.      *)
PlannedPoll(now, hour, feed, interval, floor) ==
  LET target == NextFetchTime(now, hour, feed)
      raised == IF floor > 0 /\ target < now + floor THEN now + floor ELSE target
      gate == now + (IF floor > interval THEN floor ELSE interval)
  IN IF interval > Day THEN 0 ELSE IF gate < raised THEN gate ELSE raised

-----------------------------------------------------------------------------
(* A gap-by-gap mean is the span of the posts over their number: duplicates *)
(* and the order they are stored in do not matter (adaptiveInterval).       *)
AdaptiveIsMean(times, lo, hi) ==
  \A n \in 0..4 : \A posts \in [1..n -> times] :
    LET seen == {posts[i] : i \in 1..n}
        gaps == Cardinality(seen) - 1
        span == Max(seen) - Min(seen)
        mean == (span \div gaps) + (IF 2 * (span % gaps) >= gaps THEN 1 ELSE 0)
    IN AdaptiveInterval(posts, lo, hi) =
         IF n < 2 \/ gaps = 0 THEN 0
         ELSE CHOOSE x \in lo..hi : \A y \in lo..hi :
                (IF x > mean THEN x - mean ELSE mean - x)
                  <= (IF y > mean THEN y - mean ELSE mean - y)

(* The next fetch is the first instant ahead at the feed's second of the    *)
(* day; for an hour so late that the buffer reaches past midnight, it may   *)
(* be the second (nextFetchTime).                                           *)
NextFetchIsNext(times, feeds) ==
  \A now \in times, hour \in 0..(Day - 1), feed \in feeds :
    LET at == Offset(hour, feed)
        first == Min({t \in (now + 1)..(now + Day) : t % Day = at % Day})
    IN \/ NextFetchTime(now, hour, feed) = first
       \/ at >= Day /\ NextFetchTime(now, hour, feed) = first + Day
=============================================================================
