------------------------------- MODULE HostLine -------------------------------
(***************************************************************************)
(* What the poller promises each site: its feeds stand in one line, in the  *)
(* order they became due; one is asked for at a time, never while the gate  *)
(* of the site is closed; a gate opens only by time passing, and is closed  *)
(* for the spacing after each fetch that leaves others in the line.         *)
(* docs/fetching.md states it; Poller implements it.                        *)
(***************************************************************************)
EXTENDS Integers, Sequences

CONSTANTS Feeds, Hosts, HostOf, Spacing, NULL

VARIABLES
  line,     \* the feeds waiting at each host
  current,  \* the feed each host is being asked for, or NULL
  gate      \* ticks until each host may be asked again

state == <<line, current, gate>>

Init ==
  /\ line = [h \in Hosts |-> <<>>]
  /\ current = [h \in Hosts |-> NULL]
  /\ gate = [h \in Hosts |-> 0]

(* f stands before g in s. *)
Before(s, f, g) == \E i, j \in DOMAIN s : i < j /\ s[i] = f /\ s[j] = g

(* New comes of old when feeds leave it and others join it at the end. *)
Joined(old, new) ==
  \A i, j \in DOMAIN new :
    i < j => /\ new[i] # new[j]
             /\ (\E k \in DOMAIN old : old[k] = new[j]) => Before(old, new[i], new[j])

(* The due list was read: feeds join and leave. *)
Renew ==
  /\ \A h \in Hosts : Joined(line[h], line'[h])
  /\ \A h \in Hosts : \A i \in DOMAIN line'[h] : HostOf[line'[h][i]] = h
  /\ UNCHANGED <<current, gate>>

(* The first in line is asked for. *)
Admit(h) ==
  /\ current[h] = NULL /\ line[h] # <<>> /\ gate[h] = 0
  /\ current' = [current EXCEPT ![h] = Head(line[h])]
  /\ line' = [line EXCEPT ![h] = Tail(line[h])]
  /\ UNCHANGED gate

Closing == \A h \in Hosts : gate'[h] >= gate[h]

(* The site answers, and may close its gate for a while. *)
Answer(h) ==
  /\ current[h] # NULL
  /\ current' = [current EXCEPT ![h] = NULL]
  /\ Closing
  /\ line[h] # <<>> => gate'[h] >= Spacing
  /\ UNCHANGED line

(* Someone else's request made a site close its gate. *)
Close == Closing /\ UNCHANGED <<line, current>>

Pass ==
  /\ gate' = [h \in Hosts |-> IF gate[h] > 0 THEN gate[h] - 1 ELSE 0]
  /\ UNCHANGED <<line, current>>

(* The process starts again with nothing remembered. *)
Forget ==
  /\ line' = [h \in Hosts |-> <<>>]
  /\ current' = [h \in Hosts |-> NULL]
  /\ gate' = [h \in Hosts |-> 0]

Next ==
  \/ Renew \/ Close \/ Pass \/ Forget
  \/ \E h \in Hosts : Admit(h) \/ Answer(h)

Spec == Init /\ [][Next]_state
=============================================================================
