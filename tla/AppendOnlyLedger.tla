--------------------------- MODULE AppendOnlyLedger ---------------------------
(***************************************************************************)
(* What the SmartNoteBook promises its users, with no locks, caches, files *)
(* or index in sight: one tamper-evident log per UTC day, to which records *)
(* are only ever added at the end, each chained to the one before it and   *)
(* no older than it, and an acknowledgement given only for a record that   *)
(* the log already holds.                                                  *)
(***************************************************************************)
EXTENDS Naturals, Sequences

CONSTANTS Day,        \* the UTC days, one log each
          RecordId    \* record identifiers (uuid4 strings)

VARIABLES log,        \* log[d]: the records of day d, oldest first
          acked       \* the records whose append was reported as done

vars == <<log, acked>>

(***************************************************************************)
(* A digest stands for the whole history it was computed from, so equal    *)
(* digests mean equal histories: the model of a collision-free hash.       *)
(***************************************************************************)
Genesis == << >>

Hash(prev, id) == Append(prev, id)

Tip(s) == IF s = << >> THEN Genesis ELSE s[Len(s)].chain

\* e may be the next record of a log s: linked to its tip and not older.
Follows(s, e) ==
    /\ e.prev = Tip(s)
    /\ e.chain = Hash(e.prev, e.id)
    /\ s # << >> => s[Len(s)].ts <= e.ts

Holds(id) == \E d \in Day : \E i \in 1..Len(log[d]) : log[d][i].id = id

Init ==
    /\ log = [d \in Day |-> << >>]
    /\ acked = {}

\* One record is added to the end of one day's log.
Extend(d) ==
    /\ Len(log'[d]) = Len(log[d]) + 1
    /\ LET e == log'[d][Len(log[d]) + 1]
       IN  /\ Follows(log[d], e)
           /\ log' = [log EXCEPT ![d] = Append(@, e)]
    /\ UNCHANGED acked

\* A record the log holds is acknowledged.
Acknowledge(id) ==
    /\ Holds(id)
    /\ acked' = acked \cup {id}
    /\ UNCHANGED log

Next == (\E d \in Day : Extend(d)) \/ (\E id \in RecordId : Acknowledge(id))

Spec == Init /\ [][Next]_vars
===============================================================================
