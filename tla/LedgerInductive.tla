---------------------------- MODULE LedgerInductive ----------------------------
(***************************************************************************)
(* Inductive invariants of LedgerStorage: IInv, why the day chains do not  *)
(* fork in the deployments that satisfy Sheltered; GapInv and SeqInv, what *)
(* the index may lack and why its sequence ids are unique; and FaultInvs,  *)
(* what is left of all this under every fault.                             *)
(***************************************************************************)
EXTENDS LedgerStorage

\* A line that was written is always indexed and cached, unless the process dies.
WholeAppends == Faults \subseteq {"write_error", "crash"}

\* The callers are serialized by the orchestrator, or none of them looks at the caches
\* without the lock; and appends are whole.
Sheltered == (Serialized \/ Facade = {}) /\ WholeAppends

Inside == {"chain", "write", "mirror", "commit"}

\* Day d's file is one line ahead of the caches.
Trailing(d) == \E t \in Thread : pc[t] \in {"mirror", "commit"} /\ DayFor(t) = d

LastLine(d) == lines[d][Len(lines[d])]

\* Who holds what, and that record ids in flight are fresh and distinct.
LockInv ==
    /\ \A t \in Thread : pc[t] \in Inside <=> lock = t
    /\ Serialized => \A t \in Thread : pc[t] # "idle" => outer = t
    /\ \A t \in Thread : pc[t] \in {"peek", "poke"} => t \in Facade

IdInv ==
    /\ \A t \in Thread : pc[t] # "idle" => cur[t].id \in DOMAIN outcome
    /\ \A t, u \in Thread :
          pc[t] # "idle" /\ pc[u] # "idle" /\ cur[t].id = cur[u].id => t = u
    /\ Ids(rows) \subseteq DOMAIN outcome
    /\ \A t \in Thread : pc[t] \notin {"idle", "commit"} => cur[t].id \notin Ids(rows)

FaultInv == partial = {} /\ garbled = {} /\ rebuild = "none"

ControlInv == LockInv /\ IdInv /\ FaultInv

\* A cached value is the one a scan of the file would find, and what the caller inside the
\* lock and a facade about to fill the cache carry is current.
CacheCoherent ==
    \A d \in Day : ~Trailing(d) =>
        /\ d \in DOMAIN hashCache => hashCache[d] = LastChain(d)
        /\ d \in DOMAIN tsCache => lines[d] # << >> /\ tsCache[d] = LastLine(d).ts

CarryInv ==
    \A t \in Thread :
        LET d == DayFor(t)
        IN  /\ pc[t] = "poke" => cur[t].prev = LastChain(d)
            /\ pc[t] = "write" =>
                 /\ cur[t].prev = LastChain(d)
                 /\ cur[t].chain = Hash(cur[t].prev, cur[t].id)
                 /\ lines[d] # << >> => LastLine(d).ts <= cur[t].ts
            /\ pc[t] \in {"mirror", "commit"} => lines[d] # << >> /\ LastLine(d) = cur[t]

IInv == ControlInv /\ CacheCoherent /\ CarryInv /\ ChainIntact /\ TimesMonotone

-----------------------------------------------------------------------------
(***************************************************************************)
(* The index.                                                              *)
(***************************************************************************)

\* Every record's id is on at most one line, and there only once its write has returned.
LineIdInv ==
    /\ Ids(AllLines) \subseteq DOMAIN outcome
    /\ \A t \in Thread : pc[t] \notin {"idle", "mirror", "commit"} =>
          cur[t].id \notin Ids(AllLines)
    /\ \A t \in Thread : pc[t] \in {"mirror", "commit"} =>
          /\ cur[t] \in AllLines
          /\ \A l \in AllLines : l.id = cur[t].id => l = cur[t]

\* A call that has not returned is pending, and one about to return has its row.
AnswerInv ==
    /\ \A t \in Thread : pc[t] # "idle" => outcome[cur[t].id] = "pending"
    /\ \A t \in Thread : pc[t] = "commit" => cur[t] \in rows

GapInv == LineIdInv /\ AnswerInv /\ IndexGapExplained

\* Sequence ids in flight are distinct, none is in the index before its own insert, and the
\* counter is ahead of them all.
SeqInv ==
    /\ rebuild = "none"
    /\ \A r \in rows : r.seq <= counter
    /\ \A t \in Thread : pc[t] # "idle" => cur[t].seq <= counter
    /\ \A t, u \in Thread :
          pc[t] # "idle" /\ pc[u] # "idle" /\ cur[t].seq = cur[u].seq => t = u
    /\ \A t \in Thread : pc[t] \notin {"idle", "commit"} =>
          \A r \in rows : r.seq # cur[t].seq
    /\ IndexSeqUnique

-----------------------------------------------------------------------------
(***************************************************************************)
(* Under every fault.                                                      *)
(***************************************************************************)

\* What a line of day d may be linked to.
Tips(d) == {Genesis} \cup {lines[d][i].chain : i \in 1..Len(lines[d])}

OnFile(l, d) == \E i \in 1..Len(lines[d]) : lines[d][i] = l

\* A thread that is past its write has its line in the file, and one that is about to write
\* or to fill the cache carries a hash of the day's file.
CarriedInv(t) ==
    /\ pc[t] \in {"mirror", "commit"} => OnFile(cur[t], DayFor(t))
    /\ pc[t] \in {"poke", "write"} => cur[t].prev \in Tips(DayFor(t))
    /\ pc[t] = "write" => cur[t].chain = Hash(cur[t].prev, cur[t].id)

\* So does the cache, however stale it is.
CacheOnFile == \A d \in DOMAIN hashCache : hashCache[d] \in Tips(d)

FaultInvs ==
    /\ NoSilentLoss /\ IndexNeverAhead /\ ChainIsTree
    /\ garbled = {} => CacheOnFile /\ \A t \in Thread : CarriedInv(t)
================================================================================
