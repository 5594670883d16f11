----------------------------- MODULE LedgerStorage -----------------------------
(***************************************************************************)
(* The write path of the SmartNoteBook: class Storage (a JSONL file per    *)
(* UTC day, a SQLite index over all of them, two in-memory caches, one     *)
(* lock) together with the record_* methods of the SmartNoteBookV4 facade  *)
(* that call it, the threads that call those, and the faults of the host.  *)
(*                                                                         *)
(* A thread's call goes through the values of pc:                          *)
(*   idle -> [peek -> poke ->] lock -> chain -> write -> mirror -> commit  *)
(* peek and poke are the facade's look at the last hash outside the lock;  *)
(* a direct caller of Storage.append_record starts at lock.                *)
(***************************************************************************)
EXTENDS Naturals, Sequences

CONSTANTS
    Thread,       \* threads that record
    Facade,       \* those that go through SmartNoteBookV4, not to Storage
    Serialized,   \* TRUE: callers hold the orchestrator's _notebook_lock
    RecordId,     \* uuids; a call takes a new one, so their number bounds the calls
    Day, Time,    \* UTC days, and instants
    DayOf,        \* the day of an instant
    Faults,       \* which faults of the host may happen
    NoThread      \* "nobody", for the locks

FaultKind == {"write_error", "fsync_error", "index_error", "crash",
              "torn_write", "torn_crash", "rebuild"}

ASSUME LedgerAssumption ==
    /\ Facade \subseteq Thread
    /\ Serialized \in BOOLEAN
    /\ NoThread \notin Thread
    /\ RecordId # {}
    /\ Time # {} /\ Time \subseteq Nat
    /\ DayOf \in [Time -> Day]
    /\ Faults \subseteq FaultKind

VARIABLES
    lines,        \* lines[d]: the decodable lines of d.jsonl, in file order
    partial,      \* days whose file ends in the middle of a line
    garbled,      \* days whose file has bytes that are not a JSON line
    rows,         \* the rows of the SQLite table
    rebuild,      \* progress of rebuild_sqlite_from_jsonl
    hashCache,    \* _last_hash_per_day, a dict
    tsCache,      \* _last_ts_per_day, a dict
    counter,      \* _GLOBAL_COUNTER._n
    lock,         \* holder of Storage._lock
    outer,        \* holder of the orchestrator's _notebook_lock
    pc, cur,      \* where each thread is, and the record it carries
    outcome       \* what became of each record that was ever submitted

files == <<lines, partial, garbled>>
index == <<rows, rebuild>>
caches == <<hashCache, tsCache>>
locks == <<lock, outer>>
vars == <<files, index, caches, counter, locks, pc, cur, outcome>>

(***************************************************************************)
(* Data.  A digest is the sequence of record ids it was computed from, so  *)
(* the hash has no collisions; an id stands for the record's whole payload.*)
(***************************************************************************)
Genesis == << >>

Hash(prev, id) == Append(prev, id)

Digest == Seq(RecordId)

Line == [id : RecordId, ts : Time, seq : Nat, prev : Digest, chain : Digest]

PcValue == {"idle", "peek", "poke", "lock", "chain", "write", "mirror", "commit"}

Outcome == {"pending", "ok", "rejected", "error", "crashed"}

\* dict[k] = v
Put(dict, k, v) == [x \in DOMAIN dict \cup {k} |-> IF x = k THEN v ELSE dict[x]]

\* A record as the caller hands it over: not linked yet.
Fresh(id, ts, seq) ==
    [id |-> id, ts |-> ts, seq |-> seq, prev |-> Genesis, chain |-> Genesis]

\* The locals of a thread that is not in a call.
Blank == Fresh(CHOOSE i \in RecordId : TRUE, CHOOSE n \in Time : TRUE, 0)

DayFor(t) == DayOf[cur[t].ts]

\* The last chain_hash found by scanning a day file.
LastChain(d) == IF lines[d] = << >> THEN Genesis ELSE lines[d][Len(lines[d])].chain

AllLines == UNION {{lines[d][i] : i \in 1..Len(lines[d])} : d \in Day}

Ids(S) == {l.id : l \in S}

\* chain_hash.verify_chain on one sequence of records.
Verifies(s) ==
    \A i \in 1..Len(s) :
        /\ s[i].prev = IF i = 1 THEN Genesis ELSE s[i - 1].chain
        /\ s[i].chain = Hash(s[i].prev, s[i].id)

(***************************************************************************)
(* Steps of a call.                                                        *)
(***************************************************************************)
Goto(t, where) == pc' = [pc EXCEPT ![t] = where]

\* Mutant of Release: the lock is released on the normal path only.
ReleaseLeaks(t, result) ==
    /\ lock' = IF result = "ok" THEN NoThread ELSE lock
    /\ outer' = IF outer = t THEN NoThread ELSE outer
    /\ Goto(t, "idle")
    /\ cur' = [cur EXCEPT ![t] = Blank]
    /\ outcome' = [outcome EXCEPT ![cur[t].id] = result]

\* The with-blocks are left, normally or by an exception: the locks are free again.
Release(t, result) ==
    /\ lock' = NoThread
    /\ outer' = IF outer = t THEN NoThread ELSE outer
    /\ Goto(t, "idle")
    /\ cur' = [cur EXCEPT ![t] = Blank]
    /\ outcome' = [outcome EXCEPT ![cur[t].id] = result]

\* A record_* call takes its timestamp (the caller's now_utc), a new uuid and the next
\* sequence id.  None of this is under Storage._lock.
Begin(t, id, ts) ==
    /\ pc[t] = "idle"
    /\ id \notin DOMAIN outcome
    /\ Serialized => outer = NoThread
    /\ outer' = IF Serialized THEN t ELSE outer
    /\ counter' = counter + 1
    /\ cur' = [cur EXCEPT ![t] = Fresh(id, ts, counter + 1)]
    /\ outcome' = Put(outcome, id, "pending")
    /\ Goto(t, IF t \in Facade THEN "peek" ELSE "lock")
    /\ UNCHANGED <<files, index, caches, lock>>

\* _build_chain_for: the tentative hash needs the day's last hash.  A cached one ends the
\* matter; otherwise the file is scanned, still outside the lock ...
Peek(t) ==
    /\ pc[t] = "peek"
    /\ IF DayFor(t) \in DOMAIN hashCache
       THEN /\ Goto(t, "lock")
            /\ UNCHANGED cur
       ELSE /\ Goto(t, "poke")
            /\ cur' = [cur EXCEPT ![t].prev = LastChain(DayFor(t))]
    /\ UNCHANGED <<files, index, caches, counter, locks, outcome>>

\* ... and what the scan found is written into the shared cache.
Poke(t) ==
    /\ pc[t] = "poke"
    /\ hashCache' = Put(hashCache, DayFor(t), cur[t].prev)
    /\ Goto(t, "lock")
    /\ UNCHANGED <<files, index, tsCache, counter, locks, cur, outcome>>

Acquire(t) ==
    /\ pc[t] = "lock"
    /\ lock = NoThread
    /\ lock' = t
    /\ Goto(t, "chain")
    /\ UNCHANGED <<files, index, caches, counter, outer, cur, outcome>>

\* _last_chain_hash_for_day_locked: from the cache, or from the file and then cached.
PrevFor(d) == IF d \in DOMAIN hashCache THEN hashCache[d] ELSE LastChain(d)

\* Mutant of LastTimeFor: the file is not scanned when the cache is cold.
LastTimeCacheOnly(d) == IF d \in DOMAIN tsCache THEN tsCache[d] ELSE 0

\* _last_timestamp_for_day_locked, 0 for None; only a timestamp that was found is cached.
LastTimeFor(d) ==
    IF d \in DOMAIN tsCache THEN tsCache[d]
    ELSE IF lines[d] = << >> THEN 0 ELSE lines[d][Len(lines[d])].ts

\* Mutant of ReadCaches: None is cached as well.
ReadCachesNone(t) ==
    LET d == DayFor(t)
    IN  /\ hashCache' = Put(hashCache, d, PrevFor(d))
        /\ tsCache' = Put(tsCache, d, LastTimeFor(d))

ReadCaches(t) ==
    LET d == DayFor(t)
    IN  /\ hashCache' = Put(hashCache, d, PrevFor(d))
        /\ tsCache' = IF lines[d] = << >> THEN tsCache ELSE Put(tsCache, d, LastTimeFor(d))

\* Mutant of Chain: the cache is moved on before the line is written.
ChainCachesEarly(t) ==
    /\ pc[t] = "chain"
    /\ LastTimeFor(DayFor(t)) <= cur[t].ts
    /\ LET prev == PrevFor(DayFor(t))
       IN  /\ cur' = [cur EXCEPT ![t].prev = prev, ![t].chain = Hash(prev, cur[t].id)]
           /\ hashCache' = Put(hashCache, DayFor(t), Hash(prev, cur[t].id))
    /\ Goto(t, "write")
    /\ UNCHANGED <<files, index, tsCache, counter, locks, outcome>>

\* Steps 4 and 5 of append_record: the record is linked, and it is not older than the last.
Chain(t) ==
    /\ pc[t] = "chain"
    /\ LastTimeFor(DayFor(t)) <= cur[t].ts
    /\ ReadCaches(t)
    /\ LET prev == PrevFor(DayFor(t))
       IN  cur' = [cur EXCEPT ![t].prev = prev, ![t].chain = Hash(prev, cur[t].id)]
    /\ Goto(t, "write")
    /\ UNCHANGED <<files, index, counter, locks, outcome>>

\* What write + flush does to the file.  After a partial line the new one is glued to it
\* and neither can be decoded.
AppendLine(t) ==
    LET d == DayFor(t)
    IN  /\ IF d \in partial
           THEN UNCHANGED lines
           ELSE lines' = [lines EXCEPT ![d] = Append(@, cur[t])]
        /\ partial' = partial \ {d}
        /\ UNCHANGED garbled

\* Step 5 fails: NonMonotonicTimestampError.
Reject(t) ==
    /\ pc[t] = "chain"
    /\ cur[t].ts < LastTimeFor(DayFor(t))
    /\ ReadCaches(t)
    /\ Release(t, "rejected")
    /\ UNCHANGED <<files, index, counter>>

\* Steps 1 to 3 raise: the record cannot be serialised, or redaction left a secret in it.
Refuse(t) ==
    /\ pc[t] = "chain"
    /\ Release(t, "error")
    /\ UNCHANGED <<files, index, caches, counter>>

\* Step 6: write, flush, fsync.
Write(t) ==
    /\ pc[t] = "write"
    /\ AppendLine(t)
    /\ Goto(t, "mirror")
    /\ UNCHANGED <<index, caches, counter, locks, cur, outcome>>

\* Mutant of WriteFails: the OSError is swallowed and the caller is told all went well.
WriteFailsQuietly(t) ==
    /\ pc[t] = "write"
    /\ "write_error" \in Faults
    /\ Release(t, "ok")
    /\ UNCHANGED <<files, index, caches, counter>>

\* Mutant of WriteFails: the OSError is logged and the index is written all the same.
WriteFailsOn(t) ==
    /\ pc[t] = "write"
    /\ "write_error" \in Faults
    /\ Goto(t, "mirror")
    /\ UNCHANGED <<files, index, caches, counter, locks, cur, outcome>>

\* Step 6 fails before anything reaches the file: LedgerWriteError.
WriteFails(t) ==
    /\ pc[t] = "write"
    /\ "write_error" \in Faults
    /\ Release(t, "error")
    /\ UNCHANGED <<files, index, caches, counter>>

\* Step 6 fails in fsync, with the line already in the file: LedgerWriteError.
FsyncFails(t) ==
    /\ pc[t] = "write"
    /\ "fsync_error" \in Faults
    /\ AppendLine(t)
    /\ Release(t, "error")
    /\ UNCHANGED <<index, caches, counter>>

\* Step 6 fails when part of the line has reached the file: LedgerWriteError.
TornWrite(t) ==
    /\ pc[t] = "write"
    /\ "torn_write" \in Faults
    /\ partial' = partial \cup {DayFor(t)}
    /\ garbled' = garbled \cup {DayFor(t)}
    /\ Release(t, "error")
    /\ UNCHANGED <<lines, index, caches, counter>>

\* The INSERT needs the table, and no row with that primary key.
CanInsert(t) == rebuild # "dropped" /\ cur[t].id \notin Ids(rows)

\* Mutant of Mirror: the INSERT is never committed.
MirrorUncommitted(t) ==
    /\ pc[t] = "mirror"
    /\ CanInsert(t)
    /\ Goto(t, "commit")
    /\ UNCHANGED <<files, index, caches, counter, locks, cur, outcome>>

\* Step 7: INSERT and commit.
Mirror(t) ==
    /\ pc[t] = "mirror"
    /\ CanInsert(t)
    /\ rows' = rows \cup {cur[t]}
    /\ Goto(t, "commit")
    /\ UNCHANGED <<files, rebuild, caches, counter, locks, cur, outcome>>

\* Step 7 fails: LedgerWriteError, step 8 is skipped.
MirrorFails(t) ==
    /\ pc[t] = "mirror"
    /\ "index_error" \in Faults \/ ~CanInsert(t)
    /\ Release(t, "error")
    /\ UNCHANGED <<files, index, caches, counter>>

\* Mutant of Commit: only the timestamp cache follows.
CommitForgetsHash(t) ==
    /\ pc[t] = "commit"
    /\ tsCache' = Put(tsCache, DayFor(t), cur[t].ts)
    /\ Release(t, "ok")
    /\ UNCHANGED <<files, index, hashCache, counter>>

\* Step 8: the caches follow, and append_record returns.
Commit(t) ==
    /\ pc[t] = "commit"
    /\ hashCache' = Put(hashCache, DayFor(t), cur[t].chain)
    /\ tsCache' = Put(tsCache, DayFor(t), cur[t].ts)
    /\ Release(t, "ok")
    /\ UNCHANGED <<files, index, counter>>

(***************************************************************************)
(* The process dies and a new one opens the same directory: Storage.__init__ *)
(* creates the table if it is missing, starts with empty caches and raises *)
(* the new counter to the largest sequence id in the index.                *)
(***************************************************************************)
\* Mutant of SeedFloor: a new process counts from 0.
SeedFloorZero(n) == n = 0

SeedFloor(n) ==
    /\ n \in {0} \cup {r.seq : r \in rows}
    /\ \A r \in rows : r.seq <= n

Restart ==
    /\ hashCache' = << >> /\ tsCache' = << >>
    /\ \E n \in {0} \cup {r.seq : r \in rows} : SeedFloor(n) /\ counter' = n
    /\ lock' = NoThread /\ outer' = NoThread
    /\ pc' = [t \in Thread |-> "idle"]
    /\ cur' = [t \in Thread |-> Blank]
    /\ outcome' = [i \in DOMAIN outcome |->
                     IF outcome[i] = "pending" THEN "crashed" ELSE outcome[i]]
    /\ rebuild' = "none"
    /\ UNCHANGED rows

Crash ==
    /\ "crash" \in Faults
    /\ Restart
    /\ UNCHANGED files

\* The process dies in the middle of a write.
TornCrash(t) ==
    /\ "torn_crash" \in Faults
    /\ pc[t] = "write"
    /\ partial' = partial \cup {DayFor(t)}
    /\ garbled' = garbled \cup {DayFor(t)}
    /\ Restart
    /\ UNCHANGED lines

(***************************************************************************)
(* rebuild_sqlite_from_jsonl: three SQLite transactions, and no lock.      *)
(***************************************************************************)
RebuildDrop ==
    /\ "rebuild" \in Faults
    /\ rebuild = "none"
    /\ rebuild' = "dropped"
    /\ rows' = {}
    /\ UNCHANGED <<files, caches, counter, locks, pc, cur, outcome>>

RebuildCreate ==
    /\ rebuild = "dropped"
    /\ rebuild' = "created"
    /\ UNCHANGED <<files, rows, caches, counter, locks, pc, cur, outcome>>

\* Every line is inserted, or, on an undecodable line or a primary key that an append
\* inserted meanwhile, none is: the exception rolls the transaction back.
RebuildFill ==
    /\ rebuild = "created"
    /\ rebuild' = "none"
    /\ rows' = IF garbled = {} /\ Ids(AllLines) \cap Ids(rows) = {}
               THEN rows \cup AllLines ELSE rows
    /\ UNCHANGED <<files, caches, counter, locks, pc, cur, outcome>>

(***************************************************************************)
(* The specification.                                                      *)
(***************************************************************************)
Init ==
    /\ lines = [d \in Day |-> << >>]
    /\ partial = {} /\ garbled = {}
    /\ rows = {} /\ rebuild = "none"
    /\ hashCache = << >> /\ tsCache = << >>
    /\ counter = 0
    /\ lock = NoThread /\ outer = NoThread
    /\ pc = [t \in Thread |-> "idle"]
    /\ cur = [t \in Thread |-> Blank]
    /\ outcome = << >>

Step(t) ==
    \/ Peek(t) \/ Poke(t)
    \/ Acquire(t) \/ Refuse(t) \/ Chain(t) \/ Reject(t)
    \/ Write(t) \/ WriteFails(t) \/ FsyncFails(t) \/ TornWrite(t)
    \/ Mirror(t) \/ MirrorFails(t)
    \/ Commit(t)

Next ==
    \/ \E t \in Thread, id \in RecordId, ts \in Time : Begin(t, id, ts)
    \/ \E t \in Thread : Step(t) \/ TornCrash(t)
    \/ Crash
    \/ RebuildDrop \/ RebuildCreate \/ RebuildFill

Spec == Init /\ [][Next]_vars

\* The operating system keeps scheduling a thread that can run.  Nothing makes a thread
\* start a call, and no fault has to happen.
FairSpec == Spec /\ \A t \in Thread : WF_vars(Step(t))

-----------------------------------------------------------------------------
(***************************************************************************)
(* Properties.                                                             *)
(***************************************************************************)

\* Types of the variables.
TypeOK ==
    /\ lines \in [Day -> Seq(Line)]
    /\ partial \subseteq garbled /\ garbled \subseteq Day
    /\ rows \subseteq Line
    /\ rebuild \in {"none", "dropped", "created"}
    /\ DOMAIN hashCache \subseteq Day /\ \A d \in DOMAIN hashCache : hashCache[d] \in Digest
    /\ DOMAIN tsCache \subseteq Day /\ \A d \in DOMAIN tsCache : tsCache[d] \in Time
    /\ counter \in Nat
    /\ lock \in Thread \cup {NoThread} /\ outer \in Thread \cup {NoThread}
    /\ pc \in [Thread -> PcValue]
    /\ cur \in [Thread -> Line]
    /\ DOMAIN outcome \subseteq RecordId
    /\ \A i \in DOMAIN outcome : outcome[i] \in Outcome

\* S1 ("chain_hash is computed under _lock; concurrent appends never fork"): whatever the
\* threads do, verify_chain_for_day finds an unbroken chain in every day file.
ChainIntact == \A d \in Day : Verifies(lines[d])

\* S5: within a day file no record is older than the one before it.
TimesMonotone ==
    \A d \in Day : \A i \in 2..Len(lines[d]) : lines[d][i - 1].ts <= lines[d][i].ts

\* R8, "queries hit SQLite; writes hit BOTH": the index holds nothing the JSONL does not,
\* under the same hashes, and lacks only lines whose append was cut short by a crash or is
\* still under way.
IndexGapExplained ==
    /\ rows \subseteq AllLines
    /\ \A l \in AllLines \ rows : outcome[l.id] \in {"pending", "crashed"}

\* S7: the queries order by sequence_id, so no two rows may share one, across restarts too.
IndexSeqUnique == \A r, s \in rows : r.seq = s.seq => r = s

\* A call that was begun returns, or its process dies: no path leaves a lock behind.
Answered ==
    \A i \in RecordId :
        (i \in DOMAIN outcome /\ outcome[i] = "pending") ~>
        (i \in DOMAIN outcome /\ outcome[i] # "pending")

\* The write path implements the append-only log: every change of a file is one record,
\* linked to the tip and not older than it, and only what is in a file is acknowledged.
Abstract ==
    INSTANCE AppendOnlyLedger WITH
        log <- lines, acked <- {i \in DOMAIN outcome : outcome[i] = "ok"}

ImplementsLedger == Abstract!Spec

-----------------------------------------------------------------------------
(***************************************************************************)
(* What is left under every fault.                                         *)
(***************************************************************************)

\* R1/R8, "fail-loud": a record whose append returned is in the JSONL, unless the write was
\* glued to a torn line, which marks the day as garbled.
NoSilentLoss ==
    \A i \in DOMAIN outcome : outcome[i] = "ok" =>
        i \in Ids(AllLines) \/ garbled # {}

\* The JSONL is written first: every row of the index can be found there.
IndexNeverAhead == garbled = {} => rows \subseteq AllLines

\* Even where the chain forks it stays a tree: a line is linked to the genesis or to an
\* earlier line of its own file, never to one that was not written or lies in another day.
ChainIsTree ==
    garbled = {} =>
        \A d \in Day : \A i \in 1..Len(lines[d]) :
            /\ lines[d][i].chain = Hash(lines[d][i].prev, lines[d][i].id)
            /\ \/ lines[d][i].prev = Genesis
               \/ \E j \in 1..(i - 1) : lines[d][j].chain = lines[d][i].prev
================================================================================
