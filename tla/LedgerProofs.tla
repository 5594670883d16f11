---------------------------- MODULE LedgerProofs ----------------------------
(***************************************************************************)
(* What the write path of the SmartNoteBook guarantees for any number of   *)
(* threads, records, days and instants, in five parts:                     *)
(*   - types, under every fault;                                           *)
(*   - what is left of the ledger under every fault (FaultInvs);           *)
(*   - who is where, when appends are whole (ControlInv), and with it what *)
(*     the index may lack (GapInv); and its sequence ids (SeqInv);         *)
(*   - the day chains never fork and never run back in time, in a          *)
(*     sheltered deployment (IInv);                                        *)
(*   - there the write path implements the append-only log.                *)
(***************************************************************************)
EXTENDS LedgerInductive, TLAPS

-----------------------------------------------------------------------------
(***************************************************************************)
(* Operators.                                                              *)
(***************************************************************************)

\* Writing one key of a dict adds at most that key, and changes no other.
LEMMA PutProperties ==
    ASSUME NEW dict, NEW k, NEW v
    PROVE  /\ DOMAIN Put(dict, k, v) = DOMAIN dict \cup {k}
           /\ Put(dict, k, v)[k] = v
           /\ \A x \in DOMAIN dict : x # k => Put(dict, k, v)[x] = dict[x]
  BY DEF Put

\* An empty dict has no keys.
LEMMA EmptyDict == DOMAIN << >> = {}
  OBVIOUS

\* The locals of an idle thread are a well-formed record.
LEMMA BlankType == Blank \in Line
  <1>1. (CHOOSE i \in RecordId : TRUE) \in RecordId
    BY LedgerAssumption
  <1>2. (CHOOSE n \in Time : TRUE) \in Time
    BY LedgerAssumption
  <1>3. QED
    BY <1>1, <1>2 DEF Blank, Fresh, Line, Digest, Genesis

\* A digest extended by a record id is a digest.
LEMMA HashType ==
    ASSUME NEW prev \in Digest, NEW id \in RecordId
    PROVE  Hash(prev, id) \in Digest
  BY DEF Hash, Digest

\* The hash of the last line of a day is a digest, and its timestamp an instant.
LEMMA TipType ==
    ASSUME TypeOK, NEW d \in Day
    PROVE  /\ LastChain(d) \in Digest
           /\ lines[d] # << >> => lines[d][Len(lines[d])] \in Line
  <1>1. lines[d] \in Seq(Line)
    BY DEF TypeOK
  <1>2. CASE lines[d] = << >>
    BY <1>2 DEF LastChain, Digest, Genesis
  <1>3. CASE lines[d] # << >>
    <2>1. lines[d][Len(lines[d])] \in Line
      BY <1>1, <1>3
    <2>2. QED
      BY <2>1, <1>3 DEF LastChain, Line
  <1>4. QED
    BY <1>2, <1>3

\* Whatever a day file holds is a line.
LEMMA AllLinesType == ASSUME TypeOK PROVE AllLines \subseteq Line
  <1>1. ASSUME NEW d \in Day, NEW i \in 1..Len(lines[d])
        PROVE  lines[d][i] \in Line
    BY DEF TypeOK
  <1>2. QED
    BY <1>1 DEF AllLines

\* A thread's record lies in one of the days.
LEMMA DayForType == ASSUME TypeOK, NEW t \in Thread PROVE DayFor(t) \in Day
  BY LedgerAssumption DEF TypeOK, DayFor, Line

-----------------------------------------------------------------------------
(***************************************************************************)
(* Type correctness.                                                       *)
(***************************************************************************)

\* The conjuncts of TypeOK about the bookkeeping of calls: what Release, Begin and Restart
\* change together.
ControlType ==
    /\ counter \in Nat
    /\ lock \in Thread \cup {NoThread} /\ outer \in Thread \cup {NoThread}
    /\ pc \in [Thread -> PcValue]
    /\ cur \in [Thread -> Line]
    /\ DOMAIN outcome \subseteq RecordId
    /\ \A i \in DOMAIN outcome : outcome[i] \in Outcome

\* The conjuncts about the two stores and the caches.
DataType ==
    /\ lines \in [Day -> Seq(Line)]
    /\ partial \subseteq garbled /\ garbled \subseteq Day
    /\ rows \subseteq Line
    /\ rebuild \in {"none", "dropped", "created"}

CacheType ==
    /\ DOMAIN hashCache \subseteq Day /\ \A d \in DOMAIN hashCache : hashCache[d] \in Digest
    /\ DOMAIN tsCache \subseteq Day /\ \A d \in DOMAIN tsCache : tsCache[d] \in Time

LEMMA TypeSplit == TypeOK <=> ControlType /\ DataType /\ CacheType
  BY DEF TypeOK, ControlType, DataType, CacheType

\* Returning from a call keeps its bookkeeping well typed.
LEMMA ReleaseType ==
    ASSUME TypeOK, NEW t \in Thread, NEW result \in Outcome, Release(t, result),
           UNCHANGED counter
    PROVE  ControlType'
  <1>1. cur' \in [Thread -> Line]
    BY BlankType DEF Release, TypeOK
  <1>2. pc' \in [Thread -> PcValue]
    BY DEF Release, Goto, TypeOK, PcValue
  <1>3. /\ DOMAIN outcome' = DOMAIN outcome
        /\ \A i \in DOMAIN outcome' : outcome'[i] \in Outcome
    BY DEF Release, TypeOK
  <1>4. QED
    BY <1>1, <1>2, <1>3 DEF Release, TypeOK, ControlType

\* Filling the caches from the files keeps them well typed.
LEMMA ReadCachesType ==
    ASSUME TypeOK, NEW t \in Thread, ReadCaches(t)
    PROVE  CacheType'
  <1> DEFINE d == DayFor(t)
  <1>1. d \in Day
    BY DayForType
  <1>2. PrevFor(d) \in Digest
    BY <1>1, TipType DEF PrevFor, TypeOK
  <1>3. hashCache' = Put(hashCache, d, PrevFor(d))
    BY DEF ReadCaches
  <1>4. /\ DOMAIN hashCache' \subseteq Day
        /\ \A x \in DOMAIN hashCache' : hashCache'[x] \in Digest
    BY <1>1, <1>2, <1>3 DEF Put, TypeOK
  <1>5. CASE lines[d] = << >>
    BY <1>4, <1>5 DEF ReadCaches, CacheType, TypeOK
  <1>6. CASE lines[d] # << >>
    <2>1. LastTimeFor(d) \in Time
      BY <1>1, <1>6, TipType DEF LastTimeFor, TypeOK, Line
    <2>2. tsCache' = Put(tsCache, d, LastTimeFor(d))
      BY <1>6 DEF ReadCaches
    <2>3. /\ DOMAIN tsCache' \subseteq Day
          /\ \A x \in DOMAIN tsCache' : tsCache'[x] \in Time
      BY <1>1, <2>1, <2>2 DEF Put, TypeOK
    <2>4. QED
      BY <1>4, <2>3 DEF CacheType
  <1>7. QED
    BY <1>5, <1>6

\* Appending a line keeps the files well typed.
LEMMA AppendLineType ==
    ASSUME TypeOK, NEW t \in Thread, AppendLine(t), UNCHANGED index
    PROVE  DataType'
  <1>1. DayFor(t) \in Day /\ cur[t] \in Line
    BY DayForType DEF TypeOK
  <1>2. lines' \in [Day -> Seq(Line)]
    <2>1. Append(lines[DayFor(t)], cur[t]) \in Seq(Line)
      BY <1>1 DEF TypeOK
    <2>2. \/ lines' = lines
          \/ lines' = [lines EXCEPT ![DayFor(t)] = Append(lines[DayFor(t)], cur[t])]
      BY DEF AppendLine
    <2>3. QED
      BY <1>1, <2>1, <2>2 DEF TypeOK
  <1>3. QED
    BY <1>2 DEF AppendLine, TypeOK, DataType, index

\* A new process starts well typed.
LEMMA RestartType ==
    ASSUME TypeOK, Restart
    PROVE  /\ ControlType' /\ CacheType'
           /\ rows' \subseteq Line /\ rebuild' \in {"none", "dropped", "created"}
  <1>1. counter' \in Nat
    BY DEF Restart, TypeOK, Line
  <1>2. cur' \in [Thread -> Line]
    BY BlankType DEF Restart
  <1>3. pc' \in [Thread -> PcValue]
    BY DEF Restart, PcValue
  <1>4. /\ DOMAIN outcome' = DOMAIN outcome
        /\ \A i \in DOMAIN outcome' : outcome'[i] \in Outcome
    BY DEF Restart, TypeOK, Outcome
  <1>5. ControlType'
    BY <1>1, <1>2, <1>3, <1>4 DEF Restart, TypeOK, ControlType
  <1>6. CacheType'
    BY EmptyDict DEF Restart, CacheType
  <1>7. QED
    BY <1>5, <1>6 DEF Restart, TypeOK

\* Every step of every thread and every fault keeps the types.
LEMMA TypeStep == TypeOK /\ [Next]_vars => TypeOK'
  <1> SUFFICES ASSUME TypeOK, [Next]_vars PROVE ControlType' /\ DataType' /\ CacheType'
    BY TypeSplit DEF TypeOK, ControlType, DataType, CacheType
  <1>0. ControlType /\ DataType /\ CacheType
    BY TypeSplit
  <1>1. ASSUME NEW t \in Thread, NEW id \in RecordId, NEW ts \in Time, Begin(t, id, ts)
        PROVE  ControlType' /\ DataType' /\ CacheType'
    <2>1. cur' \in [Thread -> Line]
      <3>1. Fresh(id, ts, counter + 1) \in Line
        BY DEF Fresh, Line, Digest, Genesis, TypeOK
      <3>2. QED
        BY <1>1, <3>1 DEF Begin, TypeOK
    <2>2. /\ DOMAIN outcome' \subseteq RecordId
          /\ \A i \in DOMAIN outcome' : outcome'[i] \in Outcome
      <3>1. outcome' = Put(outcome, id, "pending") /\ "pending" \in Outcome
        BY <1>1 DEF Begin, Outcome
      <3>2. QED
        BY <3>1 DEF Put, TypeOK
    <2>3. pc' \in [Thread -> PcValue]
      BY <1>1 DEF Begin, Goto, TypeOK, PcValue
    <2>4. ControlType'
      BY <1>1, <2>1, <2>2, <2>3 DEF Begin, TypeOK, ControlType
    <2>5. QED
      BY <1>0, <1>1, <2>4 DEF Begin, DataType, CacheType, files, index, caches
  <1>2. ASSUME NEW t \in Thread, Peek(t)
        PROVE  ControlType' /\ DataType' /\ CacheType'
    <2>1. cur' \in [Thread -> Line]
      <3>1. LastChain(DayFor(t)) \in Digest
        BY DayForType, TipType
      <3>2. [cur[t] EXCEPT !.prev = LastChain(DayFor(t))] \in Line
        BY <3>1 DEF TypeOK, Line
      <3>3. cur' = cur \/ cur' = [cur EXCEPT ![t] = [cur[t] EXCEPT !.prev = LastChain(DayFor(t))]]
        BY <1>2 DEF Peek
      <3>4. QED
        BY <3>2, <3>3 DEF TypeOK
    <2>2. pc' \in [Thread -> PcValue]
      BY <1>2 DEF Peek, Goto, TypeOK, PcValue
    <2>3. QED
      BY <1>0, <1>2, <2>1, <2>2
      DEF Peek, ControlType, DataType, CacheType, files, index, caches, locks
  <1>3. ASSUME NEW t \in Thread, Poke(t)
        PROVE  ControlType' /\ DataType' /\ CacheType'
    <2>1. DayFor(t) \in Day /\ cur[t].prev \in Digest
      BY DayForType DEF TypeOK, Line
    <2>2. CacheType'
      <3>1. hashCache' = Put(hashCache, DayFor(t), cur[t].prev) /\ tsCache' = tsCache
        BY <1>3 DEF Poke
      <3>2. QED
        BY <2>1, <3>1 DEF Put, TypeOK, CacheType
    <2>3. pc' \in [Thread -> PcValue]
      BY <1>3 DEF Poke, Goto, TypeOK, PcValue
    <2>4. QED
      BY <1>0, <1>3, <2>2, <2>3 DEF Poke, ControlType, DataType, files, index, locks
  <1>4. ASSUME NEW t \in Thread, Acquire(t)
        PROVE  ControlType' /\ DataType' /\ CacheType'
    BY <1>0, <1>4
    DEF Acquire, Goto, PcValue, ControlType, DataType, CacheType, files, index, caches
  <1>5. ASSUME NEW t \in Thread, Chain(t)
        PROVE  ControlType' /\ DataType' /\ CacheType'
    <2>1. DayFor(t) \in Day /\ cur[t] \in Line
      BY DayForType DEF TypeOK
    <2>2. PrevFor(DayFor(t)) \in Digest
      BY <2>1, TipType DEF PrevFor, TypeOK
    <2>3. Hash(PrevFor(DayFor(t)), cur[t].id) \in Digest
      BY <2>1, <2>2, HashType DEF Line
    <2>4. cur' \in [Thread -> Line]
      BY <1>5, <2>1, <2>2, <2>3 DEF Chain, TypeOK, Line
    <2>5. pc' \in [Thread -> PcValue]
      BY <1>5 DEF Chain, Goto, TypeOK, PcValue
    <2>6. CacheType'
      BY <1>5, ReadCachesType DEF Chain
    <2>7. QED
      BY <1>0, <1>5, <2>4, <2>5, <2>6 DEF Chain, ControlType, DataType, files, index, locks
  <1>6. ASSUME NEW t \in Thread, Reject(t)
        PROVE  ControlType' /\ DataType' /\ CacheType'
    <2>1. ControlType'
      BY <1>6, ReleaseType DEF Reject, Outcome
    <2>2. CacheType'
      BY <1>6, ReadCachesType DEF Reject
    <2>3. QED
      BY <1>0, <1>6, <2>1, <2>2 DEF Reject, DataType, files, index
  <1>7. ASSUME NEW t \in Thread, Write(t)
        PROVE  ControlType' /\ DataType' /\ CacheType'
    <2>1. DataType'
      BY <1>7, AppendLineType DEF Write
    <2>2. QED
      BY <1>0, <1>7, <2>1 DEF Write, Goto, PcValue, ControlType, CacheType, caches, locks
  <1>8. ASSUME NEW t \in Thread, Refuse(t) \/ WriteFails(t) \/ MirrorFails(t)
        PROVE  ControlType' /\ DataType' /\ CacheType'
    <2>1. Release(t, "error") /\ UNCHANGED <<files, index, caches, counter>>
      BY <1>8 DEF Refuse, WriteFails, MirrorFails
    <2>2. ControlType'
      BY <2>1, ReleaseType DEF Outcome
    <2>3. QED
      BY <1>0, <2>1, <2>2 DEF DataType, CacheType, files, index, caches
  <1>9. ASSUME NEW t \in Thread, FsyncFails(t)
        PROVE  ControlType' /\ DataType' /\ CacheType'
    <2>1. ControlType'
      BY <1>9, ReleaseType DEF FsyncFails, Outcome
    <2>2. DataType'
      BY <1>9, AppendLineType DEF FsyncFails
    <2>3. QED
      BY <1>0, <1>9, <2>1, <2>2 DEF FsyncFails, CacheType, caches
  <1>torn. ASSUME NEW t \in Thread, TornWrite(t)
         PROVE  ControlType' /\ DataType' /\ CacheType'
    <2>1. ControlType'
      BY <1>torn, ReleaseType DEF TornWrite, Outcome
    <2>2. DayFor(t) \in Day
      BY DayForType
    <2>3. QED
      BY <1>0, <1>torn, <2>1, <2>2 DEF TornWrite, DataType, CacheType, index, caches
  <1>10. ASSUME NEW t \in Thread, Mirror(t)
         PROVE  ControlType' /\ DataType' /\ CacheType'
    <2>1. rows' \subseteq Line
      BY <1>10 DEF Mirror, TypeOK
    <2>2. QED
      BY <1>0, <1>10, <2>1
      DEF Mirror, Goto, PcValue, ControlType, DataType, CacheType, files, caches, locks
  <1>11. ASSUME NEW t \in Thread, Commit(t)
         PROVE  ControlType' /\ DataType' /\ CacheType'
    <2>1. ControlType'
      BY <1>11, ReleaseType DEF Commit, Outcome
    <2>2. DayFor(t) \in Day /\ cur[t].chain \in Digest /\ cur[t].ts \in Time
      BY DayForType DEF TypeOK, Line
    <2>3. CacheType'
      <3>1. /\ hashCache' = Put(hashCache, DayFor(t), cur[t].chain)
            /\ tsCache' = Put(tsCache, DayFor(t), cur[t].ts)
        BY <1>11 DEF Commit
      <3>2. /\ DOMAIN hashCache' \subseteq Day
            /\ \A x \in DOMAIN hashCache' : hashCache'[x] \in Digest
        BY <2>2, <3>1 DEF Put, TypeOK
      <3>3. /\ DOMAIN tsCache' \subseteq Day
            /\ \A x \in DOMAIN tsCache' : tsCache'[x] \in Time
        BY <2>2, <3>1 DEF Put, TypeOK
      <3>4. QED
        BY <3>2, <3>3 DEF CacheType
    <2>4. QED
      BY <1>0, <1>11, <2>1, <2>3 DEF Commit, DataType, files, index
  <1>12. CASE Crash
    BY <1>0, <1>12, RestartType DEF Crash, DataType, files
  <1>13. ASSUME NEW t \in Thread, TornCrash(t)
         PROVE  ControlType' /\ DataType' /\ CacheType'
    <2>1. DayFor(t) \in Day
      BY DayForType
    <2>2. QED
      BY <1>0, <1>13, <2>1, RestartType DEF TornCrash, DataType
  <1>14. CASE RebuildDrop \/ RebuildCreate
    BY <1>0, <1>14
    DEF RebuildDrop, RebuildCreate, ControlType, DataType, CacheType, files, caches, locks
  <1>15. CASE RebuildFill
    BY <1>0, <1>15, AllLinesType
    DEF RebuildFill, ControlType, DataType, CacheType, files, caches, locks
  <1>16. CASE UNCHANGED vars
    BY <1>0, <1>16
    DEF vars, ControlType, DataType, CacheType, files, index, caches, locks
  <1>17. QED
    BY <1>1, <1>2, <1>3, <1>4, <1>5, <1>6, <1>7, <1>8, <1>9, <1>10, <1>11, <1>12, <1>13,
       <1>14, <1>15, <1>16, <1>torn
    DEF Next, Step

\* A process that opens an empty directory is well typed.
LEMMA TypeInit == ASSUME Init PROVE TypeOK
  <1>1. cur \in [Thread -> Line]
    BY BlankType DEF Init
  <1>2. QED
    BY <1>1, EmptyDict DEF Init, TypeOK, PcValue

\* TypeOK holds in every reachable state, under every fault.
THEOREM TypeCorrect == Spec => []TypeOK
  <1>1. Init => TypeOK
    BY TypeInit
  <1>2. QED
    BY <1>1, TypeStep, PTL DEF Spec

-----------------------------------------------------------------------------
(***************************************************************************)
(* Under every fault: FaultInvs is inductive whatever Faults holds, with   *)
(* or without the outer lock.  It rests on the files only ever growing.    *)
(***************************************************************************)
Grown ==
    /\ garbled \subseteq garbled'
    /\ \A d \in Day : \A i \in 1..Len(lines[d]) :
          i \in 1..Len(lines'[d]) /\ lines'[d][i] = lines[d][i]

\* Appending a record leaves what is in the file in its place.
LEMMA AppendGrows ==
    ASSUME TypeOK, NEW t \in Thread, AppendLine(t)
    PROVE  Grown
  <1>1. DayFor(t) \in Day /\ cur[t] \in Line /\ \A d \in Day : lines[d] \in Seq(Line)
    BY DayForType DEF TypeOK
  <1>2. CASE lines' = lines
    BY <1>2 DEF AppendLine, Grown
  <1>3. CASE lines' = [lines EXCEPT ![DayFor(t)] = Append(lines[DayFor(t)], cur[t])]
    <2>1. SUFFICES ASSUME NEW d \in Day, NEW i \in 1..Len(lines[d])
                   PROVE  i \in 1..Len(lines'[d]) /\ lines'[d][i] = lines[d][i]
      BY DEF AppendLine, Grown
    <2>2. lines'[d] = IF d = DayFor(t) THEN Append(lines[d], cur[t]) ELSE lines[d]
      BY <1>3 DEF TypeOK
    <2>3. lines[d] \in Seq(Line)
      BY <1>1
    <2>4. QED
      BY <1>1, <2>2, <2>3
  <1>4. QED
    BY <1>2, <1>3 DEF AppendLine

\* No step of the system removes or rewrites a line.
LEMMA FilesGrow == TypeOK /\ [Next]_vars => Grown
  <1> SUFFICES ASSUME TypeOK, [Next]_vars PROVE Grown
    OBVIOUS
  <1>1. CASE UNCHANGED files
    BY <1>1 DEF Grown, files
  <1>2. ASSUME NEW t \in Thread, Write(t) \/ FsyncFails(t) PROVE Grown
    BY <1>2, AppendGrows DEF Write, FsyncFails
  <1>3. ASSUME NEW t \in Thread, TornWrite(t) \/ TornCrash(t) PROVE Grown
    BY <1>3 DEF TornWrite, TornCrash, Grown
  <1>4. ASSUME NEW t \in Thread, NEW id \in RecordId, NEW ts \in Time, Begin(t, id, ts)
        PROVE  UNCHANGED files
    BY <1>4 DEF Begin
  <1>5. ASSUME NEW t \in Thread,
               Peek(t) \/ Poke(t) \/ Acquire(t) \/ Refuse(t) \/ Chain(t) \/ Reject(t)
        PROVE  UNCHANGED files
    BY <1>5 DEF Peek, Poke, Acquire, Refuse, Chain, Reject
  <1>6. ASSUME NEW t \in Thread, WriteFails(t) \/ Mirror(t) \/ MirrorFails(t) \/ Commit(t)
        PROVE  UNCHANGED files
    BY <1>6 DEF WriteFails, Mirror, MirrorFails, Commit
  <1>7. Crash \/ RebuildDrop \/ RebuildCreate \/ RebuildFill => UNCHANGED files
    BY DEF Crash, RebuildDrop, RebuildCreate, RebuildFill
  <1>8. UNCHANGED vars => UNCHANGED files
    BY DEF vars
  <1>9. QED
    BY <1>1, <1>2, <1>3, <1>4, <1>5, <1>6, <1>7, <1>8 DEF Next, Step

\* What was in a file stays there.
LEMMA GrownKeeps ==
    ASSUME Grown
    PROVE  /\ AllLines \subseteq AllLines'
           /\ \A d \in Day : Tips(d) \subseteq Tips(d)'
           /\ \A d \in Day : \A l : OnFile(l, d) => OnFile(l, d)'
  <1>1. AllLines \subseteq AllLines'
    <2>1. SUFFICES ASSUME NEW d \in Day, NEW i \in 1..Len(lines[d])
                   PROVE  lines[d][i] \in AllLines'
      BY DEF AllLines
    <2>2. i \in 1..Len(lines'[d]) /\ lines'[d][i] = lines[d][i]
      BY DEF Grown
    <2>3. QED
      BY <2>2 DEF AllLines
  <1>2. ASSUME NEW d \in Day PROVE Tips(d) \subseteq Tips(d)'
    BY DEF Grown, Tips
  <1>3. ASSUME NEW d \in Day, NEW l, OnFile(l, d) PROVE OnFile(l, d)'
    BY <1>3 DEF Grown, OnFile
  <1>4. QED
    BY <1>1, <1>2, <1>3

\* A line in a file is one of all lines, and its hash may be linked to.
LEMMA OnFileMeans ==
    ASSUME NEW d \in Day, NEW l, OnFile(l, d)
    PROVE  l \in AllLines /\ l.chain \in Tips(d)
  <1>1. PICK i \in 1..Len(lines[d]) : lines[d][i] = l
    BY DEF OnFile
  <1>2. QED
    BY <1>1 DEF AllLines, Tips

\* The last hash of a file may be linked to, and so may what PrevFor finds.
LEMMA PrevIsTip ==
    ASSUME TypeOK, CacheOnFile, NEW d \in Day
    PROVE  LastChain(d) \in Tips(d) /\ PrevFor(d) \in Tips(d)
  <1>1. lines[d] \in Seq(Line)
    BY DEF TypeOK
  <1>2. LastChain(d) \in Tips(d)
    <2>1. CASE lines[d] = << >>
      BY <2>1 DEF LastChain, Tips
    <2>2. CASE lines[d] # << >>
      <3>1. Len(lines[d]) \in 1..Len(lines[d])
        BY <1>1, <2>2
      <3>2. LastChain(d) = lines[d][Len(lines[d])].chain
        BY <2>2 DEF LastChain
      <3>3. QED
        BY <3>1, <3>2 DEF Tips
    <2>3. QED
      BY <2>1, <2>2
  <1>3. QED
    BY <1>2 DEF PrevFor, CacheOnFile

\* A thread that does not move keeps carrying what is on file.
LEMMA CarriedKeeps ==
    ASSUME TypeOK, Grown, NEW t \in Thread, CarriedInv(t),
           pc'[t] = pc[t], cur'[t] = cur[t]
    PROVE  CarriedInv(t)'
  <1>1. DayFor(t)' = DayFor(t) /\ DayFor(t) \in Day
    BY DayForType DEF DayFor
  <1>2. CarriedInv(t)' <=>
          /\ pc[t] \in {"mirror", "commit"} => OnFile(cur[t], DayFor(t))'
          /\ pc[t] \in {"poke", "write"} => cur[t].prev \in Tips(DayFor(t))'
          /\ pc[t] = "write" => cur[t].chain = Hash(cur[t].prev, cur[t].id)
    BY <1>1 DEF CarriedInv, OnFile, Tips
  <1>3. QED
    BY <1>1, <1>2, GrownKeeps DEF CarriedInv

\* Where a record of the undamaged days is acknowledged, it is by the thread that has its
\* line in the file.
LEMMA LossStep ==
    ASSUME TypeOK, FaultInvs, [Next]_vars
    PROVE  NoSilentLoss'
  <1>1. Grown
    BY FilesGrow
  <1>2. SUFFICES ASSUME garbled' = {}, NEW i \in DOMAIN outcome', outcome'[i] = "ok"
                 PROVE  i \in Ids(AllLines')
    BY DEF NoSilentLoss, Ids
  <1>3. garbled = {}
    BY <1>1, <1>2 DEF Grown
  <1>4. AllLines \subseteq AllLines'
    BY <1>1, GrownKeeps
  <1>5. CASE i \in DOMAIN outcome /\ outcome[i] = "ok"
    BY <1>3, <1>4, <1>5 DEF FaultInvs, NoSilentLoss, Ids
  <1>6. ASSUME NEW t \in Thread, Commit(t), i = cur[t].id
        PROVE  i \in Ids(AllLines')
    <2>1. cur[t] \in AllLines
      BY <1>3, <1>6, DayForType, OnFileMeans DEF FaultInvs, CarriedInv, Commit
    <2>2. QED
      BY <1>4, <1>6, <2>1 DEF Ids
  <1>7. ASSUME NEW t \in Thread, NEW result \in Outcome, Release(t, result),
               result # "ok" \/ i # cur[t].id
        PROVE  i \in DOMAIN outcome /\ outcome[i] = "ok"
    BY <1>2, <1>7 DEF Release
  <1>8. ASSUME NEW t \in Thread,
               \/ Refuse(t) \/ Reject(t) \/ WriteFails(t) \/ FsyncFails(t) \/ TornWrite(t)
               \/ MirrorFails(t)
        PROVE  i \in DOMAIN outcome /\ outcome[i] = "ok"
    <2>1. Release(t, "error") \/ Release(t, "rejected")
      BY <1>8 DEF Refuse, Reject, WriteFails, FsyncFails, TornWrite, MirrorFails
    <2>2. QED
      BY <1>7, <2>1 DEF Outcome
  <1>9. ASSUME NEW t \in Thread, Commit(t), i # cur[t].id
        PROVE  i \in DOMAIN outcome /\ outcome[i] = "ok"
    BY <1>7, <1>9 DEF Commit, Outcome
  <1>10. ASSUME Restart PROVE i \in DOMAIN outcome /\ outcome[i] = "ok"
    BY <1>2, <1>10 DEF Restart
  <1>11. ASSUME NEW t \in Thread, NEW id \in RecordId, NEW ts \in Time, Begin(t, id, ts)
         PROVE  i \in DOMAIN outcome /\ outcome[i] = "ok"
    BY <1>2, <1>11 DEF Begin, Put
  <1>12. CASE UNCHANGED outcome
    BY <1>2, <1>5, <1>12
  <1>13. ASSUME NEW t \in Thread,
                Peek(t) \/ Poke(t) \/ Acquire(t) \/ Chain(t) \/ Write(t) \/ Mirror(t)
         PROVE  UNCHANGED outcome
    BY <1>13 DEF Peek, Poke, Acquire, Chain, Write, Mirror
  <1>14. RebuildDrop \/ RebuildCreate \/ RebuildFill \/ UNCHANGED vars => UNCHANGED outcome
    BY DEF RebuildDrop, RebuildCreate, RebuildFill, vars
  <1>15. Crash \/ (\E t \in Thread : TornCrash(t)) => Restart
    BY DEF Crash, TornCrash
  <1>16. QED
    BY <1>5, <1>6, <1>8, <1>9, <1>10, <1>11, <1>12, <1>13, <1>14, <1>15
    DEF Next, Step

\* A row is inserted when its line is in the file, or is taken from a file by a rebuild.
LEMMA IndexStep ==
    ASSUME TypeOK, FaultInvs, [Next]_vars
    PROVE  IndexNeverAhead'
  <1>1. Grown
    BY FilesGrow
  <1>2. SUFFICES ASSUME garbled' = {} PROVE rows' \subseteq AllLines'
    BY DEF IndexNeverAhead
  <1>3. garbled = {}
    BY <1>1, <1>2 DEF Grown
  <1>4. rows \subseteq AllLines /\ AllLines \subseteq AllLines'
    BY <1>1, <1>3, GrownKeeps DEF FaultInvs, IndexNeverAhead
  <1>5. SUFFICES rows' \subseteq rows \cup AllLines
    BY <1>4
  <1>6. ASSUME NEW t \in Thread, Mirror(t)
        PROVE  rows' \subseteq rows \cup AllLines
    <2>1. cur[t] \in AllLines
      BY <1>3, <1>6, DayForType, OnFileMeans DEF FaultInvs, CarriedInv, Mirror
    <2>2. QED
      BY <1>6, <2>1 DEF Mirror
  <1>7. CASE UNCHANGED rows
    BY <1>7
  <1>8. RebuildDrop \/ RebuildCreate \/ RebuildFill => rows' \subseteq rows \cup AllLines
    BY DEF RebuildDrop, RebuildCreate, RebuildFill
  <1>9. ASSUME NEW t \in Thread, NEW id \in RecordId, NEW ts \in Time, Begin(t, id, ts)
        PROVE  UNCHANGED rows
    BY <1>9 DEF Begin, index
  <1>10. ASSUME NEW t \in Thread,
                Peek(t) \/ Poke(t) \/ Acquire(t) \/ Refuse(t) \/ Chain(t) \/ Reject(t)
         PROVE  UNCHANGED rows
    BY <1>10 DEF Peek, Poke, Acquire, Refuse, Chain, Reject, index
  <1>11. ASSUME NEW t \in Thread,
                \/ Write(t) \/ WriteFails(t) \/ FsyncFails(t) \/ MirrorFails(t) \/ Commit(t)
                \/ TornWrite(t) \/ TornCrash(t)
         PROVE  UNCHANGED rows
    BY <1>11
    DEF Write, WriteFails, FsyncFails, MirrorFails, Commit, TornWrite, TornCrash, Restart, index
  <1>12. Crash \/ UNCHANGED vars => UNCHANGED rows
    BY DEF Crash, Restart, vars, index
  <1>13. QED
    BY <1>6, <1>7, <1>8, <1>9, <1>10, <1>11, <1>12 DEF Next, Step

\* Appending, to an undamaged day, a record linked to one of its tips keeps its tree.
LEMMA AppendTree ==
    ASSUME TypeOK, ChainIsTree, garbled = {}, NEW t \in Thread, AppendLine(t),
           cur[t].prev \in Tips(DayFor(t)), cur[t].chain = Hash(cur[t].prev, cur[t].id)
    PROVE  ChainIsTree'
  <1> DEFINE b == DayFor(t)
  <1>1. b \in Day /\ cur[t] \in Line /\ \A d \in Day : lines[d] \in Seq(Line)
    BY DayForType DEF TypeOK
  <1>2. lines' = [lines EXCEPT ![b] = Append(lines[b], cur[t])]
    BY DEF AppendLine, TypeOK
  <1>3. SUFFICES ASSUME NEW d \in Day, NEW i \in 1..Len(lines'[d])
                 PROVE  /\ lines'[d][i].chain = Hash(lines'[d][i].prev, lines'[d][i].id)
                        /\ \/ lines'[d][i].prev = Genesis
                           \/ \E j \in 1..(i - 1) : lines'[d][j].chain = lines'[d][i].prev
    BY DEF ChainIsTree
  <1>4. /\ Len(lines[d]) \in Nat
        /\ \A j \in 1..Len(lines[d]) : lines'[d][j] = lines[d][j]
    BY <1>1, <1>2 DEF TypeOK
  <1>5. CASE i \in 1..Len(lines[d])
    <2>1. /\ lines[d][i].chain = Hash(lines[d][i].prev, lines[d][i].id)
          /\ \/ lines[d][i].prev = Genesis
             \/ \E j \in 1..(i - 1) : lines[d][j].chain = lines[d][i].prev
      BY <1>5 DEF ChainIsTree
    <2>2. \A j \in 1..(i - 1) : lines'[d][j] = lines[d][j]
      BY <1>4, <1>5
    <2>3. QED
      BY <1>4, <1>5, <2>1, <2>2
  <1>6. CASE i \notin 1..Len(lines[d])
    <2>1. d = b /\ i = Len(lines[d]) + 1 /\ lines'[d][i] = cur[t]
      BY <1>1, <1>2, <1>3, <1>6 DEF TypeOK
    <2>2. \/ cur[t].prev = Genesis
          \/ \E j \in 1..Len(lines[d]) : lines[d][j].chain = cur[t].prev
      BY <2>1 DEF Tips
    <2>3. QED
      BY <1>4, <2>1, <2>2
  <1>7. QED
    BY <1>5, <1>6

\* Lines enter a file in AppendLine only, linked to what its thread carried.
LEMMA TreeStep ==
    ASSUME TypeOK, FaultInvs, [Next]_vars
    PROVE  ChainIsTree'
  <1>1. Grown
    BY FilesGrow
  <1>2. CASE garbled' # {}
    BY <1>2 DEF ChainIsTree
  <1>3. CASE garbled' = {}
    <2>1. garbled = {}
      BY <1>1, <1>3 DEF Grown
    <2>2. CASE UNCHANGED lines
      BY <2>1, <2>2 DEF FaultInvs, ChainIsTree
    <2>3. ASSUME NEW t \in Thread, Write(t) \/ FsyncFails(t)
          PROVE  ChainIsTree'
      BY <2>1, <2>3, AppendTree DEF FaultInvs, CarriedInv, Write, FsyncFails
    <2>4. ASSUME NEW t \in Thread, NEW id \in RecordId, NEW ts \in Time, Begin(t, id, ts)
          PROVE  UNCHANGED lines
      BY <2>4 DEF Begin, files
    <2>5. ASSUME NEW t \in Thread,
                 Peek(t) \/ Poke(t) \/ Acquire(t) \/ Refuse(t) \/ Chain(t) \/ Reject(t)
          PROVE  UNCHANGED lines
      BY <2>5 DEF Peek, Poke, Acquire, Refuse, Chain, Reject, files
    <2>6. ASSUME NEW t \in Thread,
                 \/ WriteFails(t) \/ Mirror(t) \/ MirrorFails(t) \/ Commit(t)
                 \/ TornWrite(t) \/ TornCrash(t)
          PROVE  UNCHANGED lines
      BY <2>6 DEF WriteFails, Mirror, MirrorFails, Commit, TornWrite, TornCrash, files
    <2>7. Crash \/ RebuildDrop \/ RebuildCreate \/ RebuildFill \/ UNCHANGED vars
          => UNCHANGED lines
      BY DEF Crash, RebuildDrop, RebuildCreate, RebuildFill, vars, files
    <2>8. QED
      BY <2>2, <2>3, <2>4, <2>5, <2>6, <2>7 DEF Next, Step
  <1>4. QED
    BY <1>2, <1>3

\* A dict of hashes on file, written at one day with a hash of that day's file.
LEMMA PutOnFile ==
    ASSUME TypeOK, CacheOnFile, Grown, NEW d \in Day, NEW v \in Tips(d)',
           hashCache' = Put(hashCache, d, v)
    PROVE  CacheOnFile'
  <1>1. \A x \in DOMAIN hashCache : x \in Day /\ hashCache[x] \in Tips(x)'
    BY GrownKeeps DEF TypeOK, CacheOnFile
  <1>2. SUFFICES ASSUME NEW x \in DOMAIN hashCache' PROVE hashCache'[x] \in Tips(x)'
    BY DEF CacheOnFile
  <1>3. hashCache'[d] = v
    BY DEF Put
  <1>4. x # d => x \in DOMAIN hashCache /\ hashCache'[x] = hashCache[x]
    BY <1>2 DEF Put
  <1>5. CASE x = d
    BY <1>3, <1>5 DEF Tips
  <1>6. CASE x # d
    BY <1>1, <1>4, <1>6
  <1>7. QED
    BY <1>5, <1>6

\* Every value that reaches the cache is the hash of a line of the day, or its start.
LEMMA CacheStep ==
    ASSUME TypeOK, FaultInvs, [Next]_vars, garbled = {}
    PROVE  CacheOnFile'
  <1>1. Grown /\ CacheOnFile /\ \A t \in Thread : CarriedInv(t)
    BY FilesGrow DEF FaultInvs
  <1>2. CASE UNCHANGED hashCache
    <2>1. \A d \in DOMAIN hashCache : d \in Day /\ hashCache[d] \in Tips(d)'
      BY <1>1, GrownKeeps DEF TypeOK, CacheOnFile
    <2>2. QED
      BY <1>2, <2>1 DEF CacheOnFile
  <1>3. ASSUME NEW t \in Thread, NEW v, v \in Tips(DayFor(t)),
               hashCache' = Put(hashCache, DayFor(t), v)
        PROVE  CacheOnFile'
    <2>1. PICK d \in Day : d = DayFor(t)
      BY DayForType
    <2>2. v \in Tips(d)'
      BY <1>1, <1>3, <2>1, GrownKeeps
    <2>3. QED
      BY <1>1, <1>3, <2>1, <2>2, PutOnFile
  <1>4. ASSUME NEW t \in Thread, Poke(t) \/ Chain(t) \/ Reject(t) PROVE CacheOnFile'
    <2>1. PICK v : v = IF Poke(t) THEN cur[t].prev ELSE PrevFor(DayFor(t))
      OBVIOUS
    <2>2. v \in Tips(DayFor(t))
      BY <1>1, <2>1, DayForType, PrevIsTip DEF CarriedInv, Poke
    <2>3. hashCache' = Put(hashCache, DayFor(t), v)
      BY <1>4, <2>1 DEF Poke, Chain, Reject, ReadCaches
    <2>4. QED
      BY <1>3, <2>2, <2>3
  <1>5. ASSUME NEW t \in Thread, Commit(t) PROVE CacheOnFile'
    <2>1. PICK v : v = cur[t].chain
      OBVIOUS
    <2>2. v \in Tips(DayFor(t)) /\ hashCache' = Put(hashCache, DayFor(t), v)
      BY <1>1, <1>5, <2>1, DayForType, OnFileMeans DEF CarriedInv, Commit
    <2>3. QED
      BY <1>3, <2>2
  <1>6. ASSUME Restart PROVE CacheOnFile'
    BY <1>6, EmptyDict DEF Restart, CacheOnFile
  <1>7. Crash \/ (\E t \in Thread : TornCrash(t)) => Restart
    BY DEF Crash, TornCrash
  <1>8. ASSUME NEW t \in Thread, NEW id \in RecordId, NEW ts \in Time, Begin(t, id, ts)
        PROVE  UNCHANGED hashCache
    BY <1>8 DEF Begin, caches
  <1>9. ASSUME NEW t \in Thread, Peek(t) \/ Acquire(t) \/ Refuse(t) \/ Write(t)
        PROVE  UNCHANGED hashCache
    BY <1>9 DEF Peek, Acquire, Refuse, Write, caches
  <1>10. ASSUME NEW t \in Thread,
                WriteFails(t) \/ FsyncFails(t) \/ TornWrite(t) \/ Mirror(t) \/ MirrorFails(t)
         PROVE  UNCHANGED hashCache
    BY <1>10 DEF WriteFails, FsyncFails, TornWrite, Mirror, MirrorFails, caches
  <1>11. RebuildDrop \/ RebuildCreate \/ RebuildFill \/ UNCHANGED vars => UNCHANGED hashCache
    BY DEF RebuildDrop, RebuildCreate, RebuildFill, vars, caches
  <1>12. QED
    BY <1>2, <1>3, <1>4, <1>5, <1>6, <1>7, <1>8, <1>9, <1>10, <1>11 DEF Next, Step

\* When one thread moves to a place where it carries nothing, all carry what they did.
LEMMA CarriedFrame ==
    ASSUME TypeOK, Grown, \A u \in Thread : CarriedInv(u), NEW t \in Thread,
           \A u \in Thread : u # t => pc'[u] = pc[u] /\ cur'[u] = cur[u],
           \/ pc'[t] \in {"idle", "peek", "lock", "chain"}
           \/ CarriedInv(t)'
    PROVE  \A u \in Thread : CarriedInv(u)'
  <1>1. ASSUME NEW u \in Thread, u # t PROVE CarriedInv(u)'
    BY <1>1, CarriedKeeps
  <1>2. CarriedInv(t)'
    BY DEF CarriedInv
  <1>3. QED
    BY <1>1, <1>2

\* What a thread carries past the lock, or towards the cache, is on file.
LEMMA CarriedStep ==
    ASSUME TypeOK, FaultInvs, [Next]_vars, garbled = {}
    PROVE  \A u \in Thread : CarriedInv(u)'
  <1>1. Grown /\ CacheOnFile /\ \A t \in Thread : CarriedInv(t)
    BY FilesGrow DEF FaultInvs
  <1>2. ASSUME NEW t \in Thread, NEW id \in RecordId, NEW ts \in Time, Begin(t, id, ts)
        PROVE  \A u \in Thread : CarriedInv(u)'
    <2>1. /\ pc' = [pc EXCEPT ![t] = IF t \in Facade THEN "peek" ELSE "lock"]
          /\ cur' = [cur EXCEPT ![t] = Fresh(id, ts, counter + 1)]
      BY <1>2 DEF Begin, Goto
    <2>2. /\ pc'[t] \in {"idle", "peek", "lock", "chain"}
          /\ \A u \in Thread : u # t => pc'[u] = pc[u] /\ cur'[u] = cur[u]
      BY <2>1 DEF TypeOK
    <2>3. QED
      BY <1>1, <2>2, CarriedFrame
  <1>3. ASSUME NEW t \in Thread, NEW result \in Outcome, Release(t, result)
        PROVE  \A u \in Thread : CarriedInv(u)'
    <2>1. pc' = [pc EXCEPT ![t] = "idle"] /\ cur' = [cur EXCEPT ![t] = Blank]
      BY <1>3 DEF Release, Goto
    <2>2. /\ pc'[t] \in {"idle", "peek", "lock", "chain"}
          /\ \A u \in Thread : u # t => pc'[u] = pc[u] /\ cur'[u] = cur[u]
      BY <2>1 DEF TypeOK
    <2>3. QED
      BY <1>1, <2>2, CarriedFrame
  <1>4. ASSUME NEW t \in Thread, Refuse(t) \/ Reject(t) \/ WriteFails(t) \/ FsyncFails(t)
                                 \/ TornWrite(t) \/ MirrorFails(t) \/ Commit(t)
        PROVE  \A u \in Thread : CarriedInv(u)'
    <2>1. Release(t, "ok") \/ Release(t, "error") \/ Release(t, "rejected")
      BY <1>4 DEF Refuse, Reject, WriteFails, FsyncFails, TornWrite, MirrorFails, Commit
    <2>2. QED
      BY <1>3, <2>1 DEF Outcome
  <1>5. ASSUME NEW t \in Thread, Poke(t) \/ Acquire(t)
        PROVE  \A u \in Thread : CarriedInv(u)'
    <2>1. /\ pc' = [pc EXCEPT ![t] = "lock"] \/ pc' = [pc EXCEPT ![t] = "chain"]
          /\ cur' = cur
      BY <1>5 DEF Poke, Acquire, Goto
    <2>2. /\ pc'[t] \in {"idle", "peek", "lock", "chain"}
          /\ \A u \in Thread : u # t => pc'[u] = pc[u] /\ cur'[u] = cur[u]
      BY <2>1 DEF TypeOK
    <2>3. QED
      BY <1>1, <2>2, CarriedFrame
  <1>6. ASSUME NEW t \in Thread, Peek(t)
        PROVE  \A u \in Thread : CarriedInv(u)'
    <2>0. PICK b \in Day : b = DayFor(t)
      BY DayForType
    <2>1. CASE b \in DOMAIN hashCache
      <3>1. pc' = [pc EXCEPT ![t] = "lock"] /\ cur' = cur
        BY <1>6, <2>0, <2>1 DEF Peek, Goto
      <3>2. /\ pc'[t] \in {"idle", "peek", "lock", "chain"}
            /\ \A u \in Thread : u # t => pc'[u] = pc[u] /\ cur'[u] = cur[u]
        BY <3>1 DEF TypeOK
      <3>3. QED
        BY <1>1, <3>2, CarriedFrame
    <2>2. CASE b \notin DOMAIN hashCache
      <3>1. /\ pc' = [pc EXCEPT ![t] = "poke"]
            /\ cur' = [cur EXCEPT ![t] = [cur[t] EXCEPT !.prev = LastChain(b)]]
        BY <1>6, <2>0, <2>2 DEF Peek, Goto
      <3>2. /\ pc'[t] = "poke" /\ cur'[t].prev = LastChain(b) /\ cur'[t].ts = cur[t].ts
            /\ \A u \in Thread : u # t => pc'[u] = pc[u] /\ cur'[u] = cur[u]
        BY <3>1 DEF TypeOK, Line
      <3>3. DayFor(t)' = b
        BY <2>0, <3>2 DEF DayFor
      <3>4. LastChain(b) \in Tips(b)'
        BY <1>1, PrevIsTip, GrownKeeps
      <3>5. CarriedInv(t)'
        BY <3>2, <3>3, <3>4 DEF CarriedInv, Tips
      <3>6. QED
        BY <1>1, <3>2, <3>5, CarriedFrame
    <2>3. QED
      BY <2>1, <2>2
  <1>7. ASSUME NEW t \in Thread, Chain(t)
        PROVE  \A u \in Thread : CarriedInv(u)'
    <2>0. PICK b, prev : b \in Day /\ b = DayFor(t) /\ prev = PrevFor(b)
      BY DayForType
    <2>1. /\ pc' = [pc EXCEPT ![t] = "write"]
          /\ cur' = [cur EXCEPT ![t] = [cur[t] EXCEPT !.prev = prev,
                                                     !.chain = Hash(prev, cur[t].id)]]
      BY <1>7, <2>0 DEF Chain, Goto
    <2>2. /\ pc'[t] = "write" /\ cur'[t].prev = prev /\ cur'[t].id = cur[t].id
          /\ cur'[t].chain = Hash(prev, cur[t].id) /\ cur'[t].ts = cur[t].ts
          /\ \A u \in Thread : u # t => pc'[u] = pc[u] /\ cur'[u] = cur[u]
      BY <2>1 DEF TypeOK, Line
    <2>3. DayFor(t)' = b
      BY <2>0, <2>2 DEF DayFor
    <2>4. prev \in Tips(b)'
      BY <1>1, <2>0, PrevIsTip, GrownKeeps
    <2>5. CarriedInv(t)'
      BY <2>2, <2>3, <2>4 DEF CarriedInv, Tips
    <2>6. QED
      BY <1>1, <2>2, <2>5, CarriedFrame
  <1>8. ASSUME NEW t \in Thread, Write(t)
        PROVE  \A u \in Thread : CarriedInv(u)'
    <2>0. PICK b \in Day : b = DayFor(t)
      BY DayForType
    <2>1. /\ pc' = [pc EXCEPT ![t] = "mirror"] /\ cur' = cur
          /\ lines' = [lines EXCEPT ![b] = Append(lines[b], cur[t])]
      BY <1>8, <2>0 DEF Write, Goto, AppendLine, TypeOK
    <2>2. lines[b] \in Seq(Line) /\ cur[t] \in Line /\ DayFor(t)' = b
      BY <2>0, <2>1 DEF TypeOK, DayFor
    <2>3. OnFile(cur[t], b)'
      <3>1. lines'[b] = Append(lines[b], cur[t])
        BY <2>1, <2>2 DEF TypeOK
      <3>2. Len(lines'[b]) \in 1..Len(lines'[b]) /\ lines'[b][Len(lines'[b])] = cur[t]
        BY <2>2, <3>1
      <3>3. QED
        BY <2>1, <3>2 DEF OnFile
    <2>4. /\ pc'[t] = "mirror"
          /\ \A u \in Thread : u # t => pc'[u] = pc[u] /\ cur'[u] = cur[u]
      BY <2>1 DEF TypeOK
    <2>5. CarriedInv(t)'
      BY <2>1, <2>2, <2>3, <2>4 DEF CarriedInv, OnFile
    <2>6. QED
      BY <1>1, <2>4, <2>5, CarriedFrame
  <1>9. ASSUME NEW t \in Thread, Mirror(t)
        PROVE  \A u \in Thread : CarriedInv(u)'
    <2>1. pc[t] = "mirror" /\ pc' = [pc EXCEPT ![t] = "commit"] /\ cur' = cur /\ lines' = lines
      BY <1>9 DEF Mirror, Goto, files
    <2>2. /\ pc'[t] = "commit"
          /\ \A u \in Thread : u # t => pc'[u] = pc[u] /\ cur'[u] = cur[u]
      BY <2>1 DEF TypeOK
    <2>3. CarriedInv(t)'
      BY <1>1, <2>1, <2>2 DEF CarriedInv, OnFile, DayFor
    <2>4. QED
      BY <1>1, <2>2, <2>3, CarriedFrame
  <1>10. ASSUME Restart PROVE \A u \in Thread : CarriedInv(u)'
    BY <1>10 DEF Restart, CarriedInv
  <1>11. Crash \/ (\E t \in Thread : TornCrash(t)) => Restart
    BY DEF Crash, TornCrash
  <1>12. CASE UNCHANGED <<pc, cur>>
    BY <1>1, <1>12, CarriedKeeps
  <1>13. RebuildDrop \/ RebuildCreate \/ RebuildFill \/ UNCHANGED vars => UNCHANGED <<pc, cur>>
    BY DEF RebuildDrop, RebuildCreate, RebuildFill, vars
  <1>14. QED
    BY <1>2, <1>4, <1>5, <1>6, <1>7, <1>8, <1>9, <1>10, <1>11, <1>12, <1>13 DEF Next, Step

\* FaultInvs holds whatever goes wrong.
THEOREM FaultInductive == Spec => [](TypeOK /\ FaultInvs)
  <1>1. Init => TypeOK /\ FaultInvs
    <2> SUFFICES ASSUME Init PROVE TypeOK /\ FaultInvs
      OBVIOUS
    <2>1. NoSilentLoss /\ IndexNeverAhead
      BY EmptyDict DEF Init, NoSilentLoss, IndexNeverAhead
    <2>2. ChainIsTree
      BY DEF Init, ChainIsTree
    <2>3. CacheOnFile /\ \A t \in Thread : CarriedInv(t)
      BY EmptyDict DEF Init, CacheOnFile, CarriedInv
    <2>4. QED
      BY <2>1, <2>2, <2>3, TypeInit DEF FaultInvs
  <1>2. TypeOK /\ FaultInvs /\ [Next]_vars => (TypeOK /\ FaultInvs)'
    <2> SUFFICES ASSUME TypeOK, FaultInvs, [Next]_vars PROVE TypeOK' /\ FaultInvs'
      OBVIOUS
    <2>1. garbled' = {} => garbled = {}
      BY FilesGrow DEF Grown
    <2>2. garbled' = {} => CacheOnFile' /\ \A t \in Thread : CarriedInv(t)'
      BY <2>1, CacheStep, CarriedStep
    <2>3. QED
      BY <2>2, TypeStep, LossStep, IndexStep, TreeStep DEF FaultInvs
  <1>3. QED
    BY <1>1, <1>2, PTL DEF Spec

\* R1 and R8: under every fault, an acknowledged record is in the JSONL as long as no write
\* was torn.
THEOREM LossSafe == Spec => []NoSilentLoss
  <1>1. FaultInvs => NoSilentLoss
    BY DEF FaultInvs
  <1>2. QED
    BY <1>1, FaultInductive, PTL

\* The index never shows a record that the JSONL lacks, also while it is being rebuilt.
THEOREM IndexSafe == Spec => []IndexNeverAhead
  <1>1. FaultInvs => IndexNeverAhead
    BY DEF FaultInvs
  <1>2. QED
    BY <1>1, FaultInductive, PTL

\* A forked chain is still a tree: callers that race with the unlocked look, failing writes
\* and crashes never link a line to one that was not written or lies in another day.
THEOREM TreeSafe == Spec => []ChainIsTree
  <1>1. FaultInvs => ChainIsTree
    BY DEF FaultInvs
  <1>2. QED
    BY <1>1, FaultInductive, PTL

-----------------------------------------------------------------------------
(***************************************************************************)
(* Control: who holds what, and which record ids are in flight, where      *)
(* appends are whole (ControlInv).                                         *)
(***************************************************************************)

\* After Release(t) thread t is idle and holds nothing, and no other thread has moved.
LEMMA ReleaseControl ==
    ASSUME TypeOK, ControlInv, NEW t \in Thread, pc[t] \in Inside, NEW result \in Outcome,
           Release(t, result), UNCHANGED <<rows, rebuild, partial, garbled>>
    PROVE  ControlInv'
  <1>1. /\ pc' = [pc EXCEPT ![t] = "idle"]
        /\ cur' = [cur EXCEPT ![t] = Blank]
        /\ DOMAIN outcome' = DOMAIN outcome
        /\ lock' = NoThread
        /\ outer' = IF outer = t THEN NoThread ELSE outer
    BY DEF Release, Goto
  <1>2. \A u \in Thread : pc[u] \in Inside => u = t
    BY DEF ControlInv, LockInv
  <1>3. LockInv'
    BY <1>1, <1>2, LedgerAssumption DEF ControlInv, LockInv, TypeOK, Inside
  <1>4. IdInv'
    BY <1>1 DEF ControlInv, IdInv, TypeOK, Ids
  <1>5. QED
    BY <1>3, <1>4 DEF ControlInv, FaultInv

\* No written line is left unindexed, where appends are whole, by a failure of the call.
LEMMA NoHiddenFaults ==
    ASSUME WholeAppends, ControlInv
    PROVE  \A t \in Thread : ~MirrorFails(t) /\ ~FsyncFails(t) /\ ~TornWrite(t) /\ ~TornCrash(t)
  <1> SUFFICES ASSUME NEW t \in Thread
               PROVE  ~MirrorFails(t) /\ ~FsyncFails(t) /\ ~TornWrite(t) /\ ~TornCrash(t)
    OBVIOUS
  <1>1. pc[t] = "mirror" => CanInsert(t)
    BY DEF CanInsert, ControlInv, IdInv, FaultInv
  <1>2. "index_error" \notin Faults
    BY DEF WholeAppends
  <1>3. ~MirrorFails(t)
    BY <1>1, <1>2 DEF MirrorFails
  <1>4. QED
    BY <1>3 DEF WholeAppends, FsyncFails, TornWrite, TornCrash

\* Nor is the index rebuilt.
LEMMA NoRebuild ==
    ASSUME WholeAppends, ControlInv
    PROVE  ~RebuildDrop /\ ~RebuildCreate /\ ~RebuildFill
  BY DEF WholeAppends, ControlInv, FaultInv, RebuildDrop, RebuildCreate, RebuildFill

\* Nobody is in a call at first.
LEMMA ControlInit == ASSUME Init PROVE ControlInv
  <1>1. \A t \in Thread : pc[t] = "idle"
    BY DEF Init
  <1>2. LockInv
    BY <1>1, LedgerAssumption DEF Init, LockInv, Inside
  <1>3. IdInv
    BY <1>1 DEF Init, IdInv, Ids
  <1>4. QED
    BY <1>2, <1>3 DEF Init, ControlInv, FaultInv

\* Where appends are whole every step keeps the lock discipline and the freshness of ids.
LEMMA ControlStep ==
    ASSUME WholeAppends, TypeOK, ControlInv, [Next]_vars
    PROVE  ControlInv'
  <1> USE DEF ControlInv
  <1>1. ASSUME NEW t \in Thread, NEW id \in RecordId, NEW ts \in Time, Begin(t, id, ts)
        PROVE  ControlInv'
    <2>1. /\ pc' = [pc EXCEPT ![t] = IF t \in Facade THEN "peek" ELSE "lock"]
          /\ cur' = [cur EXCEPT ![t] = Fresh(id, ts, counter + 1)]
          /\ DOMAIN outcome' = DOMAIN outcome \cup {id}
          /\ id \notin DOMAIN outcome
          /\ pc[t] = "idle"
          /\ UNCHANGED <<lock, rows, rebuild, partial, garbled>>
      BY <1>1, PutProperties DEF Begin, Goto, files, index
    <2>2. Fresh(id, ts, counter + 1).id = id
      BY DEF Fresh
    <2>3. Serialized => outer = NoThread /\ outer' = t
      BY <1>1 DEF Begin
    <2>4. LockInv'
      BY <2>1, <2>3, LedgerAssumption DEF LockInv, TypeOK, Inside
    <2>5. IdInv'
      BY <2>1, <2>2 DEF IdInv, TypeOK
    <2>6. QED
      BY <2>1, <2>4, <2>5 DEF FaultInv
  <1>2. ASSUME NEW t \in Thread, Peek(t)
        PROVE  ControlInv'
    <2>1. /\ pc[t] = "peek" /\ pc' \in {[pc EXCEPT ![t] = "lock"], [pc EXCEPT ![t] = "poke"]}
          /\ \A u \in Thread : cur'[u].id = cur[u].id
          /\ UNCHANGED <<lock, outer, outcome, rows, rebuild, partial, garbled>>
      <3>1. cur' = cur \/ cur' = [cur EXCEPT ![t] = [cur[t] EXCEPT !.prev = LastChain(DayFor(t))]]
        BY <1>2 DEF Peek
      <3>2. \A u \in Thread : cur'[u].id = cur[u].id
        BY <3>1 DEF TypeOK, Line
      <3>3. QED
        BY <1>2, <3>2 DEF Peek, Goto, files, index, locks
    <2>2. LockInv'
      BY <2>1 DEF LockInv, TypeOK, Inside
    <2>3. IdInv'
      BY <2>1 DEF IdInv, TypeOK
    <2>4. QED
      BY <2>1, <2>2, <2>3 DEF FaultInv
  <1>3. ASSUME NEW t \in Thread, Poke(t)
        PROVE  ControlInv'
    <2>1. /\ pc[t] = "poke" /\ pc' = [pc EXCEPT ![t] = "lock"]
          /\ UNCHANGED <<cur, lock, outer, outcome, rows, rebuild, partial, garbled>>
      BY <1>3 DEF Poke, Goto, files, index, locks
    <2>2. LockInv'
      BY <2>1 DEF LockInv, TypeOK, Inside
    <2>3. IdInv'
      BY <2>1 DEF IdInv, TypeOK
    <2>4. QED
      BY <2>1, <2>2, <2>3 DEF FaultInv
  <1>4. ASSUME NEW t \in Thread, Acquire(t)
        PROVE  ControlInv'
    <2>1. /\ pc[t] = "lock" /\ pc' = [pc EXCEPT ![t] = "chain"]
          /\ lock = NoThread /\ lock' = t
          /\ UNCHANGED <<cur, outer, outcome, rows, rebuild, partial, garbled>>
      BY <1>4 DEF Acquire, Goto, files, index
    <2>2. LockInv'
      BY <2>1, LedgerAssumption DEF LockInv, TypeOK, Inside
    <2>3. IdInv'
      BY <2>1 DEF IdInv, TypeOK
    <2>4. QED
      BY <2>1, <2>2, <2>3 DEF FaultInv
  <1>5. ASSUME NEW t \in Thread, Chain(t)
        PROVE  ControlInv'
    <2>1. /\ pc[t] = "chain" /\ pc' = [pc EXCEPT ![t] = "write"]
          /\ \A u \in Thread : cur'[u].id = cur[u].id
          /\ UNCHANGED <<lock, outer, outcome, rows, rebuild, partial, garbled>>
      BY <1>5 DEF Chain, Goto, files, index, locks, TypeOK, Line
    <2>2. LockInv'
      BY <2>1 DEF LockInv, TypeOK, Inside
    <2>3. IdInv'
      BY <2>1 DEF IdInv, TypeOK
    <2>4. QED
      BY <2>1, <2>2, <2>3 DEF FaultInv
  <1>6. ASSUME NEW t \in Thread, Reject(t) \/ Refuse(t) \/ WriteFails(t) \/ Commit(t)
        PROVE  ControlInv'
    <2>1. /\ pc[t] \in Inside
          /\ Release(t, "rejected") \/ Release(t, "error") \/ Release(t, "ok")
          /\ UNCHANGED <<rows, rebuild, partial, garbled>>
      BY <1>6 DEF Reject, Refuse, WriteFails, Commit, Inside, files, index
    <2>2. QED
      BY <2>1, ReleaseControl DEF Outcome
  <1>7. ASSUME NEW t \in Thread, Write(t)
        PROVE  ControlInv'
    <2>1. /\ pc[t] = "write" /\ pc' = [pc EXCEPT ![t] = "mirror"]
          /\ UNCHANGED <<cur, lock, outer, outcome, rows, rebuild, garbled>>
          /\ partial' = {}
      BY <1>7 DEF Write, Goto, AppendLine, index, locks, FaultInv
    <2>2. LockInv'
      BY <2>1 DEF LockInv, TypeOK, Inside
    <2>3. IdInv'
      BY <2>1 DEF IdInv, TypeOK
    <2>4. QED
      BY <2>1, <2>2, <2>3 DEF FaultInv
  <1>8. ASSUME NEW t \in Thread, Mirror(t)
        PROVE  ControlInv'
    <2>1. /\ pc[t] = "mirror" /\ pc' = [pc EXCEPT ![t] = "commit"]
          /\ rows' = rows \cup {cur[t]}
          /\ UNCHANGED <<cur, lock, outer, outcome, rebuild, partial, garbled>>
      BY <1>8 DEF Mirror, Goto, files, locks
    <2>2. LockInv'
      BY <2>1 DEF LockInv, TypeOK, Inside
    <2>3. Ids(rows') = Ids(rows) \cup {cur[t].id}
      BY <2>1 DEF Ids
    <2>4. IdInv'
      BY <2>1, <2>3 DEF IdInv, TypeOK
    <2>5. QED
      BY <2>1, <2>2, <2>4 DEF FaultInv
  <1>9. \A t \in Thread : ~MirrorFails(t) /\ ~FsyncFails(t) /\ ~TornWrite(t) /\ ~TornCrash(t)
    BY NoHiddenFaults
  <1>10. ~RebuildDrop /\ ~RebuildCreate /\ ~RebuildFill
    BY NoRebuild
  <1>11. CASE Crash
    <2>1. /\ \A t \in Thread : pc'[t] = "idle"
          /\ lock' = NoThread /\ outer' = NoThread
          /\ DOMAIN outcome' = DOMAIN outcome
          /\ rebuild' = "none"
          /\ UNCHANGED <<rows, partial, garbled>>
      BY <1>11 DEF Crash, Restart, files
    <2>2. LockInv'
      BY <2>1, LedgerAssumption DEF LockInv, Inside
    <2>3. IdInv'
      BY <2>1 DEF IdInv
    <2>4. QED
      BY <2>1, <2>2, <2>3 DEF FaultInv
  <1>12. CASE UNCHANGED vars
    BY <1>12 DEF vars, files, index, locks, LockInv, IdInv, FaultInv
  <1>13. QED
    BY <1>1, <1>2, <1>3, <1>4, <1>5, <1>6, <1>7, <1>8, <1>9, <1>10, <1>11, <1>12
    DEF Next, Step

-----------------------------------------------------------------------------
(***************************************************************************)
(* The index: what it may lack where appends are whole (GapInv), and why   *)
(* no two rows share a sequence id (SeqInv).                               *)
(***************************************************************************)
Prewrite == {"peek", "poke", "lock", "chain", "write"}

\* A day that does not end in a torn line gains exactly the line that is appended.
LEMMA AppendAdds ==
    ASSUME TypeOK, partial = {}, NEW t \in Thread, AppendLine(t)
    PROVE  AllLines' = AllLines \cup {cur[t]}
  <1>0. PICK b \in Day : b = DayFor(t)
    BY DayForType
  <1>1. \A d \in Day : lines'[d] = IF d = b THEN Append(lines[d], cur[t]) ELSE lines[d]
    BY <1>0 DEF AppendLine, TypeOK
  <1>2. lines[b] \in Seq(Line) /\ cur[t] \in Line
    BY DEF TypeOK
  <1>3. /\ Len(lines'[b]) = Len(lines[b]) + 1 /\ Len(lines[b]) \in Nat
        /\ lines'[b][Len(lines[b]) + 1] = cur[t]
        /\ \A i \in 1..Len(lines[b]) : lines'[b][i] = lines[b][i]
    <2>1. lines'[b] = Append(lines[b], cur[t])
      BY <1>1
    <2>2. QED
      BY <1>2, <2>1
  <1>4. ASSUME NEW d \in Day, NEW i \in 1..Len(lines'[d])
        PROVE  lines'[d][i] \in AllLines \cup {cur[t]}
    <2>1. CASE d = b /\ i = Len(lines[b]) + 1
      BY <1>3, <2>1
    <2>2. CASE ~(d = b /\ i = Len(lines[b]) + 1)
      <3>1. i \in 1..Len(lines[d]) /\ lines'[d][i] = lines[d][i]
        BY <1>1, <1>3, <1>4, <2>2
      <3>2. QED
        BY <3>1 DEF AllLines
    <2>3. QED
      BY <2>1, <2>2
  <1>5. cur[t] \in AllLines'
    <2>1. Len(lines[b]) + 1 \in 1..Len(lines'[b])
      BY <1>3
    <2>2. QED
      BY <1>3, <2>1 DEF AllLines
  <1>6. AllLines \subseteq AllLines'
    BY AppendGrows, GrownKeeps
  <1>7. AllLines' \subseteq AllLines \cup {cur[t]}
    BY <1>4 DEF AllLines
  <1>8. QED
    BY <1>5, <1>6, <1>7

\* A thread that moves towards the write, with the same record, explains no gap away.
LEMMA GapFrame ==
    ASSUME TypeOK, GapInv, UNCHANGED <<AllLines, rows, outcome>>,
           \A u \in Thread :
              \/ pc'[u] = pc[u] /\ cur'[u] = cur[u]
              \/ /\ pc[u] \in Prewrite /\ pc'[u] \in Prewrite
                 /\ cur'[u].id = cur[u].id
    PROVE  GapInv'
  <1> DEFINE Ln == AllLines
  <1>1. LineIdInv'
    <2>1. Ids(AllLines)' = Ids(AllLines)
      BY DEF Ids
    <2>2. \A t \in Thread : pc'[t] \notin {"idle", "mirror", "commit"} =>
             cur'[t].id \notin Ids(AllLines)
      BY DEF GapInv, LineIdInv, Prewrite
    <2>3. \A t \in Thread : pc'[t] \in {"mirror", "commit"} =>
             pc[t] \in {"mirror", "commit"} /\ cur'[t] = cur[t]
      BY DEF Prewrite
    <2>4. QED
      BY <2>1, <2>2, <2>3 DEF GapInv, LineIdInv
  <1>2. AnswerInv'
    BY DEF GapInv, AnswerInv, Prewrite
  <1>3. IndexGapExplained'
    BY DEF GapInv, IndexGapExplained
  <1>4. QED
    BY <1>1, <1>2, <1>3 DEF GapInv

\* A call returns when its record is in both stores or in neither.
LEMMA GapRelease ==
    ASSUME TypeOK, IdInv, GapInv, NEW t \in Thread,
           pc[t] \in {"chain", "write", "commit"}, NEW result \in Outcome,
           Release(t, result), UNCHANGED <<AllLines, rows>>
    PROVE  GapInv'
  <1>1. /\ pc'[t] = "idle"
        /\ \A u \in Thread : u # t => pc'[u] = pc[u] /\ cur'[u] = cur[u]
        /\ DOMAIN outcome' = DOMAIN outcome
        /\ \A i \in DOMAIN outcome : i # cur[t].id => outcome'[i] = outcome[i]
    BY DEF Release, Goto, TypeOK
  <1>2. \A u \in Thread : u # t /\ pc[u] # "idle" =>
          cur[u].id \in DOMAIN outcome /\ cur[u].id # cur[t].id
    BY DEF IdInv
  <1>3. LineIdInv'
    BY <1>1 DEF GapInv, LineIdInv, Ids
  <1>4. AnswerInv'
    BY <1>1, <1>2 DEF GapInv, AnswerInv
  <1>5. ASSUME NEW l \in AllLines, l \notin rows
        PROVE  outcome'[l.id] \in {"pending", "crashed"}
    <2>1. l.id \in DOMAIN outcome /\ l.id \in Ids(AllLines)
      BY DEF GapInv, LineIdInv, Ids
    <2>2. l.id # cur[t].id
      <3>1. CASE pc[t] = "commit"
        BY <1>5, <3>1 DEF GapInv, LineIdInv, AnswerInv
      <3>2. CASE pc[t] \in {"chain", "write"}
        BY <2>1, <3>2 DEF GapInv, LineIdInv
      <3>3. QED
        BY <3>1, <3>2
    <2>3. QED
      BY <1>1, <1>5, <2>1, <2>2 DEF GapInv, IndexGapExplained
  <1>6. IndexGapExplained'
    BY <1>5 DEF GapInv, IndexGapExplained
  <1>7. QED
    BY <1>3, <1>4, <1>6 DEF GapInv

\* Where appends are whole no step opens a gap that a crash does not explain.
LEMMA GapStep ==
    ASSUME WholeAppends, TypeOK, ControlInv, GapInv, [Next]_vars
    PROVE  GapInv'
  <1>0. IdInv /\ partial = {}
    BY DEF ControlInv, FaultInv
  <1>1. UNCHANGED lines => UNCHANGED AllLines
    BY DEF AllLines
  <1>2. ASSUME NEW t \in Thread, NEW id \in RecordId, NEW ts \in Time, Begin(t, id, ts)
        PROVE  GapInv'
    <2>1. /\ cur'[t].id = id /\ id \notin DOMAIN outcome
          /\ pc'[t] \in {"peek", "lock"}
          /\ \A u \in Thread : u # t => pc'[u] = pc[u] /\ cur'[u] = cur[u]
          /\ DOMAIN outcome' = DOMAIN outcome \cup {id} /\ outcome'[id] = "pending"
          /\ \A i \in DOMAIN outcome : outcome'[i] = outcome[i]
      <3>1. /\ cur'[t].id = id /\ id \notin DOMAIN outcome
            /\ pc'[t] \in {"peek", "lock"}
            /\ \A u \in Thread : u # t => pc'[u] = pc[u] /\ cur'[u] = cur[u]
        BY <1>2 DEF Begin, Goto, TypeOK, Fresh
      <3>2. outcome' = Put(outcome, id, "pending")
        BY <1>2 DEF Begin
      <3>3. QED
        BY <3>1, <3>2 DEF Put
    <2>2. UNCHANGED <<AllLines, rows>>
      BY <1>1, <1>2 DEF Begin, files, index
    <2>3. id \notin Ids(AllLines)
      BY <2>1 DEF GapInv, LineIdInv
    <2>4. LineIdInv'
      BY <2>1, <2>2, <2>3 DEF GapInv, LineIdInv, Ids
    <2>5. AnswerInv'
      BY <1>0, <2>1, <2>2 DEF GapInv, AnswerInv, IdInv
    <2>6. IndexGapExplained'
      BY <2>1, <2>2 DEF GapInv, LineIdInv, IndexGapExplained, Ids
    <2>7. QED
      BY <2>4, <2>5, <2>6 DEF GapInv
  <1>3. ASSUME NEW t \in Thread, Peek(t) \/ Poke(t) \/ Acquire(t) \/ Chain(t)
        PROVE  GapInv'
    <2>1. /\ pc[t] \in Prewrite /\ pc'[t] \in Prewrite /\ cur'[t].id = cur[t].id
          /\ \A u \in Thread : u # t => pc'[u] = pc[u] /\ cur'[u] = cur[u]
      <3>1. CASE Peek(t)
        BY <3>1 DEF Peek, Goto, Prewrite, TypeOK, Line
      <3>2. CASE Poke(t) \/ Acquire(t)
        BY <3>2 DEF Poke, Acquire, Goto, Prewrite, TypeOK
      <3>3. CASE Chain(t)
        BY <3>3 DEF Chain, Goto, Prewrite, TypeOK, Line
      <3>4. QED
        BY <1>3, <3>1, <3>2, <3>3
    <2>2. UNCHANGED <<AllLines, rows, outcome>>
      BY <1>1, <1>3 DEF Peek, Poke, Acquire, Chain, files, index
    <2>3. QED
      BY <2>1, <2>2, GapFrame
  <1>4. ASSUME NEW t \in Thread, Refuse(t) \/ Reject(t) \/ WriteFails(t) \/ Commit(t)
        PROVE  GapInv'
    <2>1. /\ pc[t] \in {"chain", "write", "commit"}
          /\ Release(t, "error") \/ Release(t, "rejected") \/ Release(t, "ok")
          /\ UNCHANGED <<AllLines, rows>>
      BY <1>1, <1>4 DEF Refuse, Reject, WriteFails, Commit, files, index
    <2>2. QED
      BY <1>0, <2>1, GapRelease DEF Outcome
  <1>5. ASSUME NEW t \in Thread, Write(t)
        PROVE  GapInv'
    <2>1. AllLines' = AllLines \cup {cur[t]}
      BY <1>0, <1>5, AppendAdds DEF Write
    <2>2. /\ pc[t] = "write" /\ pc'[t] = "mirror" /\ UNCHANGED <<cur, rows, outcome>>
          /\ \A u \in Thread : u # t => pc'[u] = pc[u]
      BY <1>5 DEF Write, Goto, TypeOK, index
    <2>3. \A u \in Thread : u # t /\ pc[u] # "idle" => cur[u].id # cur[t].id
      BY <1>0, <2>2 DEF IdInv
    <2>4. /\ cur[t].id \in DOMAIN outcome /\ outcome[cur[t].id] = "pending"
          /\ \A l \in AllLines : l.id # cur[t].id
      BY <1>0, <2>2 DEF IdInv, GapInv, LineIdInv, AnswerInv, Ids
    <2>5. LineIdInv'
      <3>1. Ids(AllLines') = Ids(AllLines) \cup {cur[t].id}
        BY <2>1 DEF Ids
      <3>2. \A u \in Thread : pc'[u] \notin {"idle", "mirror", "commit"} =>
               cur[u].id \notin Ids(AllLines')
        BY <2>2, <2>3, <3>1 DEF GapInv, LineIdInv
      <3>3. \A u \in Thread : pc'[u] \in {"mirror", "commit"} =>
               /\ cur[u] \in AllLines'
               /\ \A l \in AllLines' : l.id = cur[u].id => l = cur[u]
        BY <2>1, <2>2, <2>3, <2>4 DEF GapInv, LineIdInv
      <3>4. Ids(AllLines') \subseteq DOMAIN outcome
        BY <2>4, <3>1 DEF GapInv, LineIdInv
      <3>5. QED
        BY <2>2, <3>2, <3>3, <3>4 DEF LineIdInv, Ids
    <2>6. AnswerInv'
      BY <2>2 DEF GapInv, AnswerInv
    <2>7. IndexGapExplained'
      BY <2>1, <2>2, <2>4 DEF GapInv, IndexGapExplained
    <2>8. QED
      BY <2>5, <2>6, <2>7 DEF GapInv
  <1>6. ASSUME NEW t \in Thread, Mirror(t)
        PROVE  GapInv'
    <2>1. /\ pc[t] = "mirror" /\ pc'[t] = "commit" /\ UNCHANGED <<cur, outcome>>
          /\ rows' = rows \cup {cur[t]}
          /\ \A u \in Thread : u # t => pc'[u] = pc[u]
      BY <1>6 DEF Mirror, Goto, TypeOK
    <2>2. UNCHANGED AllLines
      BY <1>1, <1>6 DEF Mirror, files
    <2>3. LineIdInv'
      BY <2>1, <2>2 DEF GapInv, LineIdInv, Ids
    <2>4. AnswerInv'
      BY <2>1 DEF GapInv, AnswerInv
    <2>5. IndexGapExplained'
      BY <2>1, <2>2 DEF GapInv, LineIdInv, IndexGapExplained
    <2>6. QED
      BY <2>3, <2>4, <2>5 DEF GapInv
  <1>7. CASE Crash
    <2>1. /\ \A t \in Thread : pc'[t] = "idle"
          /\ DOMAIN outcome' = DOMAIN outcome
          /\ \A i \in DOMAIN outcome :
                outcome[i] \in {"pending", "crashed"} => outcome'[i] = "crashed"
          /\ UNCHANGED rows
      BY <1>7 DEF Crash, Restart
    <2>2. UNCHANGED AllLines
      BY <1>1, <1>7 DEF Crash, files
    <2>3. LineIdInv' /\ AnswerInv'
      BY <2>1, <2>2 DEF GapInv, LineIdInv, AnswerInv, Ids
    <2>4. IndexGapExplained'
      BY <2>1, <2>2 DEF GapInv, LineIdInv, IndexGapExplained, Ids
    <2>5. QED
      BY <2>3, <2>4 DEF GapInv
  <1>8. CASE UNCHANGED vars
    BY <1>1, <1>8, GapFrame DEF vars, files, index
  <1>9. \A t \in Thread : ~MirrorFails(t) /\ ~FsyncFails(t) /\ ~TornWrite(t) /\ ~TornCrash(t)
    BY NoHiddenFaults
  <1>10. ~RebuildDrop /\ ~RebuildCreate /\ ~RebuildFill
    BY NoRebuild
  <1>11. QED
    BY <1>2, <1>3, <1>4, <1>5, <1>6, <1>7, <1>8, <1>9, <1>10 DEF Next, Step

\* R8: with write errors and crashes, and however the callers race, the index holds only
\* lines of the JSONL and lacks only those of a call that has not returned.
THEOREM GapSafe == ASSUME WholeAppends PROVE Spec => []IndexGapExplained
  <1>1. Init => TypeOK /\ ControlInv /\ GapInv
    <2> SUFFICES ASSUME Init PROVE TypeOK /\ ControlInv /\ GapInv
      OBVIOUS
    <2>1. AllLines = {}
      BY DEF Init, AllLines
    <2>2. GapInv
      BY <2>1, EmptyDict DEF Init, GapInv, LineIdInv, AnswerInv, IndexGapExplained, Ids
    <2>3. QED
      BY <2>2, TypeInit, ControlInit
  <1>2. TypeOK /\ ControlInv /\ GapInv /\ [Next]_vars => (TypeOK /\ ControlInv /\ GapInv)'
    BY TypeStep, ControlStep, GapStep
  <1>3. GapInv => IndexGapExplained
    BY DEF GapInv
  <1>4. QED
    BY <1>1, <1>2, <1>3, PTL DEF Spec

\* A thread that keeps its sequence id, and moves within a call or leaves it, keeps ids
\* apart.
LEMMA SeqFrame ==
    ASSUME TypeOK, SeqInv, rebuild' = "none", UNCHANGED <<rows, counter>>,
           \A u \in Thread :
              \/ pc'[u] = "idle"
              \/ /\ pc[u] # "idle" /\ cur'[u].seq = cur[u].seq
                 /\ pc'[u] = "commit" <=> pc[u] = "commit"
    PROVE  SeqInv'
  BY DEF SeqInv, IndexSeqUnique

\* A new process counts on from the largest id in the index.
LEMMA SeqRestart == ASSUME TypeOK, SeqInv, Restart PROVE SeqInv'
  BY DEF Restart, SeedFloor, SeqInv, IndexSeqUnique

LEMMA SeqStep ==
    ASSUME "rebuild" \notin Faults, TypeOK, SeqInv, [Next]_vars
    PROVE  SeqInv'
  <1>1. ASSUME NEW t \in Thread, NEW id \in RecordId, NEW ts \in Time, Begin(t, id, ts)
        PROVE  SeqInv'
    <2>1. /\ cur'[t].seq = counter + 1 /\ counter' = counter + 1
          /\ pc'[t] \in {"peek", "lock"}
          /\ \A u \in Thread : u # t => pc'[u] = pc[u] /\ cur'[u] = cur[u]
          /\ UNCHANGED <<rows, rebuild>>
      BY <1>1 DEF Begin, Goto, TypeOK, Fresh, index
    <2>2. /\ counter \in Nat /\ \A r \in rows : r.seq \in Nat
          /\ \A u \in Thread : cur[u].seq \in Nat
      BY DEF TypeOK, Line
    <2>3. QED
      BY <2>1, <2>2 DEF SeqInv, IndexSeqUnique
  <1>2. ASSUME NEW t \in Thread,
               \/ Refuse(t) \/ Reject(t) \/ WriteFails(t) \/ FsyncFails(t)
               \/ TornWrite(t) \/ MirrorFails(t) \/ Commit(t)
        PROVE  SeqInv'
    <2>1. /\ Release(t, "error") \/ Release(t, "rejected") \/ Release(t, "ok")
          /\ UNCHANGED <<rows, rebuild, counter>>
      BY <1>2
      DEF Refuse, Reject, WriteFails, FsyncFails, TornWrite, MirrorFails, Commit, index
    <2>2. /\ pc'[t] = "idle"
          /\ \A u \in Thread : u # t => pc'[u] = pc[u] /\ cur'[u] = cur[u]
      BY <2>1 DEF Release, Goto, TypeOK
    <2>3. QED
      BY <2>1, <2>2, SeqFrame DEF SeqInv
  <1>3. ASSUME NEW t \in Thread,
               Peek(t) \/ Poke(t) \/ Acquire(t) \/ Chain(t) \/ Write(t)
        PROVE  SeqInv'
    <2>1. UNCHANGED <<rows, rebuild, counter>>
      BY <1>3 DEF Peek, Poke, Acquire, Chain, Write, index
    <2>2. /\ pc[t] \notin {"idle", "commit"} /\ pc'[t] \notin {"idle", "commit"}
          /\ cur'[t].seq = cur[t].seq
          /\ \A u \in Thread : u # t => pc'[u] = pc[u] /\ cur'[u] = cur[u]
      <3>1. CASE Peek(t)
        BY <3>1 DEF Peek, Goto, TypeOK, Line
      <3>2. CASE Poke(t) \/ Acquire(t) \/ Write(t)
        BY <3>2 DEF Poke, Acquire, Write, Goto, TypeOK
      <3>3. CASE Chain(t)
        BY <3>3 DEF Chain, Goto, TypeOK, Line
      <3>4. QED
        BY <1>3, <3>1, <3>2, <3>3
    <2>3. QED
      BY <2>1, <2>2, SeqFrame DEF SeqInv
  <1>4. ASSUME NEW t \in Thread, Mirror(t)
        PROVE  SeqInv'
    <2>1. /\ pc[t] = "mirror" /\ pc'[t] = "commit" /\ rows' = rows \cup {cur[t]}
          /\ UNCHANGED <<cur, rebuild, counter>>
          /\ \A u \in Thread : u # t => pc'[u] = pc[u]
      BY <1>4 DEF Mirror, Goto, TypeOK
    <2>2. QED
      BY <2>1 DEF SeqInv, IndexSeqUnique
  <1>5. Crash \/ (\E t \in Thread : TornCrash(t)) => Restart
    BY DEF Crash, TornCrash
  <1>6. ~RebuildDrop /\ ~RebuildCreate /\ ~RebuildFill
    BY DEF SeqInv, RebuildDrop, RebuildCreate, RebuildFill
  <1>7. CASE UNCHANGED vars
    BY <1>7, SeqFrame DEF SeqInv, vars, index
  <1>8. QED
    BY <1>1, <1>2, <1>3, <1>4, <1>5, <1>6, <1>7, SeqRestart DEF Next, Step

\* S7: unless the index is being rebuilt, no two of its rows share a sequence id, whatever
\* writes fail, and across restarts.
THEOREM SeqSafe == ASSUME "rebuild" \notin Faults PROVE Spec => []IndexSeqUnique
  <1>1. Init => TypeOK /\ SeqInv
    <2>1. Init => SeqInv
      BY DEF Init, SeqInv, IndexSeqUnique
    <2>2. QED
      BY <2>1, TypeInit
  <1>2. TypeOK /\ SeqInv /\ [Next]_vars => (TypeOK /\ SeqInv)'
    BY TypeStep, SeqStep
  <1>3. SeqInv => IndexSeqUnique
    BY DEF SeqInv
  <1>4. QED
    BY <1>1, <1>2, <1>3, PTL DEF Spec

-----------------------------------------------------------------------------
(***************************************************************************)
(* Files and caches: the day chains never fork and never run back in time  *)
(* (IInv), in any sheltered deployment.                                    *)
(***************************************************************************)

\* A verified chain extended by a record linked to its tip is a verified chain.
LEMMA AppendVerifies ==
    ASSUME NEW s \in Seq(Line), NEW e \in Line, Verifies(s),
           e.prev = IF s = << >> THEN Genesis ELSE s[Len(s)].chain,
           e.chain = Hash(e.prev, e.id)
    PROVE  Verifies(Append(s, e))
  <1>1. /\ Len(Append(s, e)) = Len(s) + 1 /\ Len(s) \in Nat
        /\ \A i \in 1..Len(s) : Append(s, e)[i] = s[i]
        /\ Append(s, e)[Len(s) + 1] = e
        /\ s = << >> <=> Len(s) = 0
    OBVIOUS
  <1>2. SUFFICES ASSUME NEW i \in 1..(Len(s) + 1)
                 PROVE  /\ Append(s, e)[i].prev =
                             IF i = 1 THEN Genesis ELSE Append(s, e)[i - 1].chain
                        /\ Append(s, e)[i].chain =
                             Hash(Append(s, e)[i].prev, Append(s, e)[i].id)
    BY <1>1 DEF Verifies
  <1>3. CASE i = Len(s) + 1
    BY <1>1, <1>3
  <1>4. CASE i \in 1..Len(s)
    BY <1>1, <1>4 DEF Verifies
  <1>5. QED
    BY <1>1, <1>3, <1>4

\* A day ordered in time, extended by a record not older than its last, is ordered.
LEMMA AppendMonotone ==
    ASSUME NEW s \in Seq(Line), NEW e \in Line,
           \A i \in 2..Len(s) : s[i - 1].ts <= s[i].ts,
           s # << >> => s[Len(s)].ts <= e.ts
    PROVE  \A i \in 2..Len(Append(s, e)) : Append(s, e)[i - 1].ts <= Append(s, e)[i].ts
  <1>1. /\ Len(Append(s, e)) = Len(s) + 1 /\ Len(s) \in Nat
        /\ \A i \in 1..Len(s) : Append(s, e)[i] = s[i]
        /\ Append(s, e)[Len(s) + 1] = e
        /\ s = << >> <=> Len(s) = 0
    OBVIOUS
  <1>2. SUFFICES ASSUME NEW i \in 2..(Len(s) + 1)
                 PROVE  Append(s, e)[i - 1].ts <= Append(s, e)[i].ts
    BY <1>1
  <1>3. CASE i = Len(s) + 1
    BY <1>1, <1>3
  <1>4. CASE i \in 2..Len(s)
    BY <1>1, <1>4
  <1>5. QED
    BY <1>1, <1>3, <1>4

DataInv == CacheCoherent /\ CarryInv /\ ChainIntact /\ TimesMonotone

\* A step that leaves files and caches alone, and the threads that are past the check,
\* keeps what is known of the data.
LEMMA DataFrame ==
    ASSUME TypeOK, DataInv, UNCHANGED <<lines, hashCache, tsCache>>,
           \A u \in Thread :
              pc'[u] \in {"poke", "write", "mirror", "commit"} =>
                pc'[u] = pc[u] /\ cur'[u] = cur[u],
           \A u \in Thread :
              pc[u] \in {"mirror", "commit"} => pc'[u] = pc[u] /\ cur'[u] = cur[u]
    PROVE  DataInv'
  <1>1. \A u \in Thread : cur'[u] = cur[u] => DayFor(u)' = DayFor(u)
    BY DEF DayFor
  <1>2. \A d \in Day : Trailing(d)' <=> Trailing(d)
    BY <1>1 DEF Trailing
  <1>3. CacheCoherent'
    BY <1>2 DEF DataInv, CacheCoherent, LastChain, LastLine
  <1>4. CarryInv'
    BY <1>1 DEF DataInv, CarryInv, LastChain, LastLine
  <1>5. ChainIntact' /\ TimesMonotone'
    BY DEF DataInv, ChainIntact, TimesMonotone, Verifies
  <1>6. QED
    BY <1>3, <1>4, <1>5 DEF DataInv

\* With t inside the lock and not past the write, every cached value is current.
LEMMA CachesCurrent ==
    ASSUME TypeOK, ControlInv, DataInv, NEW t \in Thread, pc[t] \in {"chain", "write"},
           NEW d \in Day
    PROVE  /\ ~Trailing(d)
           /\ PrevFor(d) = LastChain(d)
           /\ LastTimeFor(d) = IF lines[d] = << >> THEN 0 ELSE LastLine(d).ts
  <1>1. ~Trailing(d)
    BY DEF ControlInv, LockInv, Inside, Trailing
  <1>2. QED
    BY <1>1 DEF DataInv, CacheCoherent, PrevFor, LastTimeFor, LastLine

\* Reading the caches, inside the lock, makes them no less current.
LEMMA ReadCachesCoherent ==
    ASSUME TypeOK, ControlInv, DataInv, NEW t \in Thread, pc[t] = "chain", ReadCaches(t),
           UNCHANGED lines
    PROVE  CacheCoherent'
  <1> DEFINE b == DayFor(t)
  <1>1. b \in Day
    BY DayForType
  <1>2. hashCache' = Put(hashCache, b, LastChain(b))
    BY <1>1, CachesCurrent DEF ReadCaches
  <1>3. tsCache' = IF lines[b] = << >> THEN tsCache ELSE Put(tsCache, b, LastLine(b).ts)
    BY <1>1, CachesCurrent DEF ReadCaches
  <1>4. SUFFICES ASSUME NEW d \in Day
                 PROVE  /\ d \in DOMAIN hashCache' => hashCache'[d] = LastChain(d)
                        /\ d \in DOMAIN tsCache' =>
                             lines[d] # << >> /\ tsCache'[d] = LastLine(d).ts
    BY DEF CacheCoherent, LastChain, LastLine
  <1>5. /\ d \in DOMAIN hashCache => hashCache[d] = LastChain(d)
        /\ d \in DOMAIN tsCache => lines[d] # << >> /\ tsCache[d] = LastLine(d).ts
    BY CachesCurrent DEF DataInv, CacheCoherent
  <1>6. QED
    BY <1>2, <1>3, <1>5 DEF Put

\* A thread outside the lock that fills the cache excludes any other thread inside it.
LEMMA PokeAlone ==
    ASSUME Sheltered, ControlInv, NEW t \in Thread, NEW u \in Thread, t # u,
           pc[u] \in {"peek", "poke"}
    PROVE  pc[t] = "idle" /\ Serialized
  BY DEF Sheltered, ControlInv, LockInv

\* Returning from a call that left no line behind keeps what the other threads carry.
LEMMA ReleaseCarry ==
    ASSUME TypeOK, ControlInv, DataInv, NEW t \in Thread, NEW result \in Outcome,
           Release(t, result), UNCHANGED lines
    PROVE  CarryInv'
  <1>1. /\ pc' = [pc EXCEPT ![t] = "idle"]
        /\ cur' = [cur EXCEPT ![t] = Blank]
    BY DEF Release, Goto
  <1>2. SUFFICES ASSUME NEW u \in Thread, u # t
                 PROVE  pc'[u] = pc[u] /\ cur'[u] = cur[u] /\ DayFor(u)' = DayFor(u)
    <2>1. pc'[t] = "idle"
      BY <1>1 DEF TypeOK
    <2>2. QED
      BY <1>2, <2>1 DEF DataInv, CarryInv, LastChain, LastLine
  <1>3. QED
    BY <1>1, <1>2 DEF TypeOK, DayFor

\* Every step of a sheltered deployment keeps files, caches and threads in agreement.
LEMMA DataStep ==
    ASSUME Sheltered, TypeOK, ControlInv, DataInv, [Next]_vars
    PROVE  DataInv'
  <1>1. ASSUME NEW t \in Thread, NEW id \in RecordId, NEW ts \in Time, Begin(t, id, ts)
        PROVE  DataInv'
    <2>1. /\ pc[t] = "idle"
          /\ pc' = [pc EXCEPT ![t] = IF t \in Facade THEN "peek" ELSE "lock"]
          /\ cur' = [cur EXCEPT ![t] = Fresh(id, ts, counter + 1)]
          /\ UNCHANGED <<lines, hashCache, tsCache>>
      BY <1>1 DEF Begin, Goto, files, caches
    <2>2. QED
      BY <2>1, DataFrame DEF TypeOK
  <1>2. ASSUME NEW t \in Thread, Peek(t)
        PROVE  DataInv'
    <2>1. UNCHANGED <<lines, hashCache, tsCache>> /\ pc[t] = "peek"
      BY <1>2 DEF Peek, files, caches
    <2>2. CASE DayFor(t) \in DOMAIN hashCache
      <3>1. cur' = cur /\ pc' = [pc EXCEPT ![t] = "lock"]
        BY <1>2, <2>2 DEF Peek, Goto
      <3>2. QED
        BY <2>1, <3>1, DataFrame DEF TypeOK
    <2>3. CASE DayFor(t) \notin DOMAIN hashCache
      <3>1. /\ pc' = [pc EXCEPT ![t] = "poke"]
            /\ cur' = [cur EXCEPT ![t] = [cur[t] EXCEPT !.prev = LastChain(DayFor(t))]]
        BY <1>2, <2>3 DEF Peek, Goto
      <3>2. \A u \in Thread : cur'[u].ts = cur[u].ts
        BY <3>1 DEF TypeOK, Line
      <3>3. \A u \in Thread : DayFor(u)' = DayFor(u)
        BY <3>2 DEF DayFor
      <3>4. cur'[t].prev = LastChain(DayFor(t))
        BY <3>1 DEF TypeOK, Line
      <3>5. \A d \in Day : Trailing(d)' <=> Trailing(d)
        BY <2>1, <3>1, <3>3 DEF Trailing, TypeOK
      <3>6. CacheCoherent'
        BY <2>1, <3>5 DEF DataInv, CacheCoherent, LastChain, LastLine
      <3>7. CarryInv'
        <4>1. SUFFICES ASSUME NEW u \in Thread
                       PROVE  LET d == DayFor(u)
                              IN  /\ pc'[u] = "poke" => cur'[u].prev = LastChain(d)
                                  /\ pc'[u] = "write" =>
                                       /\ cur'[u].prev = LastChain(d)
                                       /\ cur'[u].chain = Hash(cur'[u].prev, cur'[u].id)
                                       /\ lines[d] # << >> => LastLine(d).ts <= cur'[u].ts
                                  /\ pc'[u] \in {"mirror", "commit"} =>
                                       lines[d] # << >> /\ LastLine(d) = cur'[u]
          BY <2>1, <3>3 DEF CarryInv, LastChain, LastLine
        <4>2. CASE u = t
          BY <3>1, <3>4, <4>2 DEF TypeOK
        <4>3. CASE u # t
          BY <3>1, <4>3 DEF TypeOK, DataInv, CarryInv
        <4>4. QED
          BY <4>2, <4>3
      <3>8. ChainIntact' /\ TimesMonotone'
        BY <2>1 DEF DataInv, ChainIntact, TimesMonotone, Verifies
      <3>9. QED
        BY <3>6, <3>7, <3>8 DEF DataInv
    <2>4. QED
      BY <2>2, <2>3
  <1>3. ASSUME NEW t \in Thread, Poke(t)
        PROVE  DataInv'
    <2>1. /\ pc[t] = "poke" /\ pc' = [pc EXCEPT ![t] = "lock"]
          /\ hashCache' = Put(hashCache, DayFor(t), cur[t].prev)
          /\ UNCHANGED <<lines, tsCache, cur>>
      BY <1>3 DEF Poke, Goto, files
    <2>2. cur[t].prev = LastChain(DayFor(t))
      BY <2>1 DEF DataInv, CarryInv
    <2>3. \A u \in Thread : DayFor(u)' = DayFor(u)
      BY <2>1 DEF DayFor
    <2>4. \A d \in Day : Trailing(d)' <=> Trailing(d)
      BY <2>1, <2>3 DEF Trailing, TypeOK
    <2>5. CacheCoherent'
      BY <2>1, <2>2, <2>4 DEF DataInv, CacheCoherent, LastChain, LastLine, Put
    <2>6. CarryInv'
      BY <2>1, <2>3 DEF DataInv, CarryInv, LastChain, LastLine, TypeOK
    <2>7. ChainIntact' /\ TimesMonotone'
      BY <2>1 DEF DataInv, ChainIntact, TimesMonotone, Verifies
    <2>8. QED
      BY <2>5, <2>6, <2>7 DEF DataInv
  <1>4. ASSUME NEW t \in Thread, Acquire(t)
        PROVE  DataInv'
    <2>1. /\ pc[t] = "lock" /\ pc' = [pc EXCEPT ![t] = "chain"]
          /\ UNCHANGED <<cur, lines, hashCache, tsCache>>
      BY <1>4 DEF Acquire, Goto, files, caches
    <2>2. QED
      BY <2>1, DataFrame DEF TypeOK
  <1>5. ASSUME NEW t \in Thread, Chain(t)
        PROVE  DataInv'
    <2> DEFINE b == DayFor(t)
    <2>1. /\ pc[t] = "chain" /\ pc' = [pc EXCEPT ![t] = "write"]
          /\ LastTimeFor(b) <= cur[t].ts
          /\ ReadCaches(t) /\ UNCHANGED lines
      BY <1>5 DEF Chain, Goto, files
    <2>2. /\ PrevFor(b) = LastChain(b)
          /\ LastTimeFor(b) = IF lines[b] = << >> THEN 0 ELSE LastLine(b).ts
      BY <2>1, DayForType, CachesCurrent
    <2>3. cur' = [cur EXCEPT ![t] = [cur[t] EXCEPT !.prev = LastChain(b),
                                                  !.chain = Hash(LastChain(b), cur[t].id)]]
      BY <1>5, <2>2 DEF Chain
    <2>4. /\ cur'[t].prev = LastChain(b)
          /\ cur'[t].chain = Hash(LastChain(b), cur[t].id)
          /\ cur'[t].id = cur[t].id
          /\ cur'[t].ts = cur[t].ts
          /\ \A u \in Thread : u # t => cur'[u] = cur[u]
      BY <2>3 DEF TypeOK, Line
    <2>5. \A u \in Thread : DayFor(u)' = DayFor(u)
      BY <2>4 DEF DayFor
    <2>6. CacheCoherent'
      BY <2>1, ReadCachesCoherent
    <2>7. CarryInv'
      <3>1. SUFFICES ASSUME NEW u \in Thread
                     PROVE  LET d == DayFor(u)
                            IN  /\ pc'[u] = "poke" => cur'[u].prev = LastChain(d)
                                /\ pc'[u] = "write" =>
                                     /\ cur'[u].prev = LastChain(d)
                                     /\ cur'[u].chain = Hash(cur'[u].prev, cur'[u].id)
                                     /\ lines[d] # << >> => LastLine(d).ts <= cur'[u].ts
                                /\ pc'[u] \in {"mirror", "commit"} =>
                                     lines[d] # << >> /\ LastLine(d) = cur'[u]
        BY <2>1, <2>5 DEF CarryInv, LastChain, LastLine
      <3>2. CASE u = t
        BY <2>1, <2>2, <2>4, <3>2 DEF TypeOK
      <3>3. CASE u # t
        BY <2>1, <2>4, <3>3 DEF TypeOK, DataInv, CarryInv
      <3>4. QED
        BY <3>2, <3>3
    <2>8. ChainIntact' /\ TimesMonotone'
      BY <2>1 DEF DataInv, ChainIntact, TimesMonotone, Verifies
    <2>9. QED
      BY <2>6, <2>7, <2>8 DEF DataInv
  <1>6. ASSUME NEW t \in Thread, Reject(t)
        PROVE  DataInv'
    <2>1. pc[t] = "chain" /\ ReadCaches(t) /\ Release(t, "rejected") /\ UNCHANGED lines
      BY <1>6 DEF Reject, files
    <2>2. CacheCoherent'
      BY <2>1, ReadCachesCoherent
    <2>3. CarryInv'
      BY <2>1, ReleaseCarry DEF Outcome
    <2>4. ChainIntact' /\ TimesMonotone'
      BY <2>1 DEF DataInv, ChainIntact, TimesMonotone, Verifies
    <2>5. QED
      BY <2>2, <2>3, <2>4 DEF DataInv
  <1>7. ASSUME NEW t \in Thread, Write(t)
        PROVE  DataInv'
    <2> DEFINE b == DayFor(t)
    <2>1. /\ pc[t] = "write" /\ pc' = [pc EXCEPT ![t] = "mirror"]
          /\ lines' = [lines EXCEPT ![b] = Append(lines[b], cur[t])]
          /\ UNCHANGED <<cur, hashCache, tsCache>>
      BY <1>7 DEF Write, Goto, AppendLine, caches, ControlInv, FaultInv
    <2>2. b \in Day /\ lines[b] \in Seq(Line) /\ cur[t] \in Line
      BY DayForType DEF TypeOK
    <2>3. /\ cur[t].prev = IF lines[b] = << >> THEN Genesis ELSE lines[b][Len(lines[b])].chain
          /\ cur[t].chain = Hash(cur[t].prev, cur[t].id)
          /\ lines[b] # << >> => lines[b][Len(lines[b])].ts <= cur[t].ts
      BY <2>1 DEF DataInv, CarryInv, LastChain, LastLine
    <2>4. /\ lines'[b] = Append(lines[b], cur[t])
          /\ \A d \in Day : d # b => lines'[d] = lines[d]
      BY <2>1, <2>2 DEF TypeOK
    <2>5. /\ lines'[b] # << >>
          /\ lines'[b][Len(lines'[b])] = cur[t]
      BY <2>2, <2>4
    <2>6. \A u \in Thread : DayFor(u)' = DayFor(u)
      BY <2>1 DEF DayFor
    <2>7. \A u \in Thread : u # t => pc'[u] = pc[u] /\ pc'[u] \notin Inside \cup {"poke"}
      <3>1. \A u \in Thread : u # t => pc'[u] = pc[u]
        BY <2>1 DEF TypeOK
      <3>2. \A u \in Thread : u # t => pc[u] \notin Inside
        BY <2>1 DEF ControlInv, LockInv, Inside
      <3>3. \A u \in Thread : u # t => pc[u] # "poke"
        BY <2>1, PokeAlone
      <3>4. QED
        BY <3>1, <3>2, <3>3
    <2>8. CacheCoherent'
      <3>1. \A d \in Day : d = b => Trailing(d)'
        BY <2>1, <2>6 DEF Trailing, TypeOK
      <3>2. ASSUME NEW d \in Day, d # b
            PROVE  /\ d \in DOMAIN hashCache => hashCache[d] = LastChain(d)
                   /\ d \in DOMAIN tsCache => lines[d] # << >> /\ tsCache[d] = LastLine(d).ts
        BY <2>1, CachesCurrent DEF DataInv, CacheCoherent
      <3>3. ASSUME NEW d \in Day, d # b
            PROVE  LastChain(d)' = LastChain(d) /\ LastLine(d)' = LastLine(d)
        BY <2>4, <3>3 DEF LastChain, LastLine
      <3>4. SUFFICES ASSUME NEW d \in Day, ~Trailing(d)'
                     PROVE  /\ d \in DOMAIN hashCache' => hashCache'[d] = LastChain(d)'
                            /\ d \in DOMAIN tsCache' =>
                                 lines'[d] # << >> /\ tsCache'[d] = LastLine(d)'.ts
        BY DEF CacheCoherent
      <3>5. d # b
        BY <3>1, <3>4
      <3>6. QED
        BY <2>1, <2>4, <3>2, <3>3, <3>5
    <2>9. CarryInv'
      <3>1. ASSUME NEW u \in Thread, u # t
            PROVE  pc'[u] \notin {"poke", "write", "mirror", "commit"}
        BY <2>7, <3>1 DEF Inside
      <3>2. /\ pc'[t] = "mirror"
            /\ (lines[DayFor(t)])' # << >> /\ LastLine(DayFor(t))' = cur'[t]
        BY <2>1, <2>5, <2>6 DEF TypeOK, LastLine
      <3>3. QED
        BY <3>1, <3>2 DEF CarryInv
    <2>10. ChainIntact'
      <3>1. Verifies(lines[b])
        BY <2>2 DEF DataInv, ChainIntact
      <3>2. Verifies(Append(lines[b], cur[t]))
        BY <2>2, <2>3, <3>1, AppendVerifies
      <3>3. \A d \in Day : Verifies(lines'[d])
        BY <2>4, <3>2 DEF DataInv, ChainIntact
      <3>4. QED
        BY <3>3 DEF ChainIntact, Verifies
    <2>11. TimesMonotone'
      <3>1. \A i \in 2..Len(lines[b]) : lines[b][i - 1].ts <= lines[b][i].ts
        BY <2>2 DEF DataInv, TimesMonotone
      <3>2. \A i \in 2..Len(lines'[b]) : lines'[b][i - 1].ts <= lines'[b][i].ts
        BY <2>2, <2>3, <2>4, <3>1, AppendMonotone
      <3>3. QED
        BY <2>4, <3>2 DEF DataInv, TimesMonotone
    <2>12. QED
      BY <2>8, <2>9, <2>10, <2>11 DEF DataInv
  <1>8. ASSUME NEW t \in Thread, Refuse(t) \/ WriteFails(t)
        PROVE  DataInv'
    <2>1. /\ pc[t] \in {"chain", "write"} /\ pc' = [pc EXCEPT ![t] = "idle"]
          /\ cur' = [cur EXCEPT ![t] = Blank]
          /\ UNCHANGED <<lines, hashCache, tsCache>>
      BY <1>8 DEF Refuse, WriteFails, Release, Goto, files, caches
    <2>2. QED
      BY <2>1, DataFrame DEF TypeOK
  <1>9. ASSUME NEW t \in Thread, Mirror(t)
        PROVE  DataInv'
    <2>1. /\ pc[t] = "mirror" /\ pc' = [pc EXCEPT ![t] = "commit"]
          /\ UNCHANGED <<cur, lines, hashCache, tsCache>>
      BY <1>9 DEF Mirror, Goto, files, caches
    <2>2. \A u \in Thread : DayFor(u)' = DayFor(u)
      BY <2>1 DEF DayFor
    <2>3. \A d \in Day : Trailing(d)' <=> Trailing(d)
      BY <2>1, <2>2 DEF Trailing, TypeOK
    <2>4. CacheCoherent'
      BY <2>1, <2>3 DEF DataInv, CacheCoherent, LastChain, LastLine
    <2>5. CarryInv'
      BY <2>1, <2>2 DEF DataInv, CarryInv, LastChain, LastLine, TypeOK
    <2>6. ChainIntact' /\ TimesMonotone'
      BY <2>1 DEF DataInv, ChainIntact, TimesMonotone, Verifies
    <2>7. QED
      BY <2>4, <2>5, <2>6 DEF DataInv
  <1>10. ASSUME NEW t \in Thread, Commit(t)
         PROVE  DataInv'
    <2> DEFINE b == DayFor(t)
    <2>1. /\ pc[t] = "commit"
          /\ hashCache' = Put(hashCache, b, cur[t].chain)
          /\ tsCache' = Put(tsCache, b, cur[t].ts)
          /\ Release(t, "ok") /\ UNCHANGED lines
      BY <1>10 DEF Commit, files
    <2>2. lines[b] # << >> /\ LastLine(b) = cur[t] /\ LastChain(b) = cur[t].chain
      BY <2>1 DEF DataInv, CarryInv, LastChain, LastLine
    <2>3. ASSUME NEW d \in Day, d # b
          PROVE  ~Trailing(d)
      BY <2>1, <2>3 DEF ControlInv, LockInv, Inside, Trailing
    <2>4. CacheCoherent'
      <3>1. SUFFICES ASSUME NEW d \in Day
                     PROVE  /\ d \in DOMAIN hashCache' => hashCache'[d] = LastChain(d)
                            /\ d \in DOMAIN tsCache' =>
                                 lines[d] # << >> /\ tsCache'[d] = LastLine(d).ts
        BY <2>1 DEF CacheCoherent, LastChain, LastLine
      <3>2. CASE d = b
        BY <2>1, <2>2, <3>2 DEF Put
      <3>3. CASE d # b
        BY <2>1, <2>3, <3>3 DEF Put, DataInv, CacheCoherent
      <3>4. QED
        BY <3>2, <3>3
    <2>5. CarryInv'
      BY <2>1, ReleaseCarry DEF Outcome
    <2>6. ChainIntact' /\ TimesMonotone'
      BY <2>1 DEF DataInv, ChainIntact, TimesMonotone, Verifies
    <2>7. QED
      BY <2>4, <2>5, <2>6 DEF DataInv
  <1>11. \A t \in Thread : ~MirrorFails(t) /\ ~FsyncFails(t) /\ ~TornWrite(t) /\ ~TornCrash(t)
    BY NoHiddenFaults DEF Sheltered
  <1>12. ~RebuildDrop /\ ~RebuildCreate /\ ~RebuildFill
    BY NoRebuild DEF Sheltered
  <1>13. CASE Crash
    <2>1. /\ \A t \in Thread : pc'[t] = "idle"
          /\ DOMAIN hashCache' = {} /\ DOMAIN tsCache' = {}
          /\ UNCHANGED lines
      BY <1>13, EmptyDict DEF Crash, Restart, files
    <2>2. CacheCoherent' /\ CarryInv'
      BY <2>1 DEF CacheCoherent, CarryInv
    <2>3. ChainIntact' /\ TimesMonotone'
      BY <2>1 DEF DataInv, ChainIntact, TimesMonotone, Verifies
    <2>4. QED
      BY <2>2, <2>3 DEF DataInv
  <1>14. CASE UNCHANGED vars
    <2>1. UNCHANGED <<pc, cur, lines, hashCache, tsCache>>
      BY <1>14 DEF vars, files, caches
    <2>2. QED
      BY <2>1, DataFrame
  <1>15. QED
    BY <1>1, <1>2, <1>3, <1>4, <1>5, <1>6, <1>7, <1>8, <1>9, <1>10, <1>11, <1>12, <1>13,
       <1>14
    DEF Next, Step

\* The inductive invariant holds in every sheltered deployment.
THEOREM Inductive == ASSUME Sheltered PROVE Spec => []IInv
  <1>1. Init => TypeOK /\ ControlInv /\ DataInv
    <2> SUFFICES ASSUME Init PROVE TypeOK /\ ControlInv /\ DataInv
      OBVIOUS
    <2>1. TypeOK
      BY TypeInit
    <2>2. CacheCoherent /\ CarryInv
      BY EmptyDict DEF Init, CacheCoherent, CarryInv
    <2>3. ChainIntact /\ TimesMonotone
      BY DEF Init, ChainIntact, TimesMonotone, Verifies
    <2>4. QED
      BY <2>1, <2>2, <2>3, ControlInit DEF DataInv
  <1>2. TypeOK /\ ControlInv /\ DataInv /\ [Next]_vars => (TypeOK /\ ControlInv /\ DataInv)'
    BY TypeStep, ControlStep, DataStep DEF Sheltered
  <1>3. TypeOK /\ ControlInv /\ DataInv => IInv
    BY DEF IInv, DataInv
  <1>4. QED
    BY <1>1, <1>2, <1>3, PTL DEF Spec

\* S1 for every number of threads, records and days: the chain of a day never forks.
THEOREM ChainSafe == ASSUME Sheltered PROVE Spec => []ChainIntact
  <1>1. IInv => ChainIntact
    BY DEF IInv
  <1>2. QED
    BY <1>1, Inductive, PTL

\* S5 likewise: a day file never runs back in time.
THEOREM TimesSafe == ASSUME Sheltered PROVE Spec => []TimesMonotone
  <1>1. IInv => TimesMonotone
    BY DEF IInv
  <1>2. QED
    BY <1>1, Inductive, PTL

-----------------------------------------------------------------------------
(***************************************************************************)
(* The write path implements the append-only log, in any sheltered         *)
(* deployment: the write of a line extends the log of its day, the return  *)
(* of append_record acknowledges the record, and every other step, a crash *)
(* included, leaves both alone.                                            *)
(***************************************************************************)
Acked == {i \in DOMAIN outcome : outcome[i] = "ok"}

\* A record that is being appended has not been answered yet.
PendingInv == \A t \in Thread : pc[t] # "idle" =>
    cur[t].id \in DOMAIN outcome /\ outcome[cur[t].id] = "pending"

\* A return answers one record, and the other threads' records stay pending.
LEMMA ReleasePending ==
    ASSUME TypeOK, ControlInv, PendingInv, NEW t \in Thread, pc[t] \in Inside,
           NEW result \in Outcome, Release(t, result)
    PROVE  /\ PendingInv'
           /\ Acked' = IF result = "ok" THEN Acked \cup {cur[t].id} ELSE Acked
  <1>1. /\ pc' = [pc EXCEPT ![t] = "idle"]
        /\ cur' = [cur EXCEPT ![t] = Blank]
        /\ outcome' = [outcome EXCEPT ![cur[t].id] = result]
        /\ pc[t] # "idle"
    BY DEF Release, Goto, Inside
  <1>2. cur[t].id \in DOMAIN outcome /\ outcome[cur[t].id] = "pending"
    BY <1>1 DEF PendingInv
  <1>3. PendingInv'
    <2>1. SUFFICES ASSUME NEW u \in Thread, pc'[u] # "idle"
                   PROVE  cur'[u].id \in DOMAIN outcome' /\ outcome'[cur'[u].id] = "pending"
      BY DEF PendingInv
    <2>2. u # t /\ pc[u] # "idle" /\ cur'[u] = cur[u]
      BY <1>1, <2>1 DEF TypeOK
    <2>3. cur[u].id # cur[t].id
      BY <1>1, <2>2 DEF ControlInv, IdInv
    <2>4. QED
      BY <1>1, <2>2, <2>3 DEF PendingInv
  <1>4. Acked' = IF result = "ok" THEN Acked \cup {cur[t].id} ELSE Acked
    BY <1>1, <1>2 DEF Acked
  <1>5. QED
    BY <1>3, <1>4

\* A step that answers nobody and starts no call.
LEMMA FramePending ==
    ASSUME PendingInv, UNCHANGED outcome,
           \A u \in Thread : pc'[u] # "idle" => pc[u] # "idle" /\ cur'[u].id = cur[u].id
    PROVE  PendingInv' /\ UNCHANGED Acked
  BY DEF PendingInv, Acked

\* The write of a line, linked and in order, is an Extend of the abstract log.
LEMMA WriteExtends ==
    ASSUME TypeOK, ControlInv, DataInv, NEW t \in Thread, Write(t), UNCHANGED Acked
    PROVE  Abstract!Extend(DayFor(t))
  <1> DEFINE b == DayFor(t)
  <1>1. b \in Day /\ lines[b] \in Seq(Line) /\ cur[t] \in Line /\ lines \in [Day -> Seq(Line)]
    BY DayForType DEF TypeOK
  <1>2. pc[t] = "write" /\ lines' = [lines EXCEPT ![b] = Append(lines[b], cur[t])]
    BY DEF Write, AppendLine, ControlInv, FaultInv
  <1>3. /\ cur[t].prev = LastChain(b)
        /\ cur[t].chain = Hash(cur[t].prev, cur[t].id)
        /\ lines[b] # << >> => LastLine(b).ts <= cur[t].ts
    BY <1>2 DEF DataInv, CarryInv
  <1>4. Abstract!Follows(lines[b], cur[t])
    BY <1>3 DEF Abstract!Follows, Abstract!Tip, Abstract!Genesis, Abstract!Hash,
                LastChain, LastLine, Genesis, Hash
  <1>5. /\ Len(lines'[b]) = Len(lines[b]) + 1
        /\ lines'[b][Len(lines[b]) + 1] = cur[t]
    BY <1>1, <1>2
  <1>6. QED
    BY <1>2, <1>4, <1>5 DEF Abstract!Extend, Acked

\* The return of append_record is an Acknowledge: the file holds the record.
LEMMA CommitAcknowledges ==
    ASSUME TypeOK, DataInv, NEW t \in Thread, Commit(t),
           NEW id \in RecordId, id = cur[t].id, Acked' = Acked \cup {id}
    PROVE  Abstract!Acknowledge(id)
  <1> DEFINE b == DayFor(t)
  <1>1. b \in Day /\ lines[b] \in Seq(Line)
    BY DayForType DEF TypeOK
  <1>2. lines[b] # << >> /\ LastLine(b) = cur[t]
    BY DEF Commit, DataInv, CarryInv
  <1>3. Len(lines[b]) \in 1..Len(lines[b]) /\ lines[b][Len(lines[b])].id = id
    BY <1>1, <1>2 DEF LastLine
  <1>4. Abstract!Holds(id)
    BY <1>1, <1>3 DEF Abstract!Holds
  <1>5. QED
    BY <1>4 DEF Commit, files, Acked, Abstract!Acknowledge

\* Every step is a step of the abstract log or leaves it alone.
LEMMA RefineStep ==
    ASSUME Sheltered, TypeOK, ControlInv, DataInv, PendingInv, [Next]_vars
    PROVE  PendingInv' /\ [Abstract!Next]_(Abstract!vars)
  <1> DEFINE Quiet == UNCHANGED lines /\ UNCHANGED Acked
  <1>0. Quiet => [Abstract!Next]_(Abstract!vars)
    BY DEF Abstract!vars, Acked
  <1> HIDE DEF Quiet
  <1>1. ASSUME NEW t \in Thread, NEW id \in RecordId, NEW ts \in Time, Begin(t, id, ts)
        PROVE  PendingInv' /\ Quiet
    <2>1. /\ pc' = [pc EXCEPT ![t] = IF t \in Facade THEN "peek" ELSE "lock"]
          /\ cur' = [cur EXCEPT ![t] = Fresh(id, ts, counter + 1)]
          /\ outcome' = Put(outcome, id, "pending")
          /\ id \notin DOMAIN outcome
          /\ UNCHANGED lines
      BY <1>1 DEF Begin, Goto, files
    <2>2. Fresh(id, ts, counter + 1).id = id
      BY DEF Fresh
    <2>3. PendingInv'
      BY <2>1, <2>2 DEF PendingInv, TypeOK, Put
    <2>4. UNCHANGED Acked
      BY <2>1 DEF Acked, Put
    <2>5. QED
      BY <2>1, <2>3, <2>4 DEF Quiet
  <1>2. ASSUME NEW t \in Thread, Peek(t) \/ Poke(t) \/ Acquire(t) \/ Chain(t) \/ Mirror(t)
        PROVE  PendingInv' /\ Quiet
    <2>1. UNCHANGED <<lines, outcome>> /\ pc[t] # "idle"
      BY <1>2 DEF Peek, Poke, Acquire, Chain, Mirror, files
    <2>2. \A u \in Thread : cur'[u].id = cur[u].id
      <3>1. CASE Peek(t)
        <4>1. \/ cur' = cur
              \/ cur' = [cur EXCEPT ![t] = [cur[t] EXCEPT !.prev = LastChain(DayFor(t))]]
          BY <3>1 DEF Peek
        <4>2. QED
          BY <4>1 DEF TypeOK, Line
      <3>2. CASE Chain(t)
        BY <3>2 DEF Chain, TypeOK, Line
      <3>3. CASE Poke(t) \/ Acquire(t) \/ Mirror(t)
        BY <3>3 DEF Poke, Acquire, Mirror
      <3>4. QED
        BY <1>2, <3>1, <3>2, <3>3
    <2>3. \A u \in Thread : u # t => pc'[u] = pc[u]
      BY <1>2 DEF Peek, Poke, Acquire, Chain, Mirror, Goto, TypeOK
    <2>4. QED
      BY <2>1, <2>2, <2>3, FramePending DEF Quiet
  <1>3. ASSUME NEW t \in Thread, Reject(t) \/ Refuse(t) \/ WriteFails(t)
        PROVE  PendingInv' /\ Quiet
    <2>1. /\ Release(t, "rejected") \/ Release(t, "error")
          /\ pc[t] \in Inside /\ UNCHANGED lines
      BY <1>3 DEF Reject, Refuse, WriteFails, Inside, files
    <2>2. QED
      BY <2>1, ReleasePending DEF Outcome, Quiet
  <1>4. ASSUME NEW t \in Thread, Write(t)
        PROVE  PendingInv' /\ Abstract!Next
    <2>1. /\ UNCHANGED <<outcome, cur>> /\ pc[t] # "idle"
          /\ \A u \in Thread : u # t => pc'[u] = pc[u]
      BY <1>4 DEF Write, Goto, TypeOK
    <2>2. PendingInv' /\ UNCHANGED Acked
      BY <2>1, FramePending
    <2>3. Abstract!Extend(DayFor(t)) /\ DayFor(t) \in Day
      BY <1>4, <2>2, WriteExtends, DayForType
    <2>4. QED
      BY <2>2, <2>3 DEF Abstract!Next
  <1>5. ASSUME NEW t \in Thread, Commit(t)
        PROVE  PendingInv' /\ Abstract!Next
    <2>1. Release(t, "ok") /\ pc[t] \in Inside
      BY <1>5 DEF Commit, Inside
    <2>2. PendingInv' /\ Acked' = Acked \cup {cur[t].id}
      BY <2>1, ReleasePending DEF Outcome
    <2>3. PICK id \in RecordId : id = cur[t].id
      BY DEF TypeOK, Line
    <2>4. Abstract!Acknowledge(id)
      BY <1>5, <2>2, <2>3, CommitAcknowledges
    <2>5. QED
      BY <2>2, <2>4 DEF Abstract!Next
  <1>6. CASE Crash
    <2>1. /\ \A t \in Thread : pc'[t] = "idle"
          /\ outcome' = [i \in DOMAIN outcome |->
                           IF outcome[i] = "pending" THEN "crashed" ELSE outcome[i]]
          /\ UNCHANGED lines
      BY <1>6 DEF Crash, Restart, files
    <2>2. UNCHANGED Acked
      BY <2>1 DEF Acked
    <2>3. QED
      BY <1>0, <2>1, <2>2 DEF PendingInv, Quiet
  <1>7. CASE UNCHANGED vars
    <2>1. UNCHANGED <<lines, outcome, pc, cur>>
      BY <1>7 DEF vars, files
    <2>2. QED
      BY <1>0, <2>1, FramePending DEF Quiet
  <1>8. QED
    BY <1>0, <1>1, <1>2, <1>3, <1>4, <1>5, <1>6, <1>7, NoHiddenFaults, NoRebuild
    DEF Next, Step, Sheltered

\* The write path implements the append-only log for every number of threads, records,
\* days and instants.
THEOREM Refinement == ASSUME Sheltered PROVE Spec => ImplementsLedger
  <1>1. Init => PendingInv /\ Abstract!Init
    BY EmptyDict DEF Init, PendingInv, Abstract!Init
  <1>2. TypeOK /\ ControlInv /\ DataInv /\ PendingInv /\ [Next]_vars
           => PendingInv' /\ [Abstract!Next]_(Abstract!vars)
    BY RefineStep
  <1>3. IInv => ControlInv /\ DataInv
    BY DEF IInv, DataInv
  <1>4. QED
    BY <1>1, <1>2, <1>3, TypeCorrect, Inductive, PTL DEF Spec, ImplementsLedger, Abstract!Spec
=============================================================================
