----------------------------- MODULE EngineProofs -----------------------------
(***************************************************************************)
(* The V3 engine, for any limits, set-ups, days and number of faults: how  *)
(* many orders a day may see, when losses halt it, and that a shutdown     *)
(* that finished has written the journal.                                  *)
(***************************************************************************)
EXTENDS EngineV3, TLAPS

(***************************************************************************)
(* The inductive invariant.                                                *)
(***************************************************************************)
\* The writer's counters add up while the process lives, and it ends after the queue is empty.
WriterInv ==
    /\ thread = "loop" => batch < BatchSize
    /\ thread = "flush" => batch > 0
    /\ proc # "down" =>
         /\ handled + queued + batch = submitted
         /\ thread \in {"drain", "rest", "dead"} => stopFlag
         /\ thread \in {"rest", "dead"} => queued = 0
         /\ thread = "dead" => batch = 0
         /\ stopFlag => proc = "stopping"

\* A cycle runs in a live process; on its way to the broker the gate has let the day's
\* counters pass, and nothing has changed them since.
CycleInv ==
    /\ pc # "idle" => proc = "up" /\ mem.date \in Days
    /\ pc = "entering" => mem.trades < TradeLimit /\ mem.loss < LossLimit /\ mem.cons = 0
    /\ disk.date <= mem.date /\ mem.date <= today

\* The order of day d that is placed and not yet counted.
Uncounted(d) == IF pc = "placed" /\ mem.date = d THEN 1 ELSE 0

\* Every order is counted, in memory and in the table, but for the one that is under way and
\* one for each fault; a day that the table does not know has no other orders.
CountInv ==
    \A d \in Days :
        /\ mem.date = d => orders[d] <= mem.trades + faults + Uncounted(d)
        /\ disk.date = d => orders[d] <= disk.trades + faults + Uncounted(d)
        /\ disk.date < d => orders[d] <= faults + Uncounted(d)

\* The order of a cycle that midnight overtook is the last one before the counters are reset
\* for the day it was placed on.
LateInv ==
    \A d \in Days :
        /\ late[d] > 0 => d <= today
        /\ pc \in {"decide", "entering"} /\ mem.date < d => late[d] = 0

\* Without a fault the table is what memory is, and both know every loss of the day.
LossInv ==
    faults = 0 =>
        /\ disk = mem
        /\ reported = [day |-> mem.date, loss |-> mem.loss, streak |-> mem.cons]

EngineInv == WriterInv /\ CycleInv /\ CountInv /\ LateInv /\ LossInv /\ TradesPerDay

-----------------------------------------------------------------------------
(***************************************************************************)
(* The journal's writer.                                                   *)
(***************************************************************************)

\* The caller's put_nowait keeps the writer's invariant, before stop().
LEMMA SubmitKeeps ==
    ASSUME TypeOK, WriterInv, SubmitEvent, proc = "up", proc' = proc
    PROVE  WriterTypeOK' /\ WriterInv'
<1>1. WriterTypeOK
  BY DEF TypeOK
<1>2. WriterTypeOK'
  BY <1>1, WriterAssumption DEF WriterTypeOK, SubmitEvent
<1>3. WriterInv'
  BY <1>1, WriterAssumption DEF WriterTypeOK, WriterInv, SubmitEvent
<1> QED BY <1>2, <1>3

\* So does every step of the daemon thread.
LEMMA WriterStepKeeps ==
    ASSUME TypeOK, WriterInv, WriterStep, proc # "down", proc' = proc
    PROVE  WriterTypeOK' /\ WriterInv'
<1> USE WriterAssumption DEF WriterTypeOK, WriterInv
<1>0. WriterTypeOK
  BY DEF TypeOK
<1>1. CASE GetEvent
  <2>1. WriterTypeOK'
    BY <1>0, <1>1 DEF GetEvent, Threads
  <2>2. WriterInv'
    BY <1>0, <1>1 DEF GetEvent
  <2> QED BY <2>1, <2>2
<1>2. CASE GetTimesOut
  BY <1>0, <1>2 DEF GetTimesOut, Threads
<1>3. CASE FlushOne
  <2>1. WriterTypeOK'
    BY <1>0, <1>3 DEF FlushOne, Threads
  <2>2. WriterInv'
    BY <1>0, <1>3 DEF FlushOne
  <2> QED BY <2>1, <2>2
<1>4. CASE SeeStop
  BY <1>0, <1>4 DEF SeeStop, Threads
<1>5. CASE DrainOne
  <2>1. WriterTypeOK'
    BY <1>0, <1>5 DEF DrainOne, Threads
  <2>2. WriterInv'
    BY <1>0, <1>5 DEF DrainOne
  <2> QED BY <2>1, <2>2
<1>6. CASE RestOne
  <2>1. WriterTypeOK'
    BY <1>0, <1>6 DEF RestOne, Threads
  <2>2. WriterInv'
    BY <1>0, <1>6 DEF RestOne
  <2> QED BY <2>1, <2>2
<1> QED BY <1>1, <1>2, <1>3, <1>4, <1>5, <1>6 DEF WriterStep

\* A step of the engine that leaves the writer alone, before or at the call of stop().
LEMMA WriterFrame ==
    ASSUME TypeOK, WriterInv, UNCHANGED writerVars,
           \/ proc' = proc
           \/ proc = "up" /\ proc' = "stopping"
           \/ proc' = "down"
    PROVE  WriterTypeOK' /\ WriterInv'
BY DEF TypeOK, WriterTypeOK, WriterInv, writerVars

-----------------------------------------------------------------------------
(***************************************************************************)
(* The counters.                                                           *)
(***************************************************************************)

\* The table's row becomes the counters that are written, or a fault is counted.
LEMMA PersistProperties ==
    ASSUME TypeOK, NEW c \in Counters, NEW cost \in {0, 1}, faults + cost <= MaxFaults,
           Persist(c, cost)
    PROVE  /\ faults' \in 0..MaxFaults /\ faults' >= faults + cost
           /\ disk' \in Counters
           /\ disk' = c \/ (disk' = disk /\ faults' >= faults + cost + 1)
BY EngineAssumption DEF TypeOK, Persist

\* A step that places and counts no order.
LEMMA CountFrame ==
    ASSUME TypeOK, CycleInv, CountInv, TradesPerDay, UNCHANGED <<orders, late>>,
           faults' \in 0..MaxFaults, faults' >= faults,
           mem'.date = mem.date, mem'.trades = mem.trades,
           disk' = mem' \/ disk' = disk,
           pc' = "placed" <=> pc = "placed"
    PROVE  CountInv' /\ TradesPerDay'
<1>1. /\ faults \in Nat /\ faults' \in Nat /\ mem.trades \in Nat /\ disk.trades \in Nat
      /\ mem.date \in Nat /\ disk.date \in Nat /\ \A d \in Days : d \in Nat /\ orders[d] \in Nat
  BY EngineAssumption DEF TypeOK, Counters, Days
<1>2. \A d \in Days : Uncounted(d)' = Uncounted(d) /\ Uncounted(d) \in Nat
  BY DEF Uncounted
<1>3. CountInv'
  <2>1. CASE disk' = mem'
    BY <1>1, <1>2, <2>1 DEF CountInv, CycleInv
  <2>2. CASE disk' = disk
    BY <1>1, <1>2, <2>2 DEF CountInv
  <2> QED BY <2>1, <2>2
<1>4. TradesPerDay'
  BY <1>1, LimitAssumption DEF TradesPerDay
<1> QED BY <1>3, <1>4

\* A step that places no order of a cycle that midnight overtook, and begins no cycle.
LEMMA LateFrame ==
    ASSUME LateInv, UNCHANGED late, mem'.date = mem.date,
           today \in Nat, today' \in Nat, today' >= today,
           pc' \in {"decide", "entering"} => pc \in {"decide", "entering"}
    PROVE  LateInv'
<1>1. \A d \in Days : d \in Nat
  BY DEF Days
<1> QED BY <1>1, EngineAssumption DEF LateInv

\* What lets the gate say enter: no limit is reached and the last trade was no loss.
LEMMA GateEnters ==
    ASSUME NEW s, NEW c \in Counters, GateDecide(s, c) = "enter"
    PROVE  c.trades < TradeLimit /\ c.loss < LossLimit /\ c.cons = 0
<1>1. ~MediumContradiction(s, c) /\ Synthesize(s, c) = "enter"
  BY DEF GateDecide
<1>2. PositionState(c) = "flat"
  BY <1>1 DEF Synthesize
<1>3. c.trades \in Nat /\ c.loss \in Nat /\ c.cons \in Nat
  BY DEF Counters
<1>4. ~(c.loss >= LossLimit) /\ ~(c.trades >= TradeLimit) /\ ~(c.cons >= ConsLimit)
  BY <1>2 DEF PositionState
<1>5. c.cons \notin {1, 2}
  BY <1>1 DEF MediumContradiction
<1> QED BY <1>3, <1>4, <1>5, LimitAssumption

\* A step that reports no loss and writes no row but that of memory.
LEMMA LossFrame ==
    ASSUME TypeOK, LossInv, faults' >= faults, UNCHANGED <<mem, reported>>,
           disk' = mem \/ disk' = disk
    PROVE  LossInv'
<1>1. faults \in Nat /\ (faults' = 0 => faults = 0)
  BY EngineAssumption DEF TypeOK
<1> QED BY <1>1 DEF LossInv

\* The end of a cycle that does not trade: the counters are persisted as they are.
LEMMA QuietEnd ==
    ASSUME TypeOK, EngineInv, Persist(mem, 0), pc # "placed", pc' = "idle",
           UNCHANGED <<today, mem, orders, late, reported>>
    PROVE  /\ faults' \in 0..MaxFaults /\ disk' \in Counters
           /\ CycleInv' /\ CountInv' /\ LateInv' /\ LossInv' /\ TradesPerDay'
<1>1. faults \in Nat /\ faults + 0 <= MaxFaults /\ mem \in Counters
  BY EngineAssumption DEF TypeOK
<1>2. /\ faults' \in 0..MaxFaults /\ faults' >= faults
      /\ disk' \in Counters /\ (disk' = mem \/ disk' = disk)
  <2>1. /\ faults' \in 0..MaxFaults /\ faults' >= faults + 0 /\ disk' \in Counters
        /\ (disk' = mem \/ disk' = disk)
    BY <1>1, PersistProperties
  <2> QED BY <1>1, <2>1
<1>3. CountInv' /\ TradesPerDay'
  BY <1>2, CountFrame DEF EngineInv
<1>4. LossInv'
  BY <1>2, LossFrame DEF EngineInv
<1>5. CycleInv'
  BY <1>1, <1>2 DEF EngineInv, CycleInv, Counters
<1>6. LateInv'
  BY LateFrame, EngineAssumption DEF EngineInv, TypeOK, Days
<1> QED BY <1>2, <1>3, <1>4, <1>5, <1>6

-----------------------------------------------------------------------------
(***************************************************************************)
(* The steps of a cycle.                                                   *)
(***************************************************************************)
LEMMA StartCycleKeeps ==
    ASSUME TypeOK, EngineInv, StartCycle
    PROVE  TypeOK' /\ EngineInv'
<1> USE DEF EngineInv
<1>1. WriterTypeOK' /\ WriterInv'
  BY WriterFrame DEF StartCycle
<1>2. /\ pc' = "decide" /\ pc = "idle" /\ proc' = "up" /\ proc = "up"
      /\ UNCHANGED <<today, hasBroker, calls, failed, orders, late, open>>
      /\ reported' = IF reported.day = today THEN reported ELSE NoLosses(today)
  BY DEF StartCycle
<1>3. /\ faults \in Nat /\ faults + 0 <= MaxFaults /\ today \in Nat
      /\ mem.date \in Nat /\ disk.date \in Nat /\ today \in 0..MaxDay
      /\ \A d \in Days : orders[d] \in Nat /\ d \in Nat
  BY EngineAssumption DEF TypeOK, Days, Counters
<1>4. Zero(today) \in Counters /\ Zero(today).date = today /\ Zero(today).trades = 0
  BY <1>3 DEF Zero, Counters
<1>5. reported' \in [day : 0..MaxDay, loss : Nat, streak : Nat]
  BY <1>2, <1>3 DEF TypeOK, NoLosses
<1>a. LateInv' /\ \A d \in Days : late'[d] <= 1
  <2>1. mem'.date = today
    BY <1>4 DEF StartCycle
  <2>2. \A d \in Days : late[d] \in Nat
    BY DEF TypeOK
  <2> QED BY <1>2, <1>3, <2>1, <2>2 DEF LateInv, TradesPerDay
<1>6. CASE mem.date = today
  <2>1. UNCHANGED <<mem, disk, faults>>
    BY <1>6 DEF StartCycle
  <2>2. TypeOK'
    BY <1>1, <1>2, <1>5, <2>1 DEF TypeOK
  <2>3. CycleInv'
    BY <1>2, <1>6, <2>1 DEF CycleInv, TypeOK
  <2>4. CountInv' /\ TradesPerDay'
    BY <1>2, <1>3, <2>1, CountFrame DEF TypeOK
  <2>5. LossInv'
    BY <1>2, <1>6, <2>1 DEF LossInv
  <2> QED BY <1>1, <1>a, <2>2, <2>3, <2>4, <2>5
<1>7. CASE mem.date # today
  <2>1. mem' = Zero(today) /\ Persist(Zero(today), 0)
    BY <1>7 DEF StartCycle
  <2>2. /\ faults' \in 0..MaxFaults /\ faults' >= faults + 0 /\ disk' \in Counters
        /\ (disk' = Zero(today) \/ (disk' = disk /\ faults' >= faults + 0 + 1))
    BY <1>3, <1>4, <2>1, PersistProperties
  <2>3. TypeOK'
    BY <1>1, <1>2, <1>4, <1>5, <2>1, <2>2 DEF TypeOK
  <2>4. disk.date < today /\ mem.date < today
    BY <1>3, <1>7 DEF CycleInv
  <2>5. CycleInv'
    BY <1>2, <1>3, <1>4, <2>1, <2>2, <2>4 DEF CycleInv, TypeOK
  <2>6. CountInv'
    <3>1. \A d \in Days : Uncounted(d) = 0 /\ Uncounted(d)' = 0
      BY <1>2 DEF Uncounted
    <3>2. ASSUME NEW d \in Days
          PROVE  /\ today = d => orders[d] <= faults'
                 /\ disk'.date = d => orders[d] <= disk'.trades + faults'
                 /\ disk'.date < d => orders[d] <= faults'
      <4>1. /\ disk.date = d => orders[d] <= disk.trades + faults
            /\ disk.date < d => orders[d] <= faults
        BY <1>3, <3>1 DEF CountInv, TypeOK, Counters
      <4>2. disk.trades \in Nat /\ faults' \in Nat
        BY <2>2 DEF TypeOK, Counters
      <4>3. CASE disk' = Zero(today)
        BY <1>3, <1>4, <2>2, <2>4, <4>1, <4>2, <4>3
      <4>4. CASE disk' = disk
        BY <1>3, <2>2, <2>4, <4>1, <4>2, <4>4
      <4> QED BY <2>2, <4>3, <4>4
    <3>3. faults' \in Nat /\ disk'.trades \in Nat
      BY <2>2 DEF Counters
    <3> QED BY <1>2, <1>4, <2>1, <3>1, <3>2, <3>3 DEF CountInv
  <2>7. TradesPerDay'
    BY <1>a, <1>2, <1>3, <2>2, LimitAssumption DEF TradesPerDay
  <2>8. LossInv'
    <3>1. faults' = 0 => faults = 0 /\ disk' = Zero(today)
      BY <1>3, <2>2
    <3>2. faults = 0 => reported.day = mem.date
      BY DEF LossInv
    <3> QED BY <1>2, <1>7, <2>1, <3>1, <3>2 DEF LossInv, Zero, NoLosses
  <2> QED BY <1>1, <1>a, <2>3, <2>5, <2>6, <2>7, <2>8
<1> QED BY <1>6, <1>7

\* Blocked by the bars, by the gate, by the review or by the rails.
LEMMA RefusalKeeps ==
    ASSUME TypeOK, EngineInv, BlockEarly \/ Refuse \/ RailsBlock
    PROVE  TypeOK' /\ EngineInv'
<1> USE DEF EngineInv
<1>1. /\ pc = "decide" /\ pc' = "idle" /\ SubmitEvent /\ Persist(mem, 0)
      /\ calls' \in {calls + 1, calls + 2} /\ failed' \in {failed, failed + 1}
      /\ UNCHANGED <<today, proc, hasBroker, mem, orders, late, open, reported>>
  BY DEF BlockEarly, Refuse, RailsBlock, JournalAsync
<1>2. WriterTypeOK' /\ WriterInv'
  BY <1>1, SubmitKeeps DEF CycleInv
<1>3. /\ faults' \in 0..MaxFaults /\ disk' \in Counters
      /\ CycleInv' /\ CountInv' /\ LateInv' /\ LossInv' /\ TradesPerDay'
  BY <1>1, QuietEnd
<1>4. TypeOK'
  BY <1>1, <1>2, <1>3 DEF TypeOK
<1> QED BY <1>2, <1>3, <1>4

\* The gate and the rails let the cycle go to the broker, or end it where there is none.
LEMMA ApproveKeeps ==
    ASSUME TypeOK, EngineInv, Approve
    PROVE  TypeOK' /\ EngineInv'
<1> USE DEF EngineInv
<1>1. /\ pc = "decide" /\ calls' = calls + 1 /\ failed' \in {failed, failed + 1}
      /\ UNCHANGED <<today, proc, hasBroker, mem, orders, late, open, reported, writerVars>>
  BY DEF Approve, JournalSync
<1>2. WriterTypeOK' /\ WriterInv'
  BY <1>1, WriterFrame
<1>3. CASE pc' = "entering" /\ UNCHANGED <<disk, faults>>
  <2>1. TypeOK'
    BY <1>1, <1>2, <1>3 DEF TypeOK
  <2>2. mem.trades < TradeLimit /\ mem.loss < LossLimit /\ mem.cons = 0
    BY GateEnters DEF Approve, TypeOK
  <2>3. CycleInv'
    BY <1>1, <1>3, <2>2 DEF CycleInv
  <2>4. CountInv' /\ TradesPerDay'
    BY <1>1, <1>3, <2>1, CountFrame, EngineAssumption DEF TypeOK
  <2>5. LossInv'
    BY <1>1, <1>3 DEF LossInv
  <2>6. LateInv'
    BY <1>1, <1>3, LateFrame, EngineAssumption DEF TypeOK, Days
  <2> QED BY <1>2, <2>1, <2>3, <2>4, <2>5, <2>6
<1>4. CASE pc' = "idle" /\ Persist(mem, 0)
  <2>1. /\ faults' \in 0..MaxFaults /\ disk' \in Counters
        /\ CycleInv' /\ CountInv' /\ LateInv' /\ LossInv' /\ TradesPerDay'
    BY <1>1, <1>4, QuietEnd
  <2>2. TypeOK'
    BY <1>1, <1>2, <1>4, <2>1 DEF TypeOK
  <2> QED BY <1>2, <2>1, <2>2
<1> QED BY <1>3, <1>4 DEF Approve

\* An order that is placed adds one to the day of the counters that let it pass; or it is the
\* first that reaches the next day from a cycle of an earlier one.
LEMMA PlaceOrderProperties ==
    ASSUME TypeOK, EngineInv, pc = "entering", PlaceOrder
    PROVE  /\ orders' \in [Days -> Nat] /\ late' \in [Days -> Nat] /\ open' \in Nat
           /\ mem.date \in Days /\ orders'[mem.date] <= orders[mem.date] + 1
           /\ \A d \in Days : d # mem.date => orders'[d] = orders[d]
           /\ orders[mem.date] + 1 <= TradeLimit + faults
           /\ \A d \in Days : late'[d] <= 1 /\ (late'[d] > 0 => d <= today)
<1>1. mem.date \in Days /\ mem.date <= today /\ mem.trades < TradeLimit
  BY DEF EngineInv, CycleInv
<1>2. orders[mem.date] <= mem.trades + faults
  BY <1>1 DEF EngineInv, CountInv, Uncounted, TypeOK, Counters
<1>3. /\ today \in Days /\ open \in Nat /\ faults \in Nat /\ mem.trades \in Nat
      /\ orders \in [Days -> Nat] /\ late \in [Days -> Nat]
      /\ \A d \in Days : d \in Nat /\ orders[d] \in Nat /\ late[d] \in Nat
  <2>1. /\ today \in Days /\ open \in Nat /\ faults \in Nat /\ mem.trades \in Nat
        /\ orders \in [Days -> Nat] /\ late \in [Days -> Nat]
    BY EngineAssumption DEF TypeOK, Counters
  <2>2. \A d \in Days : d \in Nat
    BY DEF Days
  <2> QED BY <2>1, <2>2
<1>4. orders[mem.date] + 1 <= TradeLimit + faults
  BY <1>1, <1>2, <1>3, LimitAssumption
<1>5. \A d \in Days : late[d] <= 1 /\ (late[d] > 0 => d <= today)
                      /\ (mem.date < d => late[d] = 0)
  BY DEF EngineInv, TradesPerDay, LateInv
<1>6. open' \in Nat
  BY <1>3 DEF PlaceOrder
<1>7. CASE mem.date = today
  <2>1. orders' = [orders EXCEPT ![mem.date] = orders[mem.date] + 1] /\ late' = late
    BY <1>7 DEF PlaceOrder
  <2> QED BY <1>1, <1>3, <1>4, <1>5, <1>6, <2>1
<1>8. CASE mem.date # today
  <2>1. late' = [late EXCEPT ![today] = late[today] + 1] /\ orders' = orders
    BY <1>8 DEF PlaceOrder
  <2>2. late[today] = 0
    BY <1>1, <1>3, <1>5, <1>8
  <2> QED BY <1>1, <1>3, <1>4, <1>5, <1>6, <2>1, <2>2
<1> QED BY <1>7, <1>8

\* The broker takes the order.
LEMMA OrderKeeps ==
    ASSUME TypeOK, EngineInv, Submit
    PROVE  TypeOK' /\ EngineInv'
<1> USE DEF EngineInv
<1>1. /\ proc = "up" /\ pc = "entering" /\ pc' = "placed"
      /\ UNCHANGED <<today, proc, hasBroker, mem, disk, calls, failed, reported, faults,
                     writerVars>>
  BY DEF Submit
<1>2. WriterTypeOK' /\ WriterInv'
  BY <1>1, WriterFrame
<1>3. /\ orders' \in [Days -> Nat] /\ late' \in [Days -> Nat] /\ open' \in Nat
      /\ mem.date \in Days /\ orders'[mem.date] <= orders[mem.date] + 1
      /\ \A d \in Days : d # mem.date => orders'[d] = orders[d]
      /\ orders[mem.date] + 1 <= TradeLimit + faults
      /\ \A d \in Days : late'[d] <= 1 /\ (late'[d] > 0 => d <= today)
  BY <1>1, PlaceOrderProperties DEF Submit
<1>4. TypeOK'
  BY <1>1, <1>2, <1>3 DEF TypeOK
<1>5. CycleInv' /\ LateInv' /\ LossInv'
  BY <1>1, <1>3 DEF CycleInv, LateInv, LossInv
<1>6. TradesPerDay'
  <2>1. \A d \in Days : orders[d] \in Nat /\ orders'[d] \in Nat
    BY <1>3 DEF TypeOK
  <2>2. faults \in Nat /\ TradeLimit \in Nat
    BY EngineAssumption, LimitAssumption DEF TypeOK
  <2> QED BY <1>1, <1>3, <2>1, <2>2 DEF TradesPerDay
<1>7. CountInv'
  <2>1. \A d \in Days : Uncounted(d) = 0 /\ Uncounted(d)' = IF mem.date = d THEN 1 ELSE 0
    BY <1>1 DEF Uncounted
  <2>2. /\ faults \in Nat /\ mem.trades \in Nat /\ disk.trades \in Nat
        /\ \A d \in Days : orders[d] \in Nat
    BY EngineAssumption DEF TypeOK, Counters
  <2>3. ASSUME NEW d \in Days
        PROVE  /\ mem.date = d => orders'[d] <= mem.trades + faults + Uncounted(d)'
               /\ disk.date = d => orders'[d] <= disk.trades + faults + Uncounted(d)'
               /\ disk.date < d => orders'[d] <= faults + Uncounted(d)'
    BY <1>3, <2>1, <2>2 DEF CountInv
  <2> QED BY <1>1, <2>3 DEF CountInv
<1> QED BY <1>2, <1>4, <1>5, <1>6, <1>7

\* The broker's call raises, with or without an order.
LEMMA OrderRaisesKeeps ==
    ASSUME TypeOK, EngineInv, SubmitRaises
    PROVE  TypeOK' /\ EngineInv'
<1> USE DEF EngineInv
<1>1. /\ proc = "up" /\ pc = "entering" /\ pc' = "idle"
      /\ UNCHANGED <<today, proc, hasBroker, mem, calls, failed, reported, writerVars>>
  BY DEF SubmitRaises
<1>2. WriterTypeOK' /\ WriterInv'
  BY <1>1, WriterFrame
<1>3. CASE UNCHANGED <<orders, late, open>> /\ Persist(mem, 0)
  <2>1. /\ faults' \in 0..MaxFaults /\ disk' \in Counters
        /\ CycleInv' /\ CountInv' /\ LateInv' /\ LossInv' /\ TradesPerDay'
    BY <1>1, <1>3, QuietEnd
  <2>2. TypeOK'
    BY <1>1, <1>2, <1>3, <2>1 DEF TypeOK
  <2> QED BY <1>2, <2>1, <2>2
<1>4. CASE PlaceOrder /\ faults < MaxFaults /\ Persist(mem, 1)
  <2>1. /\ orders' \in [Days -> Nat] /\ late' \in [Days -> Nat] /\ open' \in Nat
        /\ mem.date \in Days /\ orders'[mem.date] <= orders[mem.date] + 1
        /\ \A d \in Days : d # mem.date => orders'[d] = orders[d]
        /\ orders[mem.date] + 1 <= TradeLimit + faults
        /\ \A d \in Days : late'[d] <= 1 /\ (late'[d] > 0 => d <= today)
    BY <1>1, <1>4, PlaceOrderProperties
  <2>2. /\ faults \in Nat /\ faults + 1 <= MaxFaults /\ mem \in Counters
        /\ disk.trades \in Nat /\ mem.trades \in Nat /\ disk.date \in Nat /\ mem.date \in Nat
        /\ \A d \in Days : orders[d] \in Nat /\ d \in Nat
    BY <1>4, EngineAssumption DEF TypeOK, Counters, Days
  <2>3. /\ faults' \in 0..MaxFaults /\ faults' >= faults + 1 /\ disk' \in Counters
        /\ (disk' = mem \/ disk' = disk)
    BY <1>4, <2>2, PersistProperties
  <2>4. TypeOK'
    BY <1>1, <1>2, <2>1, <2>3 DEF TypeOK
  <2>5. CycleInv'
    BY <1>1, <2>2, <2>3 DEF CycleInv
  <2>6. LossInv'
    BY <2>2, <2>3 DEF LossInv
  <2>7. \A d \in Days : orders'[d] <= orders[d] + 1 /\ orders'[d] \in Nat
    BY <2>1, <2>2
  <2>8. TradesPerDay'
    BY <2>1, <2>2, <2>3, LimitAssumption DEF TradesPerDay
  <2>9. CountInv'
    <3>1. \A d \in Days : Uncounted(d) = 0 /\ Uncounted(d)' = 0
      BY <1>1 DEF Uncounted
    <3>2. ASSUME NEW d \in Days
          PROVE  /\ mem.date = d => orders'[d] <= mem.trades + faults'
                 /\ disk'.date = d => orders'[d] <= disk'.trades + faults'
                 /\ disk'.date < d => orders'[d] <= faults'
      <4>1. /\ mem.date = d => orders[d] <= mem.trades + faults
            /\ disk.date = d => orders[d] <= disk.trades + faults
            /\ disk.date < d => orders[d] <= faults
        BY <2>2, <3>1 DEF CountInv
      <4>2. CASE disk' = disk
        BY <2>2, <2>3, <2>7, <4>1, <4>2
      <4>3. CASE disk' = mem
        <5>1. disk.date <= mem.date
          BY DEF CycleInv
        <5> QED BY <2>2, <2>3, <2>7, <4>1, <4>3, <5>1
      <4> QED BY <2>3, <4>2, <4>3
    <3>3. mem.trades \in Nat /\ disk'.trades \in Nat /\ faults' \in Nat
      BY <2>2, <2>3 DEF Counters
    <3> QED BY <1>1, <3>1, <3>2, <3>3 DEF CountInv
  <2>10. LateInv'
    BY <1>1, <2>1 DEF LateInv
  <2> QED BY <1>2, <2>4, <2>5, <2>6, <2>8, <2>9, <2>10
<1> QED BY <1>3, <1>4 DEF SubmitRaises

\* The trade is journalled and counted.
LEMMA CountTradeKeeps ==
    ASSUME TypeOK, EngineInv, CountTrade
    PROVE  TypeOK' /\ EngineInv'
<1> USE DEF EngineInv
<1>1. /\ proc = "up" /\ pc = "placed" /\ pc' = "idle"
      /\ calls' = calls + 1 /\ failed' \in {failed, failed + 1}
      /\ mem' = [mem EXCEPT !.trades = mem.trades + 1] /\ Persist(mem', 0)
      /\ UNCHANGED <<today, proc, hasBroker, orders, late, open, reported, writerVars>>
  BY DEF CountTrade, JournalSync
<1>2. WriterTypeOK' /\ WriterInv'
  BY <1>1, WriterFrame
<1>3. /\ faults \in Nat /\ faults + 0 <= MaxFaults
      /\ disk.trades \in Nat /\ mem.trades \in Nat /\ disk.date \in Nat /\ mem.date \in Nat
      /\ \A d \in Days : orders[d] \in Nat /\ d \in Nat
  BY EngineAssumption DEF TypeOK, Counters, Days
<1>4. /\ mem' \in Counters /\ mem'.trades = mem.trades + 1 /\ mem'.date = mem.date
      /\ mem'.loss = mem.loss /\ mem'.cons = mem.cons
  BY <1>1 DEF TypeOK, Counters
<1>5. PICK m \in Counters : m = mem'
  BY <1>4
<1>6. /\ faults' \in 0..MaxFaults /\ faults' >= faults + 0 /\ disk' \in Counters
      /\ (disk' = m \/ (disk' = disk /\ faults' >= faults + 0 + 1))
  <2>1. Persist(m, 0)
    BY <1>1, <1>5
  <2> QED BY <1>3, <2>1, PersistProperties
<1>7. TypeOK'
  BY <1>1, <1>2, <1>4, <1>6 DEF TypeOK
<1>8. CycleInv'
  <2>1. disk'.date <= mem.date
    <3>1. m.date = mem.date /\ disk.date <= mem.date
      BY <1>4, <1>5 DEF CycleInv
    <3> QED BY <1>3, <1>6, <3>1
  <2> QED BY <1>1, <1>4, <2>1 DEF CycleInv
<1>9. LossInv'
  BY <1>1, <1>3, <1>4, <1>5, <1>6 DEF LossInv
<1>10. TradesPerDay'
  BY <1>1, <1>3, <1>6, LimitAssumption DEF TradesPerDay
<1>11. CountInv'
  <2>1. \A d \in Days : Uncounted(d)' = 0
                        /\ Uncounted(d) = IF mem.date = d THEN 1 ELSE 0
    BY <1>1 DEF Uncounted
  <2>2. ASSUME NEW d \in Days
        PROVE  /\ m.date = d => orders[d] <= m.trades + faults'
               /\ disk'.date = d => orders[d] <= disk'.trades + faults'
               /\ disk'.date < d => orders[d] <= faults'
    <3>1. /\ mem.date = d => orders[d] <= mem.trades + faults + 1
          /\ disk.date = d => orders[d] <= disk.trades + faults + 1
          /\ disk.date < d => orders[d] <= faults + 1
          /\ mem.date # d /\ disk.date = d => orders[d] <= disk.trades + faults
          /\ mem.date # d /\ disk.date < d => orders[d] <= faults
      BY <1>3, <2>1 DEF CountInv
    <3>2. disk.date <= mem.date
      BY DEF CycleInv
    <3>3. CASE disk' = m
      BY <1>3, <1>4, <1>5, <1>6, <3>1, <3>2, <3>3
    <3>4. CASE disk' = disk /\ faults' >= faults + 1
      BY <1>3, <1>4, <1>5, <1>6, <3>1, <3>4
    <3> QED BY <1>3, <1>6, <3>3, <3>4
  <2>3. m.trades \in Nat /\ disk'.trades \in Nat /\ faults' \in Nat
    BY <1>5, <1>6 DEF Counters
  <2> QED BY <1>1, <1>5, <2>1, <2>2, <2>3 DEF CountInv
<1>12. LateInv'
  BY <1>1, <1>4, LateFrame, EngineAssumption DEF TypeOK, Days
<1> QED BY <1>2, <1>7, <1>8, <1>9, <1>10, <1>11, <1>12

-----------------------------------------------------------------------------
(***************************************************************************)
(* The process.                                                            *)
(***************************************************************************)
LEMMA UpdateAfterCloseKeeps ==
    ASSUME TypeOK, EngineInv, NEW l \in Losses, UpdateAfterClose(l)
    PROVE  TypeOK' /\ EngineInv'
<1> USE DEF EngineInv
<1>1. /\ proc = "up" /\ pc = "idle" /\ open > 0 /\ open' = open - 1 /\ l \in Nat
      /\ Persist(mem', 0)
      /\ UNCHANGED <<today, proc, pc, hasBroker, calls, failed, orders, late, writerVars>>
  BY EngineAssumption DEF UpdateAfterClose
<1>2. WriterTypeOK' /\ WriterInv'
  BY <1>1, WriterFrame
<1>3. /\ faults \in Nat /\ faults + 0 <= MaxFaults
      /\ mem.trades \in Nat /\ disk.date \in Nat /\ mem.date \in Nat
  BY EngineAssumption DEF TypeOK, Counters
<1>4. /\ mem' \in Counters /\ mem'.trades = mem.trades /\ mem'.date = mem.date
      /\ reported' \in [day : 0..MaxDay, loss : Nat, streak : Nat]
      /\ reported = [day |-> mem.date, loss |-> mem.loss, streak |-> mem.cons]
           => reported' = [day |-> mem'.date, loss |-> mem'.loss, streak |-> mem'.cons]
  <2>1. mem \in Counters /\ reported \in [day : 0..MaxDay, loss : Nat, streak : Nat]
    BY DEF TypeOK
  <2>2. CASE l > 0
    <3>1. /\ mem' = [mem EXCEPT !.cons = mem.cons + 1, !.loss = mem.loss + l]
          /\ reported' = [reported EXCEPT !.loss = reported.loss + l,
                                          !.streak = reported.streak + 1]
      BY <2>2 DEF UpdateAfterClose
    <3>2. /\ mem' \in Counters /\ mem'.trades = mem.trades /\ mem'.date = mem.date
          /\ mem'.cons = mem.cons + 1 /\ mem'.loss = mem.loss + l
      <4>1. PICK m1 : m1 = [mem EXCEPT !.cons = mem.cons + 1]
        OBVIOUS
      <4>2. mem' = [m1 EXCEPT !.loss = mem.loss + l]
        BY <3>1, <4>1, Zenon
      <4>3. /\ m1 \in Counters /\ m1.trades = mem.trades /\ m1.date = mem.date
            /\ m1.cons = mem.cons + 1 /\ m1.loss = mem.loss /\ mem.loss + l \in Nat
        BY <1>1, <2>1, <4>1 DEF Counters
      <4> QED BY <4>2, <4>3 DEF Counters
    <3>3. /\ reported' \in [day : 0..MaxDay, loss : Nat, streak : Nat]
          /\ reported'.day = reported.day /\ reported'.loss = reported.loss + l
          /\ reported'.streak = reported.streak + 1
      <4>1. PICK r1 : r1 = [reported EXCEPT !.loss = reported.loss + l]
        OBVIOUS
      <4>2. reported' = [r1 EXCEPT !.streak = reported.streak + 1]
        BY <3>1, <4>1, Zenon
      <4>3. /\ r1 \in [day : 0..MaxDay, loss : Nat, streak : Nat] /\ r1.day = reported.day
            /\ r1.loss = reported.loss + l /\ r1.streak = reported.streak
            /\ reported.streak + 1 \in Nat
        BY <1>1, <2>1, <4>1
      <4> QED BY <4>2, <4>3
    <3>4. reported' = [day |-> reported.day, loss |-> reported.loss + l,
                       streak |-> reported.streak + 1]
      BY <3>3
    <3> QED BY <3>2, <3>3, <3>4
  <2>3. CASE ~(l > 0)
    <3>1. /\ mem' = [mem EXCEPT !.cons = 0] /\ reported' = [reported EXCEPT !.streak = 0]
      BY <2>3 DEF UpdateAfterClose
    <3>2. /\ mem' \in Counters /\ mem'.trades = mem.trades /\ mem'.date = mem.date
          /\ mem'.cons = 0 /\ mem'.loss = mem.loss
      BY <2>1, <3>1 DEF Counters
    <3>3. /\ reported' \in [day : 0..MaxDay, loss : Nat, streak : Nat]
          /\ reported' = [day |-> reported.day, loss |-> reported.loss, streak |-> 0]
      BY <2>1, <3>1
    <3> QED BY <3>2, <3>3
  <2> QED BY <2>2, <2>3
<1>5. PICK m \in Counters : m = mem'
  BY <1>4
<1>6. /\ faults' \in 0..MaxFaults /\ faults' >= faults + 0 /\ disk' \in Counters
      /\ (disk' = m \/ (disk' = disk /\ faults' >= faults + 0 + 1))
  <2>1. Persist(m, 0)
    BY <1>1, <1>5
  <2> QED BY <1>3, <2>1, PersistProperties
<1>7. faults' >= faults /\ (faults' = 0 => faults = 0 /\ disk' = m)
  BY <1>3, <1>6
<1>8. TypeOK'
  BY <1>1, <1>2, <1>4, <1>6 DEF TypeOK
<1>9. CycleInv'
  <2>1. disk'.date <= mem.date
    <3>1. m.date = mem.date /\ disk.date <= mem.date
      BY <1>4, <1>5 DEF CycleInv
    <3> QED BY <1>3, <1>6, <3>1
  <2> QED BY <1>1, <1>4, <2>1 DEF CycleInv
<1>10. LossInv'
  BY <1>4, <1>5, <1>7 DEF LossInv
<1>11. CountInv' /\ TradesPerDay'
  BY <1>1, <1>4, <1>5, <1>6, <1>7, CountFrame
<1>12. LateInv'
  BY <1>1, <1>4, LateFrame, EngineAssumption DEF TypeOK, Days
<1> QED BY <1>2, <1>8, <1>9, <1>10, <1>11, <1>12

LEMMA StopKeeps ==
    ASSUME TypeOK, EngineInv, Stop
    PROVE  TypeOK' /\ EngineInv'
<1> USE DEF EngineInv
<1>1. /\ proc = "up" /\ pc = "idle" /\ pc' = "idle" /\ proc' = "stopping" /\ Persist(mem, 0)
      /\ UNCHANGED <<today, mem, hasBroker, calls, failed, orders, late, open, reported,
                     writerVars>>
  BY DEF Stop
<1>2. WriterTypeOK' /\ WriterInv'
  BY <1>1, WriterFrame
<1>3. /\ faults' \in 0..MaxFaults /\ disk' \in Counters
      /\ CycleInv' /\ CountInv' /\ LateInv' /\ LossInv' /\ TradesPerDay'
  BY <1>1, QuietEnd
<1>4. TypeOK'
  BY <1>1, <1>2, <1>3 DEF TypeOK
<1> QED BY <1>2, <1>3, <1>4

\* A step that leaves the counters, the broker and the cycle alone.
LEMMA EngineFrame ==
    ASSUME TypeOK, EngineInv, WriterTypeOK', WriterInv',
           UNCHANGED <<hasBroker, mem, disk, calls, failed, orders, late, open, reported,
                       faults, pc>>,
           today' \in Days, today' >= today,
           proc' \in {"up", "stopping", "down"}, pc # "idle" => proc' = proc
    PROVE  TypeOK' /\ EngineInv'
<1> USE DEF EngineInv
<1>1. TypeOK'
  BY DEF TypeOK
<1>2. CycleInv'
  <2>1. today \in Nat /\ today' \in Nat /\ mem.date \in Nat
    BY EngineAssumption DEF TypeOK, Counters, Days
  <2> QED BY <2>1 DEF CycleInv
<1>3. CountInv' /\ TradesPerDay'
  BY <1>1, CountFrame, EngineAssumption DEF TypeOK
<1>4. LossInv'
  BY DEF LossInv
<1>5. LateInv'
  BY LateFrame, EngineAssumption DEF TypeOK, Days
<1> QED BY <1>1, <1>2, <1>3, <1>4, <1>5

\* stop() goes on, the clock goes on, the notebook's thread goes on.
LEMMA BackgroundKeeps ==
    ASSUME TypeOK, EngineInv, RaiseStopFlag \/ Stopped \/ DayPasses \/ NotebookThread
    PROVE  TypeOK' /\ EngineInv'
<1> USE DEF EngineInv
<1>1. today \in Days /\ proc \in {"up", "stopping", "down"} /\ today \in Nat
  BY EngineAssumption DEF TypeOK, Days
<1>2. CASE RaiseStopFlag
  <2>1. /\ proc = "stopping" /\ stopFlag' = TRUE
        /\ UNCHANGED <<engineVars, queued, batch, submitted, written, dropped, handled, thread>>
    BY <1>2 DEF RaiseStopFlag
  <2>2. WriterTypeOK' /\ WriterInv'
    BY <2>1 DEF TypeOK, WriterTypeOK, WriterInv, engineVars
  <2> QED BY <1>1, <2>1, <2>2, EngineFrame DEF engineVars
<1>3. CASE Stopped
  <2>1. /\ proc = "stopping" /\ proc' = "down"
        /\ UNCHANGED <<today, pc, hasBroker, mem, disk, calls, failed, orders, late, open,
                       reported, faults, writerVars>>
    BY <1>3 DEF Stopped
  <2>2. WriterTypeOK' /\ WriterInv'
    BY <2>1, WriterFrame
  <2>3. pc = "idle"
    BY <2>1 DEF CycleInv
  <2> QED BY <1>1, <2>1, <2>2, <2>3, EngineFrame
<1>4. CASE DayPasses
  <2>1. /\ today < MaxDay /\ today' = today + 1
        /\ UNCHANGED <<proc, pc, hasBroker, mem, disk, calls, failed, orders, late, open,
                       reported, faults, writerVars>>
    BY <1>4 DEF DayPasses
  <2>2. WriterTypeOK' /\ WriterInv'
    BY <2>1, WriterFrame
  <2>3. today' \in Days /\ today' >= today
    BY <1>1, <2>1, EngineAssumption DEF Days
  <2> QED BY <1>1, <2>1, <2>2, <2>3, EngineFrame
<1>5. CASE NotebookThread
  <2>1. proc # "down" /\ WriterStep /\ UNCHANGED engineVars
    BY <1>5 DEF NotebookThread
  <2>2. WriterTypeOK' /\ WriterInv'
    BY <2>1, WriterStepKeeps DEF engineVars
  <2> QED BY <1>1, <2>1, <2>2, EngineFrame DEF engineVars
<1> QED BY <1>2, <1>3, <1>4, <1>5

\* A crash forgets what is in memory only; one between the order and its counter is a fault.
LEMMA CrashKeeps ==
    ASSUME TypeOK, EngineInv, Crash
    PROVE  TypeOK' /\ EngineInv'
<1> USE DEF EngineInv
<1>1. /\ proc' = "down" /\ pc' = "idle" /\ thread' = "dead"
      /\ IF pc = "placed" THEN faults < MaxFaults /\ faults' = faults + 1 ELSE UNCHANGED faults
      /\ UNCHANGED <<today, hasBroker, mem, disk, calls, failed, orders, late, open, reported,
                     queued, batch, submitted, written, dropped, handled, stopFlag>>
  BY DEF Crash
<1>2. WriterTypeOK' /\ WriterInv'
  BY <1>1 DEF TypeOK, WriterTypeOK, WriterInv, Threads
<1>3. /\ faults \in Nat /\ faults' \in 0..MaxFaults
      /\ faults' >= faults /\ (pc = "placed" => faults' = faults + 1)
  BY <1>1, EngineAssumption DEF TypeOK
<1>4. TypeOK'
  BY <1>1, <1>2, <1>3 DEF TypeOK
<1>5. CycleInv'
  BY <1>1 DEF CycleInv
<1>6. \A d \in Days : orders[d] \in Nat
  BY DEF TypeOK
<1>7. TradesPerDay'
  BY <1>1, <1>3, <1>6, LimitAssumption DEF TradesPerDay
<1>8. LateInv' /\ LossInv'
  BY <1>1, <1>3 DEF LateInv, LossInv
<1>9. CountInv'
  <2>1. \A d \in Days : /\ Uncounted(d)' = 0 /\ Uncounted(d) \in {0, 1}
                        /\ pc # "placed" => Uncounted(d) = 0
    BY <1>1 DEF Uncounted
  <2>2. mem.trades \in Nat /\ disk.trades \in Nat
    BY DEF TypeOK, Counters
  <2>3. ASSUME NEW d \in Days
        PROVE  /\ mem.date = d => orders[d] <= mem.trades + faults'
               /\ disk.date = d => orders[d] <= disk.trades + faults'
               /\ disk.date < d => orders[d] <= faults'
    <3>1. Uncounted(d) \in Nat /\ Uncounted(d) + faults <= faults'
      BY <1>3, <2>1
    <3>2. PICK u \in Nat : u = Uncounted(d)
      BY <3>1
    <3>3. /\ mem.date = d => orders[d] <= mem.trades + faults + u
          /\ disk.date = d => orders[d] <= disk.trades + faults + u
          /\ disk.date < d => orders[d] <= faults + u
      BY <3>2 DEF CountInv
    <3> QED BY <1>3, <1>6, <2>2, <3>1, <3>2, <3>3
  <2>4. faults' \in Nat
    BY <1>3
  <2> QED BY <1>1, <2>1, <2>2, <2>3, <2>4 DEF CountInv
<1> QED BY <1>2, <1>4, <1>5, <1>7, <1>8, <1>9

\* A restart continues from the table, with a new writer.
LEMMA RestartKeeps ==
    ASSUME TypeOK, EngineInv, Restart
    PROVE  TypeOK' /\ EngineInv'
<1> USE DEF EngineInv
<1>1. /\ proc = "down" /\ proc' = "up" /\ pc' = "idle" /\ hasBroker' \in BOOLEAN
      /\ mem' = disk /\ calls' = 0 /\ failed' = 0 /\ RestartWriter
      /\ UNCHANGED <<today, disk, orders, late, open, reported, faults>>
  BY DEF Restart
<1>2. WriterTypeOK' /\ WriterInv'
  <2>1. WriterTypeOK'
    <3>1. stopFlag' \in BOOLEAN /\ thread' \in Threads
      BY <1>1 DEF RestartWriter, Threads
    <3>2. /\ queued' \in 0..MaxQueue /\ batch' \in 0..BatchSize /\ submitted' \in Nat
          /\ written' \in Nat /\ dropped' \in Nat /\ handled' \in Nat
      BY <1>1, WriterAssumption DEF RestartWriter
    <3> QED BY <3>1, <3>2 DEF WriterTypeOK
  <2>2. WriterInv'
    BY <1>1, WriterAssumption DEF RestartWriter, WriterInv
  <2> QED BY <2>1, <2>2
<1>3. pc = "idle"
  BY <1>1 DEF CycleInv
<1>4. TypeOK'
  BY <1>1, <1>2 DEF TypeOK
<1>5. CycleInv'
  <2>1. today \in Nat /\ mem.date \in Nat /\ disk.date \in Nat
    BY EngineAssumption DEF TypeOK, Counters, Days
  <2> QED BY <1>1, <2>1 DEF CycleInv
<1>6. TradesPerDay' /\ LateInv' /\ LossInv'
  BY <1>1 DEF TradesPerDay, LateInv, LossInv
<1>7. CountInv'
  BY <1>1, <1>3 DEF CountInv, Uncounted
<1> QED BY <1>2, <1>4, <1>5, <1>6, <1>7

-----------------------------------------------------------------------------
(***************************************************************************)
(* The specification.                                                      *)
(***************************************************************************)
LEMMA EngineInit == Init => TypeOK /\ EngineInv
<1> SUFFICES ASSUME Init PROVE TypeOK /\ EngineInv
  OBVIOUS
<1> USE EngineAssumption, WriterAssumption DEF Init
<1>1. WriterTypeOK /\ WriterInv
  <2>1. WriterTypeOK
    <3>1. stopFlag \in BOOLEAN /\ thread \in Threads
      BY DEF FreshWriter, Threads
    <3>2. /\ queued \in 0..MaxQueue /\ batch \in 0..BatchSize /\ submitted \in Nat
          /\ written \in Nat /\ dropped \in Nat /\ handled \in Nat
      BY DEF FreshWriter
    <3> QED BY <3>1, <3>2 DEF WriterTypeOK
  <2>2. WriterInv
    BY DEF FreshWriter, WriterInv
  <2> QED BY <2>1, <2>2
<1>2. Zero(0) \in Counters /\ Zero(0).date = 0 /\ Zero(0).trades = 0
  BY DEF Zero, Counters
<1>3. TypeOK
  BY <1>1, <1>2 DEF TypeOK, Days, NoLosses
<1>4. CycleInv
  BY <1>2 DEF CycleInv
<1>5. CountInv
  BY <1>2 DEF CountInv, Uncounted, Days
<1>6. LateInv /\ LossInv
  BY DEF LateInv, LossInv, Zero, NoLosses
<1>7. TradesPerDay
  BY LimitAssumption DEF TradesPerDay
<1> QED BY <1>1, <1>3, <1>4, <1>5, <1>6, <1>7 DEF EngineInv

LEMMA EngineStep == TypeOK /\ EngineInv /\ [Next]_vars => TypeOK' /\ EngineInv'
<1> SUFFICES ASSUME TypeOK, EngineInv, [Next]_vars PROVE TypeOK' /\ EngineInv'
  OBVIOUS
<1>1. CASE StartCycle
  BY <1>1, StartCycleKeeps
<1>2. CASE BlockEarly \/ Refuse \/ RailsBlock
  BY <1>2, RefusalKeeps
<1>3. CASE Approve
  BY <1>3, ApproveKeeps
<1>4. CASE Submit
  BY <1>4, OrderKeeps
<1>5. CASE SubmitRaises
  BY <1>5, OrderRaisesKeeps
<1>6. CASE CountTrade
  BY <1>6, CountTradeKeeps
<1>7. CASE \E l \in Losses : UpdateAfterClose(l)
  BY <1>7, UpdateAfterCloseKeeps
<1>8. CASE Stop
  BY <1>8, StopKeeps
<1>9. CASE RaiseStopFlag \/ Stopped \/ DayPasses \/ NotebookThread
  BY <1>9, BackgroundKeeps
<1>10. CASE Crash
  BY <1>10, CrashKeeps
<1>11. CASE Restart
  BY <1>11, RestartKeeps
<1>12. CASE UNCHANGED vars
  BY <1>12 DEF vars, engineVars, writerVars, TypeOK, WriterTypeOK, EngineInv, WriterInv, CycleInv,
               CountInv, Uncounted, LateInv, LossInv, TradesPerDay
<1> QED BY <1>1, <1>2, <1>3, <1>4, <1>5, <1>6, <1>7, <1>8, <1>9, <1>10, <1>11, <1>12 DEF Next

\* The invariant holds in every reachable state of the engine.
THEOREM EngineInductive == Spec => [](TypeOK /\ EngineInv)
BY EngineInit, EngineStep, PTL DEF Spec

\* The counters, the journal's queue and the broker's books keep their types through cycles,
\* crashes and restarts (decide_and_maybe_trade, update_after_close, stop, __init__).
THEOREM EngineTypes == Spec => []TypeOK
BY EngineInductive, PTL

\* No UTC day sees more orders of its own cycles than daily_trade_limit and the faults that hid
\* one from the counters, whatever crashes and restarts come between (CountTrade, Restart), nor
\* more than one order of a cycle that midnight overtook before its order (PlaceOrder).
THEOREM TradesSafe == Spec => []TradesPerDay
BY EngineInductive, PTL DEF EngineInv

\* When stop() finds the thread finished, every event that was accepted has been handled.
THEOREM ShutdownSafe == Spec => []ShutdownComplete
<1>1. TypeOK /\ EngineInv => ShutdownComplete
  BY DEF TypeOK, WriterTypeOK, EngineInv, WriterInv, ShutdownComplete
<1> QED BY <1>1, EngineInductive, PTL

\* Where nothing was lost on the way to the table, no order is placed once the day's losses
\* reach the limit or while the last closed trade was a loss: the gate saw all of them.
THEOREM LossesSafe == Spec => LossesHalt
<1>1. TypeOK /\ EngineInv /\ [Next]_vars
        => [open' > open /\ faults' = 0 => reported.loss < LossLimit /\ reported.streak = 0]_vars
  <2> SUFFICES ASSUME TypeOK, EngineInv, Next, open' > open, faults' = 0
               PROVE  reported.loss < LossLimit /\ reported.streak = 0
    BY DEF vars, engineVars
  <2>1. open \in Nat /\ faults \in Nat
    BY EngineAssumption DEF TypeOK
  <2>2. pc = "entering" /\ faults = 0
    <3>1. CASE Submit
      BY <3>1 DEF Submit
    <3>2. CASE SubmitRaises
      <4>1. pc = "entering" /\ faults' >= faults
        BY <2>1, <3>2 DEF SubmitRaises, Persist
      <4> QED BY <2>1, <4>1
    <3>3. CASE \E l \in Losses : UpdateAfterClose(l)
      BY <2>1, <3>3 DEF UpdateAfterClose
    <3>4. CASE UNCHANGED open
      BY <2>1, <3>4
    <3> QED BY <3>1, <3>2, <3>3, <3>4 DEF Next, StartCycle, BlockEarly, Refuse, Approve,
         RailsBlock, CountTrade, Stop, RaiseStopFlag, Stopped, Crash, Restart, DayPasses,
         NotebookThread, engineVars
  <2>3. mem.loss < LossLimit /\ mem.cons = 0
    BY <2>2 DEF EngineInv, CycleInv
  <2> QED BY <2>2, <2>3 DEF EngineInv, LossInv
<1> QED BY <1>1, EngineInductive, PTL DEF Spec, LossesHalt
=============================================================================
