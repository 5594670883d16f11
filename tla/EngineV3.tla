------------------------------ MODULE EngineV3 ------------------------------
(***************************************************************************)
(* HYDRA V3's engine (HYDRA V3/engine/v3/EngineV3.py) with its gate, its   *)
(* safety rails, its notebook and a broker: one decide_and_maybe_trade     *)
(* after another by a single thread, closed trades reported in between,    *)
(* the day counters kept in memory and in the notebook's engine_state      *)
(* table.  The process may crash between any two steps and be restarted.   *)
(*                                                                         *)
(* A fault is a failed write of engine_state (write_engine_state returns   *)
(* FALSE and nobody looks), a broker call that raises although the order   *)
(* was placed, or a crash between the order and the counter.               *)
(***************************************************************************)
EXTENDS GateV3, AsyncWriter

CONSTANTS Setups,       \* what a cycle may be given (brains, bars, spread ...)
          Losses,       \* loss of a closed trade, in units of daily_loss_pct; 0 is a win
          MaxDay, MaxFaults, MaxEvents,     \* bounds of the model
          HealthFactor  \* 20: degraded when more than 1/20 of the writes dropped
ASSUME EngineAssumption ==
    /\ MaxDay \in Nat \ {0} /\ MaxFaults \in Nat /\ MaxEvents \in Nat
    /\ HealthFactor \in Nat \ {0}
    /\ Losses \subseteq Nat

VARIABLES today,        \* the UTC day of the clock
          proc,         \* "up", "stopping", "down"
          pc,           \* where the cycle is: "idle", "decide", "entering", "placed"
          hasBroker,    \* self.broker is not None, fixed for a process
          mem,          \* the counters [loss, cons, trades, date] of the engine
          disk,         \* the row of engine_state; no row loads as Zero(0)
          calls,        \* record_decision and record_trade calls of this process
          failed,       \* metrics.dropped_events: synchronous writes that failed
          orders,       \* at the broker: orders placed per UTC day, by that day's cycles
          late,         \* at the broker: orders placed per UTC day, by a cycle that an
                        \* earlier day began
          open,         \* at the broker: open trades
          reported,     \* observer: losses reported since the first cycle of the day
          faults        \* observer

engineVars == <<today, proc, pc, hasBroker, mem, disk, calls, failed,
                orders, late, open, reported, faults>>
vars == <<engineVars, writerVars>>

Days == 1..MaxDay
Counters == [loss : Nat, cons : Nat, trades : Nat, date : 0..MaxDay]
NoLosses(day) == [day |-> day, loss |-> 0, streak |-> 0]
Zero(day) == [loss |-> 0, cons |-> 0, trades |-> 0, date |-> day]

TypeOK ==
    /\ today \in Days /\ proc \in {"up", "stopping", "down"}
    /\ pc \in {"idle", "decide", "entering", "placed"}
    /\ hasBroker \in BOOLEAN
    /\ mem \in Counters /\ disk \in Counters
    /\ calls \in Nat /\ failed \in Nat
    /\ orders \in [Days -> Nat] /\ late \in [Days -> Nat] /\ open \in Nat
    /\ reported \in [day : 0..MaxDay, loss : Nat, streak : Nat]
    /\ faults \in 0..MaxFaults
    /\ WriterTypeOK

Init ==
    /\ today = 1 /\ proc = "up" /\ pc = "idle" /\ hasBroker \in BOOLEAN
    /\ mem = Zero(0) /\ disk = Zero(0)
    /\ calls = 0 /\ failed = 0
    /\ orders = [d \in Days |-> 0] /\ late = [d \in Days |-> 0] /\ open = 0
    /\ reported = NoLosses(0) /\ faults = 0
    /\ FreshWriter

-----------------------------------------------------------------------------
(* Helpers of the engine.                                                  *)

\* _persist_state: the row is replaced, or the write fails unnoticed.
Persist(c, cost) ==
    \/ disk' = c /\ faults' = faults + cost
    \/ /\ faults + cost < MaxFaults
       /\ faults' = faults + cost + 1 /\ UNCHANGED disk

\* record_decision of anything but a trade: the writer's queue.
JournalAsync == calls' = calls + 1 /\ SubmitEvent

\* A synchronous write, of a trade's decision or of the trade.
JournalSync ==
    /\ calls' = calls + 1
    /\ failed' \in {failed, failed + 1}
    /\ UNCHANGED writerVars

\* storage_health() in ("ok", "warnings"), over the metrics of the call.
Writable(n, f) == n > 0 /\ HealthFactor * f <= n

\* calculate_position_size and safety_rails.check_all on a gate that says
\* enter; the counters are checked once more.
PositionValid(s) == s.geometry.complete /\ s.geometry.entry # s.geometry.stop /\ s.units >= 1
RailsPass(s, c, writable) ==
    /\ PositionValid(s)
    /\ c.loss < LossLimit /\ c.cons < ConsLimit /\ c.trades < TradeLimit
    /\ writable
    /\ s.spread <= s.maxSpread /\ s.slippage <= s.maxSlippage /\ ~s.overRiskCap
    /\ s.pairStatus \notin {"disabled", "unknown"}
    /\ s.broker \in {"practice", "paper", "live"}
    /\ ~(s.pairStatus = "monitoring" /\ s.broker = "live")

\* The language model's second opinion on an enter: it may only take it back.
LlmReview(d) == IF d = "enter" THEN {"enter", "wait", "block"} ELSE {d}

-----------------------------------------------------------------------------
(* decide_and_maybe_trade.                                                 *)

\* _daily_reset_if_needed, before anything else.
StartCycle ==
    /\ proc = "up" /\ pc = "idle" /\ calls + 2 <= MaxEvents
    /\ pc' = "decide"
    /\ IF mem.date = today
       THEN UNCHANGED <<mem, disk, faults>>
       ELSE mem' = Zero(today) /\ Persist(mem', 0)
    /\ reported' = IF reported.day = today THEN reported ELSE NoLosses(today)
    /\ UNCHANGED <<today, proc, hasBroker, calls, failed, orders, late, open, writerVars>>

\* Too few bars, or an ATR that is not positive.
BlockEarly ==
    /\ pc = "decide"
    /\ \E s \in Setups : ~s.atrValid
    /\ JournalAsync /\ Persist(mem, 0)
    /\ pc' = "idle"
    /\ UNCHANGED <<today, proc, hasBroker, mem, failed, orders, late, open, reported>>

\* Gate or review say wait or block.
Refuse ==
    /\ pc = "decide"
    /\ \E s \in Setups : s.atrValid /\ LlmReview(GateDecide(s, mem)) \cap {"wait", "block"} # {}
    /\ JournalAsync /\ Persist(mem, 0)
    /\ pc' = "idle"
    /\ UNCHANGED <<today, proc, hasBroker, mem, failed, orders, late, open, reported>>

\* The decision of an enter is journalled first, synchronously, then the
\* rails look at the counters and at the notebook's health.
Approve ==
    /\ pc = "decide"
    /\ JournalSync
    /\ \E s \in Setups :
        /\ s.atrValid /\ GateDecide(s, mem) = "enter"
        /\ RailsPass(s, mem, Writable(calls', failed'))
    /\ \/ hasBroker /\ pc' = "entering" /\ UNCHANGED <<disk, faults>>
       \/ ~hasBroker /\ pc' = "idle" /\ Persist(mem, 0)         \* enter_dry_run
    /\ UNCHANGED <<today, proc, hasBroker, mem, orders, late, open, reported>>

RailsBlock ==
    /\ pc = "decide"
    /\ calls' = calls + 2
    /\ failed' \in {failed, failed + 1}
    /\ \E s \in Setups :
        /\ s.atrValid /\ GateDecide(s, mem) = "enter"
        /\ ~RailsPass(s, mem, Writable(calls + 1, failed'))
    /\ SubmitEvent /\ Persist(mem, 0)
    /\ pc' = "idle"
    /\ UNCHANGED <<today, proc, hasBroker, mem, orders, late, open, reported>>

\* The broker takes the order on the day that is; the cycle, and the counters
\* that let it pass, may be those of the day before.
PlaceOrder ==
    /\ \/ /\ mem.date = today
          /\ orders' = [orders EXCEPT ![today] = @ + 1] /\ UNCHANGED late
       \/ /\ mem.date # today
          /\ late' = [late EXCEPT ![today] = @ + 1] /\ UNCHANGED orders
    /\ open' = open + 1

\* submit_market_order returns.
Submit ==
    /\ proc = "up" /\ pc = "entering"
    /\ PlaceOrder
    /\ pc' = "placed"
    /\ UNCHANGED <<today, proc, hasBroker, mem, disk, calls, failed, reported, faults,
                   writerVars>>

\* submit_market_order raises: order_not_submitted, says the bug that is
\* recorded, but the order may have been placed before the answer was lost.
SubmitRaises ==
    /\ proc = "up" /\ pc = "entering"
    /\ \/ UNCHANGED <<orders, late, open>> /\ Persist(mem, 0)
       \/ PlaceOrder /\ faults < MaxFaults /\ Persist(mem, 1)
    /\ pc' = "idle"
    /\ UNCHANGED <<today, proc, hasBroker, mem, calls, failed, reported, writerVars>>

\* record_trade, then the counter, then _persist_state.
CountTrade ==
    /\ proc = "up" /\ pc = "placed"
    /\ JournalSync
    /\ mem' = [mem EXCEPT !.trades = @ + 1]
    /\ Persist(mem', 0)
    /\ pc' = "idle"
    /\ UNCHANGED <<today, proc, hasBroker, orders, late, open, reported>>

\* update_after_close, called between cycles.
UpdateAfterClose(l) ==
    /\ proc = "up" /\ pc = "idle" /\ open > 0
    /\ open' = open - 1
    /\ IF l > 0
       THEN /\ mem' = [mem EXCEPT !.cons = @ + 1, !.loss = @ + l]
            /\ reported' = [reported EXCEPT !.loss = @ + l, !.streak = @ + 1]
       ELSE /\ mem' = [mem EXCEPT !.cons = 0]
            /\ reported' = [reported EXCEPT !.streak = 0]
    /\ Persist(mem', 0)
    /\ UNCHANGED <<today, proc, pc, hasBroker, calls, failed, orders, late, writerVars>>

-----------------------------------------------------------------------------
(* The process: stop(), crashes, restarts, the clock.                      *)

\* stop(): persist, then nb.stop() flushes.
Stop ==
    /\ proc = "up" /\ pc = "idle"
    /\ proc' = "stopping"
    /\ UNCHANGED mem /\ Persist(mem, 0)
    /\ UNCHANGED <<today, pc, hasBroker, calls, failed, orders, late, open, reported, writerVars>>

\* flush returns, with everything written or after two seconds, whichever comes
\* first; the flag tells the thread.
RaiseStopFlag ==
    /\ proc = "stopping" /\ ~stopFlag
    /\ stopFlag' = TRUE
    /\ UNCHANGED <<engineVars, queued, batch, submitted, written, dropped, handled, thread>>

\* join returns with the thread dead.
Stopped ==
    /\ proc = "stopping" /\ thread = "dead"
    /\ proc' = "down"
    /\ UNCHANGED <<today, pc, hasBroker, mem, disk, calls, failed, orders, late, open,
                   reported, faults, writerVars>>

\* Also a join that times out and the daemon thread that dies with the process.
Crash ==
    /\ proc # "down"
    /\ proc' = "down" /\ pc' = "idle"
    /\ IF pc = "placed" THEN faults < MaxFaults /\ faults' = faults + 1 ELSE UNCHANGED faults
    /\ thread' = "dead"
    /\ UNCHANGED <<today, hasBroker, mem, disk, calls, failed, orders, late, open, reported,
                   queued, batch, submitted, written, dropped, handled, stopFlag>>

\* Mutant of Restart: the row of engine_state is not read.
RestartAfresh ==
    /\ proc = "down"
    /\ proc' = "up" /\ pc' = "idle" /\ hasBroker' \in BOOLEAN
    /\ mem' = Zero(0)
    /\ calls' = 0 /\ failed' = 0
    /\ RestartWriter
    /\ UNCHANGED <<today, disk, orders, late, open, reported, faults>>

\* __init__: the counters of the row, or zeroes.
Restart ==
    /\ proc = "down"
    /\ proc' = "up" /\ pc' = "idle" /\ hasBroker' \in BOOLEAN
    /\ mem' = disk
    /\ calls' = 0 /\ failed' = 0
    /\ RestartWriter
    /\ UNCHANGED <<today, disk, orders, late, open, reported, faults>>

DayPasses ==
    /\ today < MaxDay
    /\ today' = today + 1
    /\ UNCHANGED <<proc, pc, hasBroker, mem, disk, calls, failed, orders, late, open,
                   reported, faults, writerVars>>

NotebookThread == proc # "down" /\ WriterStep /\ UNCHANGED engineVars

Next ==
    \/ StartCycle \/ BlockEarly \/ Refuse \/ Approve \/ RailsBlock
    \/ Submit \/ SubmitRaises \/ CountTrade
    \/ \E l \in Losses : UpdateAfterClose(l)
    \/ Stop \/ RaiseStopFlag \/ Stopped \/ Crash \/ Restart
    \/ DayPasses \/ NotebookThread

\* The daemon thread is scheduled; nothing is assumed of the engine's
\* caller, of the clock or of restarts.
Spec == Init /\ [][Next]_vars /\ WF_vars(NotebookThread)

-----------------------------------------------------------------------------
(* On one UTC day the broker gets at most daily_trade_limit orders of the  *)
(* cycles that begin on it, across crashes and restarts, one more for each *)
(* fault, and at most one of a cycle that midnight overtook between its    *)
(* look at the clock and its order, which the new day's limit never sees.  *)
TradesPerDay == \A d \in Days : orders[d] <= TradeLimit + faults /\ late[d] <= 1

(* While nothing was lost on the way to engine_state, no order is placed   *)
(* when the losses reported since the day's first cycle have reached the   *)
(* daily limit, nor after a loss that no win has followed - also not by a  *)
(* process restarted after them, and with any limit on consecutive losses. *)
LossesHalt ==
    [][open' > open /\ faults' = 0 => reported.loss < LossLimit /\ reported.streak = 0]_vars

(* When stop() found the notebook's thread finished, every event that the  *)
(* queue had accepted has been given to the storage.                       *)
ShutdownComplete == proc = "stopping" /\ thread = "dead" => handled = submitted

(* Events that wait are written, unless the process dies first: the queue  *)
(* and the batch run empty, also when no event follows.  A busy stream     *)
(* would keep them filled; MaxEvents ends it, which is the case that the   *)
(* thread's timeout on an empty queue is there for.                        *)
JournalSettles == (queued + batch > 0 /\ proc = "up") ~> (queued + batch = 0 \/ proc = "down")
=============================================================================
