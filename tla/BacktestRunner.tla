--------------------------- MODULE BacktestRunner ---------------------------
(***************************************************************************)
(* The bar loop of the HYDRA V3 back-test (Backtest/runner.py) with its    *)
(* risk manager (Backtest/risk.py).  Every bar rolls the day, handles a    *)
(* drawdown halt, fills the signal of the bar before, manages the open     *)
(* position and may emit the next signal, in this order.                   *)
(*                                                                         *)
(* Prices are whole pips, seen from the trade's side (larger is better),   *)
(* with the plan's entry price as origin.  Lots are counted in halves of   *)
(* the smallest lot, so that the grade multipliers 0.5, 1 and 1.5 are      *)
(* whole, and money in the value of one pip of half a lot.  The bars that  *)
(* only fill the history (fewer than 50) are left out: they do nothing     *)
(* but roll the day.                                                       *)
(***************************************************************************)
EXTENDS Integers

CONSTANTS Capital,          \* starting_equity
          RiskPct, DailyCapPct, DrawdownCapPct, MaxLosses,  \* RiskManager
          EquityPerLot,     \* the ceiling on a lot: equity / 200, in these units
          EntryCost, StopSlip, TargetSlip, Fee,             \* CostModel, per lot
          MaxTradesPerDay, MaxDayLosses,                    \* VariantFilter, 0 is no limit
          TrailR, TimeBudget, PauseDays,
          Plans,            \* actionable plans: [stop, target, mult], mult in halves
          Bars,             \* [open, best, worst, close]
          MaxGap, MaxBars   \* bounds: days between two bars, bars of the data
ASSUME BacktestAssumption ==
    /\ {Capital, MaxLosses, EquityPerLot, TimeBudget, PauseDays, DailyCapPct}
           \subseteq Nat \ {0}
    /\ {RiskPct, DrawdownCapPct, EntryCost, StopSlip, TargetSlip, Fee,
        MaxTradesPerDay, MaxDayLosses, TrailR, MaxGap, MaxBars} \subseteq Nat
    /\ Plans \subseteq [stop : Int, target : Int, mult : Nat]
    /\ Bars \subseteq [open : Int, best : Int, worst : Int, close : Int]
    /\ \A b \in Bars : {b.open, b.close} \subseteq b.worst..b.best

VARIABLES mode,     \* what the variant does at a halt: "kill", "pause", "off"
          pc,       \* the phase of the bar: "bar", "halt", "trade", "signal"; "done"
          day, seen,                    \* the bar's date, bars_seen
          pending, pos,                 \* _pending, _open
          state,                        \* _risk_state
          tradesToday, lossesToday,     \* _trades_today, _consec_losses_today
          resumeDay,                    \* _halt_resume_date
          haltDay                       \* observer: the day of the last halt

clock == <<mode, day, seen>>
limits == <<tradesToday, lossesToday>>
vars == <<mode, pc, day, seen, pending, pos, state, tradesToday, lossesToday,
          resumeDay, haltDay>>

NoSignal == [stop |-> 0, target |-> 0, lot |-> 0]
NoPosition == [entry |-> 0, stop |-> 0, target |-> 0, lot |-> 0, risk |-> 0,
               held |-> 0, mfe |-> 0, trailed |-> FALSE]
NoDay == -1

InitialRisk(e) == [equity |-> e, peak |-> e, dayStart |-> e, dayPnl |-> 0,
                   streak |-> 0, halted |-> FALSE]

Init ==
    /\ mode \in {"kill", "pause", "off"}
    /\ pc = "bar" /\ day = 0 /\ seen = 0
    /\ pending = NoSignal /\ pos = NoPosition /\ state = InitialRisk(Capital)
    /\ tradesToday = 0 /\ lossesToday = 0 /\ resumeDay = NoDay /\ haltDay = NoDay

-----------------------------------------------------------------------------
\* The risk manager.
DrawdownBreached(s) ==
    s.peak > 0 /\ (s.peak - s.equity) * 100 >= DrawdownCapPct * s.peak
DayLossBreached(s) == s.dayStart > 0 /\ -s.dayPnl * 100 >= DailyCapPct * s.dayStart

\* evaluate_entry, checks 1 to 4.
RiskAllows(s) ==
    /\ ~s.halted /\ ~DrawdownBreached(s) /\ ~DayLossBreached(s)
    /\ s.streak < MaxLosses

\* Checks 5 to 7: the lot for a stop `distance` pips away, rounded to the nearest.
Lot(s, distance) == (s.equity * RiskPct + 100 * distance) \div (200 * distance)
Sized(s, p) == p.stop < 0 /\ Lot(s, -p.stop) \in 1..(s.equity \div EquityPerLot)

OnTradeClosed(s, pnl) ==
    LET t == [s EXCEPT !.equity = @ + pnl,
                       !.peak = IF s.equity + pnl > @ THEN s.equity + pnl ELSE @,
                       !.dayPnl = @ + pnl,
                       !.streak = IF pnl < 0 THEN @ + 1 ELSE 0]
    IN [t EXCEPT !.halted = @ \/ DrawdownBreached(t)]

OnNewDay(s) == [s EXCEPT !.dayStart = s.equity, !.dayPnl = 0, !.streak = 0]

-----------------------------------------------------------------------------
\* The next bar, on the same day or later; the day's counters are reset on a new one.
NextBar ==
    /\ pc = "bar" /\ seen < MaxBars
    /\ \E gap \in 0..MaxGap :
        /\ day' = day + gap
        /\ IF gap = 0 THEN UNCHANGED <<state, tradesToday, lossesToday>>
           ELSE /\ state' = OnNewDay(state)
                /\ tradesToday' = 0 /\ lossesToday' = 0
    /\ seen' = seen + 1 /\ pc' = "halt"
    /\ UNCHANGED <<mode, pending, pos, resumeDay, haltDay>>

NoHalt ==
    /\ pc = "halt" /\ (~state.halted \/ mode = "off")
    /\ pc' = "trade"
    /\ UNCHANGED <<clock, pending, pos, state, limits, resumeDay, haltDay>>

\* The loop ends for good: at the data's end, or by the kill switch.
Finish ==
    /\ \/ pc = "bar" /\ seen = MaxBars
       \/ pc = "halt" /\ state.halted /\ mode = "kill"
    /\ pc' = "done"
    /\ UNCHANGED <<clock, pending, pos, state, limits, resumeDay, haltDay>>

ResumeOn == IF resumeDay = NoDay THEN day + PauseDays ELSE resumeDay

\* On pause: the bar is skipped.
Pause ==
    /\ pc = "halt" /\ state.halted /\ mode = "pause" /\ day < ResumeOn
    /\ resumeDay' = ResumeOn /\ pc' = "bar"
    /\ UNCHANGED <<clock, pending, pos, state, limits, haltDay>>

\* Mutant of Resume: the date of the resumption is kept.
ResumeKeepsDate ==
    /\ pc = "halt" /\ state.halted /\ mode = "pause" /\ day >= ResumeOn
    /\ state' = InitialRisk(state.equity) /\ resumeDay' = ResumeOn /\ pc' = "trade"
    /\ UNCHANGED <<clock, pending, pos, limits, haltDay>>

\* The pause is over: the drawdown is counted from the present equity.
Resume ==
    /\ pc = "halt" /\ state.halted /\ mode = "pause" /\ day >= ResumeOn
    /\ state' = InitialRisk(state.equity) /\ resumeDay' = NoDay /\ pc' = "trade"
    /\ UNCHANGED <<clock, pending, pos, limits, haltDay>>

\* A. The signal of the bar before is filled at this bar's open, at any price.
Filled(b) ==
    LET entry == b.open + EntryCost IN
    IF pending = NoSignal THEN pos
    ELSE [NoPosition EXCEPT
            !.entry = entry, !.stop = pending.stop, !.target = pending.target,
            !.lot = pending.lot,
            !.risk = IF entry > pending.stop THEN entry - pending.stop
                                             ELSE pending.stop - entry]

\* The stop of `p` after its best excursion: break-even first, and then half of the
\* risk behind the excursion.
BreakEven(p) == TrailR > 0 /\ p.risk > 0 /\ p.mfe >= TrailR * p.risk
Trailed(p) ==
    LET be == p.trailed \/ BreakEven(p)
        s == IF be /\ ~p.trailed THEN p.entry ELSE p.stop
        behind == p.entry + p.mfe - p.risk \div 2
    IN [p EXCEPT !.trailed = be,
                 !.stop = IF be /\ 2 * p.mfe > (2 * TrailR + 1) * p.risk /\ behind > s
                          THEN behind ELSE s]

\* B. The position after the bar's range: its stop is trailed before it is checked.
Managed(p, b) ==
    LET best == b.best - p.entry IN
    Trailed([p EXCEPT !.held = @ + 1, !.mfe = IF best > @ THEN best ELSE @])

\* The price at which the bar closes `p`, in the order of the checks; none if it stays.
ExitPrices(p, b) ==
    IF b.worst <= p.stop THEN {p.stop - StopSlip}
    ELSE IF b.best >= p.target THEN {p.target - TargetSlip}
    ELSE IF p.held >= TimeBudget THEN {b.close - EntryCost}
    ELSE {}

Close(p, price) ==
    LET pnl == (price - p.entry - Fee) * p.lot IN
    /\ pos' = NoPosition
    /\ state' = OnTradeClosed(state, pnl)
    /\ lossesToday' = IF pnl < 0 THEN lossesToday + 1 ELSE 0
    /\ haltDay' = IF state'.halted /\ ~state.halted THEN day ELSE haltDay

NothingToTrade ==
    /\ pc = "trade" /\ pending = NoSignal /\ pos = NoPosition
    /\ pc' = "signal"
    /\ UNCHANGED <<clock, pending, pos, state, limits, resumeDay, haltDay>>

\* Mutant of TradeBar: the signal is not taken off when it is filled.
TradeBarKeepsSignal(b) ==
    LET p == Managed(Filled(b), b) IN
    /\ pc = "trade" /\ ~(pending = NoSignal /\ pos = NoPosition)
    /\ pc' = "signal"
    /\ tradesToday' = IF pending = NoSignal THEN tradesToday ELSE tradesToday + 1
    /\ IF ExitPrices(p, b) = {}
       THEN pos' = p /\ UNCHANGED <<state, lossesToday, haltDay>>
       ELSE \E price \in ExitPrices(p, b) : Close(p, price)
    /\ UNCHANGED <<clock, pending, resumeDay>>

\* Phases A and B on one bar.
TradeBar(b) ==
    LET p == Managed(Filled(b), b) IN
    /\ pc = "trade" /\ ~(pending = NoSignal /\ pos = NoPosition)
    /\ pc' = "signal"
    /\ pending' = NoSignal
    /\ tradesToday' = IF pending = NoSignal THEN tradesToday ELSE tradesToday + 1
    /\ IF ExitPrices(p, b) = {}
       THEN pos' = p /\ UNCHANGED <<state, lossesToday, haltDay>>
       ELSE \E price \in ExitPrices(p, b) : Close(p, price)
    /\ UNCHANGED <<clock, resumeDay>>

\* The variant's limits of the day.
DayAllows ==
    /\ MaxTradesPerDay > 0 => tradesToday < MaxTradesPerDay
    /\ MaxDayLosses > 0 => lossesToday < MaxDayLosses

\* C. With nothing open, a plan that passes every filter and the risk check is queued.
Emit ==
    /\ pc = "signal" /\ pos = NoPosition /\ DayAllows /\ RiskAllows(state)
    /\ \E p \in {x \in Plans : x.mult > 0 /\ Sized(state, x)} :
        pending' = [stop |-> p.stop, target |-> p.target, lot |-> Lot(state, -p.stop) * p.mult]
    /\ pc' = "bar"
    /\ UNCHANGED <<clock, pos, state, limits, resumeDay, haltDay>>

\* A position is open, there is no actionable plan, or a filter (session, blackout,
\* volatility, spread, regime, hour, setup, confidence, grade, risk) refuses it.
NoEmit ==
    /\ pc = "signal" /\ pc' = "bar"
    /\ UNCHANGED <<clock, pending, pos, state, limits, resumeDay, haltDay>>

Next == NextBar \/ NoHalt \/ Finish \/ Pause \/ Resume \/ NothingToTrade
        \/ (\E b \in Bars : TradeBar(b)) \/ Emit \/ NoEmit

Spec == Init /\ [][Next]_vars

-----------------------------------------------------------------------------
(* An order that waits and a position that is open were decided on the    *)
(* figures of an earlier bar: until the trade is closed those figures      *)
(* would allow it still, so that no trade is held past a drawdown or day   *)
(* cap, a streak or a cooling-off, and the overshoot of each cap is one    *)
(* trade at most.                                                          *)
ExposureAllowed ==
    pending # NoSignal \/ pos # NoPosition =>
        /\ RiskAllows(state)
        /\ MaxDayLosses > 0 => lossesToday < MaxDayLosses
        /\ MaxTradesPerDay > 0 => tradesToday + (IF pending # NoSignal THEN 1 ELSE 0) <= MaxTradesPerDay

(* After a drawdown halt no order is queued before the whole pause has     *)
(* been served, also after the second halt of a run; without a pause,      *)
(* never again.                                                            *)
PauseServed ==
    pending # NoSignal =>
        haltDay = NoDay \/ (mode = "pause" /\ day >= haltDay + PauseDays)
=============================================================================
