---------------------------- MODULE PnLSimulator ----------------------------
(***************************************************************************)
(* One trade of the back-test simulator (replay/pnl_simulator.py): it is   *)
(* entered at the open of the bar after the signal, walked bar by bar with *)
(* a stop that may move to the entry (break-even) and trail the best       *)
(* price, and resolved by stop, target, time or the end of the data.       *)
(*                                                                         *)
(* Prices are whole pips, seen from the trade's side: larger is better, so *)
(* a SELL is a BUY over mirrored prices (its best price is the bar's low,  *)
(* it is filled at the bid minus slippage, ...).  The quote of the entry   *)
(* is the origin.                                                          *)
(***************************************************************************)
EXTENDS Integers

CONSTANTS SlPips, TpPips,       \* fixed stop and target distances
          Slip,                 \* slippage_pips
          MaxBars,              \* max_bars_in_trade
          BeR, TrailR,          \* breakeven_at_r and trail_at_r, 0 disables
          Candidates,           \* signals: [refs, stop, target, atr]
          Bars                  \* bars: [best, worst, close]
ASSUME SimulatorAssumption ==
    /\ SlPips \in Nat \ {0} /\ TpPips \in Nat \ {0} /\ Slip \in Nat
    /\ MaxBars \in Nat \ {0} /\ BeR \in Nat /\ TrailR \in Nat
    /\ Candidates \subseteq [refs : BOOLEAN, stop : Int, target : Int, atr : Nat]
    /\ Bars \subseteq [best : Int, worst : Int, close : Int]
    /\ \A b \in Bars : b.worst <= b.close /\ b.close <= b.best

VARIABLES phase,        \* "idle", "walk", "closed"
          atr,          \* the candidate's ATR, 0 if it has none
          risk,         \* initial_risk
          firstStop,    \* observer: the stop the trade was opened with
          stop, target, \* sl_price, tp_price
          peak,         \* best price so far (peak, or trough of a SELL)
          beArmed, trailArmed,
          walked,       \* bars walked: k
          mark,         \* exit_price while the trade is open: the last close
          outcome       \* [reason, pnl] of a closed trade

vars == <<phase, atr, risk, firstStop, stop, target, peak, beArmed, trailArmed, walked,
          mark, outcome>>

Reasons == {"SL", "BE_SL", "TRAIL_SL", "TP", "TIMEOUT", "DATA_END"}
Open == [reason |-> "open", pnl |-> 0]
Entry == Slip           \* entry_price: the quote and the slippage
LargerOf(x, y) == IF x > y THEN x ELSE y
Distance(x, y) == IF x > y THEN x - y ELSE y - x

TypeOK ==
    /\ phase \in {"idle", "walk", "closed"}
    /\ atr \in Nat /\ risk \in Nat
    /\ firstStop \in Int /\ stop \in Int /\ target \in Int /\ peak \in Int
    /\ beArmed \in BOOLEAN /\ trailArmed \in BOOLEAN
    /\ walked \in 0..MaxBars /\ mark \in Int
    /\ outcome \in [reason : Reasons \cup {"open"}, pnl : Int]
    /\ phase = "walk" => risk > 0

Init ==
    /\ phase = "idle" /\ atr = 0 /\ risk = 0
    /\ firstStop = 0 /\ stop = 0 /\ target = 0 /\ peak = 0
    /\ beArmed = FALSE /\ trailArmed = FALSE /\ walked = 0 /\ mark = 0
    /\ outcome = Open

\* The levels of a candidate: its references if it has both, else fixed
\* distances from the entry.
StopOf(c) == IF c.refs THEN c.stop ELSE Entry - SlPips
TargetOf(c) == IF c.refs THEN c.target ELSE Entry + TpPips
\* Mutant of RiskOf: the fixed distance, also of a trade with references.
RiskOfFixed(c) == SlPips

RiskOf(c) == IF c.refs THEN Distance(Entry, c.stop) ELSE SlPips

\* Mutant of OpenTrade: a trade without risk is opened.
OpenTradeRiskless ==
    /\ phase \in {"idle", "closed"}
    /\ \E c \in Candidates :
        /\ atr' = c.atr /\ risk' = RiskOf(c)
        /\ stop' = StopOf(c) /\ firstStop' = StopOf(c) /\ target' = TargetOf(c)
    /\ phase' = "walk" /\ peak' = Entry /\ mark' = Entry
    /\ beArmed' = FALSE /\ trailArmed' = FALSE /\ walked' = 0
    /\ outcome' = Open

\* A candidate whose entry bar is missing, or whose risk is zero, is skipped.
OpenTrade ==
    /\ phase \in {"idle", "closed"}
    /\ \E c \in Candidates :
        /\ RiskOf(c) > 0
        /\ atr' = c.atr /\ risk' = RiskOf(c)
        /\ stop' = StopOf(c) /\ firstStop' = StopOf(c) /\ target' = TargetOf(c)
    /\ phase' = "walk" /\ peak' = Entry /\ mark' = Entry     \* set by every bar before it is used
    /\ beArmed' = FALSE /\ trailArmed' = FALSE /\ walked' = 0
    /\ outcome' = Open

\* 1.5 ATR behind the peak; without an ATR, 1.5 times risk / 1.5.
TrailDistance == IF atr = 0 THEN risk ELSE (3 * atr) \div 2

\* The stop after a bar: first to break-even, then behind the peak.
Armed(r, p) == r > 0 /\ p - Entry >= r * risk

\* Mutant of BreakEvenStop: break-even at the quote, the slippage paid is forgotten.
BreakEvenStopAtQuote(p) == IF ~beArmed /\ Armed(BeR, p) THEN LargerOf(stop, 0) ELSE stop

BreakEvenStop(p) == IF ~beArmed /\ Armed(BeR, p) THEN LargerOf(stop, Entry) ELSE stop

MovedStop(p) ==
    LET s == BreakEvenStop(p) IN
    IF trailArmed \/ Armed(TrailR, p) THEN LargerOf(s, p - TrailDistance) ELSE s

StopReason(be, trail) == IF trail THEN "TRAIL_SL" ELSE IF be THEN "BE_SL" ELSE "SL"

\* Exit-side slippage is taken for SL and TP only.
Close(reason, price) ==
    /\ phase' = "closed"
    /\ outcome' = [reason |-> reason,
                   pnl |-> (IF reason \in {"SL", "TP"} THEN price - Slip ELSE price) - Entry]

\* One turn of the loop: extremes, break-even, trail, then stop before
\* target, all on the same bar.
WalkBar(b) ==
    LET p == LargerOf(peak, b.best)
        s == MovedStop(p) IN
    /\ phase = "walk" /\ walked < MaxBars
    /\ peak' = p /\ stop' = s
    /\ beArmed' = (beArmed \/ Armed(BeR, p))
    /\ trailArmed' = (trailArmed \/ Armed(TrailR, p))
    /\ walked' = walked + 1
    /\ IF b.worst <= s
       THEN Close(StopReason(beArmed', trailArmed'), s) /\ UNCHANGED mark
       ELSE IF b.best >= target
       THEN Close("TP", target) /\ UNCHANGED mark
       ELSE mark' = b.close /\ UNCHANGED <<phase, outcome>>
    /\ UNCHANGED <<atr, risk, firstStop, target>>

\* The loop is over, or the bars are.
Expire ==
    /\ phase = "walk"
    /\ \/ walked = MaxBars /\ Close("TIMEOUT", mark)
       \/ walked \in 1..(MaxBars - 1) /\ Close("DATA_END", mark)
    /\ UNCHANGED <<atr, risk, firstStop, stop, target, peak, beArmed, trailArmed, walked, mark>>

Next == OpenTrade \/ (\E b \in Bars : WalkBar(b)) \/ Expire

Spec == Init /\ [][Next]_vars

-----------------------------------------------------------------------------
(* While a trade is open its stop moves in the trade's favour or not at    *)
(* all, through break-even and trailing in whatever order they arm.        *)
StopOnlyTightens == [][phase = "walk" => stop' >= stop]_vars

(* A closed trade has lost at most its initial risk and one slippage,      *)
(* however the bars ran, timeouts and the end of the data included, unless *)
(* the entry had jumped past its target.                                   *)
LossBounded ==
    phase = "closed" /\ target >= Entry => outcome.pnl >= -(risk + Slip)

(* Once break-even is armed the trade cannot end in a loss, also not by a  *)
(* timeout, except by a target on the wrong side of the entry.             *)
ArmedNeverLoses ==
    phase = "closed" /\ beArmed /\ outcome.reason # "TP" => outcome.pnl >= 0
=============================================================================
