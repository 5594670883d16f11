------------------------------- MODULE GateV3 -------------------------------
(***************************************************************************)
(* The decision of HYDRA V3's gate (HYDRA V3/gatemind/v3): GateMindV3.     *)
(* decide with its checks, in strict mode, as an operator over three brain *)
(* summaries, the trade's geometry and the engine's counters.  A brain     *)
(* summary is                                                              *)
(*   [permission, grade, direction, confidence (percent), flagged]         *)
(* where flagged says that its reason or a warning holds a warning word,   *)
(* or, for a chart, the name of a trap.  A brain that is missing reaches   *)
(* the gate as a blocking summary of grade C.                              *)
(***************************************************************************)
EXTENDS Integers

CONSTANTS TradeLimit,   \* daily_trade_limit
          LossLimit,    \* daily_loss_limit_pct, in units of a loss
          ConsLimit     \* consecutive_losses_limit
ASSUME LimitAssumption ==
    /\ TradeLimit \in Nat \ {0} /\ LossLimit \in Nat \ {0}
    /\ ConsLimit \in 1..3       \* ABSOLUTE_MAX_CONSECUTIVE_LOSSES

Missing == [permission |-> "block", grade |-> "C", direction |-> "unclear",
            confidence |-> 0, flagged |-> FALSE]
TopGrades == {"A", "A+"}

BrainsOf(s) == {s.news, s.market, s.chart}
Clear(s) == {b.direction : b \in BrainsOf(s)} \cap {"bullish", "bearish"}

\* alignment.check, strict: three brains with one clear direction.
Alignment(s) ==
    LET perms == {b.permission : b \in BrainsOf(s)} IN
    IF "block" \in perms THEN "blocked_by_brain"
    ELSE IF perms # {"allow"} THEN "partial"
    ELSE IF \E d \in {"bullish", "bearish"} : \A b \in BrainsOf(s) : b.direction = d
         THEN "aligned" ELSE "conflicting"

Distance(x, y) == IF x > y THEN x - y ELSE y - x

\* risk_check.check over a geometry [entry, stop, target, atr]; the ratios
\* 0.3 and 3 of the ATR and 0.8 and 1.2 of the risk are kept exact.
RiskStatus(g) ==
    LET risk == Distance(g.entry, g.stop)
        reward == Distance(g.target, g.entry) IN
    IF ~g.complete THEN "missing"
    ELSE IF risk = 0 \/ reward = 0 THEN "invalid"
    ELSE IF g.atr > 0 /\ 10 * risk < 3 * g.atr THEN "stop_too_tight"
    ELSE IF g.atr > 0 /\ risk > 3 * g.atr THEN "stop_too_wide"
    ELSE IF 10 * reward < 8 * risk THEN "rr_too_low"
    ELSE IF 10 * reward < 12 * risk THEN "rr_marginal" ELSE "ok"

\* execution_check.check: pair, broker mode, then spread and slippage.  The
\* engine enables live trading exactly if its broker is the live one.
ExecutionStatus(s) ==
    IF s.pairStatus = "disabled" THEN "disabled_pair"
    ELSE IF s.pairStatus = "unknown" THEN "unknown_pair"
    ELSE IF s.broker \notin {"practice", "paper", "live", "sandbox"} THEN "broker_unsafe"
    ELSE IF s.pairStatus = "monitoring" /\ s.broker = "live" THEN "monitoring_pair_live_blocked"
    ELSE IF s.spread < 0 THEN "spread_unknown"
    ELSE IF s.spread > s.maxSpread THEN "spread_too_wide"
    ELSE IF s.slippage < 0 THEN "slippage_unknown"
    ELSE IF s.slippage > s.maxSlippage THEN "slippage_too_high" ELSE "ok"

\* state_check.check.  The engine passes no positions, no pending orders and
\* no cooldown, so only the counters can speak.
PositionState(c) ==
    IF c.loss >= LossLimit THEN "blocked_by_loss_limit"
    ELSE IF c.trades >= TradeLimit THEN "blocked_by_trade_limit"
    ELSE IF c.cons >= ConsLimit THEN "after_losses_cooldown" ELSE "flat"

\* The label the block list knows is after_3_losses_cooldown.
StateBlocks(c) ==
    \/ PositionState(c) \in {"blocked_by_loss_limit", "blocked_by_trade_limit"}
    \/ PositionState(c) = "after_losses_cooldown" /\ ConsLimit = 3

HardBlock(s, c) ==
    \/ \E b \in BrainsOf(s) : b.permission = "block" \/ b.grade \in {"B", "C"}
    \/ Alignment(s) \in {"conflicting", "blocked_by_brain"}
    \/ RiskStatus(s.geometry) \notin {"ok", "rr_marginal"}
    \/ ~s.inWindow
    \/ ExecutionStatus(s) \notin {"ok", "spread_unknown", "slippage_unknown"}
    \/ StateBlocks(c)

Waiting(s) ==
    \/ \E b \in BrainsOf(s) : b.permission = "wait"
    \/ Alignment(s) = "partial"
    \/ RiskStatus(s.geometry) = "rr_marginal"
    \/ ExecutionStatus(s) \in {"spread_unknown", "slippage_unknown"}
    \/ s.news.confidence + s.market.confidence + s.chart.confidence < 180

\* decision_engine.synthesize: block, enter only if everything is in order,
\* else wait.
Synthesize(s, c) ==
    IF HardBlock(s, c) THEN "block"
    ELSE IF /\ ~Waiting(s)
            /\ \A b \in BrainsOf(s) : b.permission = "allow" /\ b.grade \in TopGrades
            /\ Alignment(s) = "aligned"
            /\ PositionState(c) = "flat"
         THEN "enter" ELSE "wait"

\* contradictions.detect, by severity.
CriticalContradiction(s) ==
    \/ s.pairStatus = "monitoring" /\ s.broker = "live"
    \/ Clear(s) = {"bullish", "bearish"}
HighContradiction(s) == \E b \in BrainsOf(s) : b.grade \in TopGrades /\ b.flagged
\* Mutant of MediumContradiction: a recent loss is no reason to wait.
MediumContradictionForgiving(s, c) ==
    \/ 10 * s.spread > 7 * s.maxSpread
    \/ s.nearEnd /\ s.inWindow

MediumContradiction(s, c) ==
    \/ 10 * s.spread > 7 * s.maxSpread
    \/ s.nearEnd /\ s.inWindow
    \/ c.cons \in {1, 2}        \* a recent loss, and a cooldown is never set

\* GateMindV3.decide: contradictions override the synthesis, never upwards.
GateDecide(s, c) ==
    LET d == Synthesize(s, c) IN
    IF CriticalContradiction(s) THEN "block"
    ELSE IF d = "enter" /\ (HighContradiction(s) \/ MediumContradiction(s, c))
         THEN "wait" ELSE d
=============================================================================
