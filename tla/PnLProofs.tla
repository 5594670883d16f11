------------------------------ MODULE PnLProofs ------------------------------
(***************************************************************************)
(* Proofs about one simulated trade, for every price, distance and bar.    *)
(***************************************************************************)
EXTENDS PnLSimulator, TLAPS

(* The larger of two prices is a price, and at least either.               *)
LEMMA LargerOfType == ASSUME NEW x \in Int, NEW y \in Int
                      PROVE  LargerOf(x, y) \in Int /\ LargerOf(x, y) >= x
                             /\ LargerOf(x, y) >= y
  BY DEF LargerOf

(* A bar's stop is a price, is at least the one before, and at least the   *)
(* entry once break-even is armed.                                         *)
LEMMA MovedStopLarger ==
    ASSUME stop \in Int, atr \in Nat, risk \in Nat, beArmed \in BOOLEAN,
           trailArmed \in BOOLEAN, NEW p \in Int,
           beArmed => stop >= Entry
    PROVE  /\ MovedStop(p) \in Int
           /\ MovedStop(p) >= stop
           /\ beArmed \/ Armed(BeR, p) => MovedStop(p) >= Entry
<1>1. Entry \in Int
  BY SimulatorAssumption DEF Entry
<1>2. TrailDistance \in Int
  BY DEF TrailDistance
<1> DEFINE s == BreakEvenStop(p)
<1>3. /\ s \in Int /\ s >= stop
      /\ beArmed \/ Armed(BeR, p) => s >= Entry
  <2>1. CASE ~beArmed /\ Armed(BeR, p)
    BY <2>1, <1>1 DEF BreakEvenStop, LargerOf
  <2>2. CASE ~(~beArmed /\ Armed(BeR, p))
    BY <2>2 DEF BreakEvenStop
  <2> QED BY <2>1, <2>2
<1> HIDE DEF s
<1>4. CASE trailArmed \/ Armed(TrailR, p)
  <2>1. MovedStop(p) = LargerOf(s, p - TrailDistance)
    BY <1>4 DEF MovedStop, s
  <2>2. LargerOf(s, p - TrailDistance) \in Int /\ LargerOf(s, p - TrailDistance) >= s
    BY <1>2, <1>3 DEF LargerOf
  <2> QED BY <2>1, <2>2, <1>1, <1>3
<1>5. CASE ~(trailArmed \/ Armed(TrailR, p))
  BY <1>5, <1>3 DEF MovedStop, s
<1> QED BY <1>4, <1>5

-----------------------------------------------------------------------------
(* What an open trade keeps: its stop is no further from the entry than    *)
(* its risk, and after each bar below that bar's close.                    *)
TradeInv ==
    phase = "walk" =>
        /\ firstStop >= Entry - risk
        /\ stop >= firstStop
        /\ beArmed => stop >= Entry
        /\ walked > 0 => mark >= stop

(* The inductive invariant of a trade, open or closed.                     *)
PInv == TypeOK /\ TradeInv /\ LossBounded /\ ArmedNeverLoses

(* A candidate's levels are prices, its stop no further off than its risk. *)
LEMMA CandidateTypes ==
    ASSUME NEW c \in Candidates
    PROVE  /\ c.refs \in BOOLEAN /\ c.stop \in Int /\ c.target \in Int /\ c.atr \in Nat
           /\ RiskOf(c) \in Nat /\ StopOf(c) \in Int /\ TargetOf(c) \in Int
           /\ StopOf(c) >= Entry - RiskOf(c)
<1>1. c.refs \in BOOLEAN /\ c.stop \in Int /\ c.target \in Int /\ c.atr \in Nat
  BY SimulatorAssumption
<1>2. Entry \in Int /\ SlPips \in Nat /\ TpPips \in Nat
  BY SimulatorAssumption DEF Entry
<1>3. CASE c.refs
  BY <1>1, <1>2, <1>3 DEF RiskOf, StopOf, TargetOf, Distance
<1>4. CASE ~c.refs
  BY <1>1, <1>2, <1>4 DEF RiskOf, StopOf, TargetOf
<1> QED BY <1>1, <1>3, <1>4

(* The outcome of an open trade has the type of an outcome.                *)
LEMMA OpenType == Open \in [reason : Reasons \cup {"open"}, pnl : Int]
  BY DEF Open

(* The invariant holds before the first trade.                             *)
THEOREM PnLInit == Init => PInv
<1> SUFFICES ASSUME Init PROVE PInv
  OBVIOUS
<1>1. TypeOK
  <2>1. beArmed \in BOOLEAN /\ trailArmed \in BOOLEAN
    BY DEF Init
  <2>2. walked \in 0..MaxBars
    BY SimulatorAssumption DEF Init
  <2>3. outcome \in [reason : Reasons \cup {"open"}, pnl : Int]
    BY OpenType DEF Init
  <2> QED BY <2>1, <2>2, <2>3 DEF Init, TypeOK
<1> QED BY <1>1 DEF Init, PInv, TradeInv, LossBounded, ArmedNeverLoses

(* A new trade starts with its stop at its risk.                           *)
LEMMA OpenKeeps == PInv /\ OpenTrade => PInv'
<1> SUFFICES ASSUME PInv, OpenTrade PROVE PInv'
  OBVIOUS
<1>1. PICK c \in Candidates :
        /\ RiskOf(c) > 0
        /\ atr' = c.atr /\ risk' = RiskOf(c)
        /\ stop' = StopOf(c) /\ firstStop' = StopOf(c) /\ target' = TargetOf(c)
  BY DEF OpenTrade
<1>2. Entry \in Int
  BY SimulatorAssumption DEF Entry
<1>3. TypeOK'
  <2>1. risk' \in Nat /\ risk' > 0 /\ atr' \in Nat /\ stop' \in Int /\ firstStop' \in Int
        /\ target' \in Int
    BY <1>1, CandidateTypes
  <2>2. walked' \in 0..MaxBars /\ peak' \in Int /\ mark' \in Int
    BY <1>2, SimulatorAssumption DEF OpenTrade
  <2> QED BY <2>1, <2>2, OpenType DEF OpenTrade, TypeOK
<1>4. TradeInv'
  BY <1>1, <1>2, CandidateTypes DEF OpenTrade, TradeInv, Entry
<1> QED BY <1>3, <1>4 DEF OpenTrade, PInv, LossBounded, ArmedNeverLoses

(* A bar resolves the trade or leaves it above its stop.                   *)
LEMMA WalkKeeps == ASSUME PInv, NEW b \in Bars, WalkBar(b) PROVE PInv'
<1> DEFINE p == LargerOf(peak, b.best)
           s == MovedStop(p)
<1>1. /\ b.best \in Int /\ b.worst \in Int /\ b.close \in Int
      /\ b.worst <= b.close
  BY SimulatorAssumption
<1>2. /\ Entry \in Int /\ Slip \in Nat /\ SlPips \in Nat /\ MaxBars \in Nat /\ Entry = Slip
  BY SimulatorAssumption DEF Entry
<1>3. /\ TypeOK /\ TradeInv /\ phase = "walk" /\ walked \in 0..MaxBars /\ walked < MaxBars
  BY DEF PInv, WalkBar, TypeOK
<1>4. p \in Int
  BY <1>1, <1>3, LargerOfType DEF TypeOK
<1>5. /\ s \in Int /\ s >= stop
      /\ beArmed \/ Armed(BeR, p) => s >= Entry
  BY <1>3, <1>4, MovedStopLarger DEF TypeOK, TradeInv
<1>6. /\ peak' = p /\ stop' = s /\ walked' = walked + 1
      /\ beArmed' = (beArmed \/ Armed(BeR, p))
      /\ trailArmed' = (trailArmed \/ Armed(TrailR, p))
      /\ atr' = atr /\ risk' = risk /\ firstStop' = firstStop /\ target' = target
      /\ risk \in Nat /\ firstStop \in Int /\ target \in Int /\ risk > 0
      /\ stop >= firstStop /\ firstStop >= Entry - risk /\ stop \in Int
      /\ atr \in Nat /\ mark \in Int
  BY <1>3 DEF WalkBar, TypeOK, TradeInv
<1>7. trailArmed' \in BOOLEAN /\ beArmed' \in BOOLEAN
  BY <1>3, <1>6 DEF Armed, TypeOK
<1>8. Entry' = Entry /\ (beArmed' => s >= Entry)
  BY <1>5, <1>6, Zenon DEF Entry
<1> HIDE DEF s, p
<1>9. CASE b.worst <= s
  <2>1. Close(StopReason(beArmed', trailArmed'), s) /\ mark' = mark
    BY <1>9 DEF WalkBar, s, p
  <2> DEFINE r == StopReason(beArmed', trailArmed')
  <2>2. r \in {"SL", "BE_SL", "TRAIL_SL"} /\ (r = "SL" => ~beArmed')
    BY <1>7 DEF StopReason
  <2>3. /\ phase' = "closed"
        /\ outcome' = [reason |-> r, pnl |-> (IF r = "SL" THEN s - Slip ELSE s) - Entry]
    BY <2>1, <2>2 DEF Close
  <2>4. outcome' \in [reason : Reasons \cup {"open"}, pnl : Int]
    BY <2>2, <2>3, <1>2, <1>5 DEF Reasons
  <2>5. TypeOK'
    BY <2>1, <2>3, <2>4, <1>2, <1>3, <1>4, <1>5, <1>6, <1>7 DEF TypeOK
  <2>6. LossBounded'
    BY <2>2, <2>3, <1>2, <1>5, <1>6, <1>8 DEF LossBounded
  <2>7. ArmedNeverLoses'
    <3>1. ASSUME beArmed' PROVE outcome'.pnl >= 0
      <4>1. r # "SL" /\ s >= Entry
        BY <3>1, <2>2, <1>8
      <4>2. outcome'.pnl = s - Entry
        BY <4>1, <2>3
      <4> QED BY <4>1, <4>2, <1>2, <1>5
    <3> QED BY <3>1 DEF ArmedNeverLoses
  <2> QED BY <2>3, <2>5, <2>6, <2>7 DEF PInv, TradeInv
<1>10. CASE ~(b.worst <= s) /\ b.best >= target
  <2>1. Close("TP", target) /\ mark' = mark
    BY <1>10 DEF WalkBar, s, p
  <2>2. /\ phase' = "closed"
        /\ outcome' = [reason |-> "TP", pnl |-> target - Slip - Entry]
    BY <2>1 DEF Close
  <2>3. outcome' \in [reason : Reasons \cup {"open"}, pnl : Int]
    BY <2>2, <1>2, <1>6 DEF Reasons
  <2>4. TypeOK'
    BY <2>1, <2>2, <2>3, <1>2, <1>3, <1>4, <1>5, <1>6, <1>7 DEF TypeOK
  <2>5. LossBounded'
    BY <2>2, <1>2, <1>6, <1>8 DEF LossBounded
  <2> QED BY <2>2, <2>4, <2>5 DEF PInv, TradeInv, ArmedNeverLoses
<1>11. CASE ~(b.worst <= s) /\ ~(b.best >= target)
  <2>1. mark' = b.close /\ phase' = phase /\ outcome' = outcome
    BY <1>11 DEF WalkBar, s, p
  <2>2. TypeOK'
    BY <2>1, <1>1, <1>2, <1>3, <1>4, <1>5, <1>6, <1>7 DEF TypeOK
  <2>3. stop' >= firstStop' /\ firstStop' >= Entry - risk' /\ mark' >= stop'
    BY <2>1, <1>1, <1>2, <1>5, <1>6, <1>11
  <2>4. TradeInv'
    BY <2>3, <1>6, <1>8 DEF TradeInv
  <2> QED BY <2>1, <2>2, <2>4, <1>3 DEF PInv, LossBounded, ArmedNeverLoses
<1> QED BY <1>9, <1>10, <1>11

(* A trade that times out is above its stop.                               *)
LEMMA ExpireKeeps == PInv /\ Expire => PInv'
<1> SUFFICES ASSUME PInv, Expire PROVE PInv'
  OBVIOUS
<1>1. /\ Entry \in Int /\ Slip \in Nat /\ MaxBars \in Nat \ {0} /\ Entry = Slip /\ Entry' = Entry
  BY SimulatorAssumption DEF Entry
<1>2. /\ TypeOK /\ phase = "walk" /\ walked > 0
      /\ UNCHANGED <<atr, risk, firstStop, stop, target, peak, beArmed, trailArmed, walked, mark>>
  BY <1>1 DEF PInv, Expire
<1>3. mark >= stop /\ stop >= firstStop /\ firstStop >= Entry - risk /\ (beArmed => stop >= Entry)
  BY <1>2 DEF PInv, TradeInv
<1>4. PICK r \in {"TIMEOUT", "DATA_END"} : Close(r, mark)
  BY DEF Expire
<1>5. phase' = "closed" /\ outcome' = [reason |-> r, pnl |-> mark - Entry]
  BY <1>4 DEF Close
<1>6. mark \in Int /\ stop \in Int /\ firstStop \in Int /\ risk \in Nat
  BY <1>2 DEF TypeOK
<1>7. TypeOK'
  BY <1>1, <1>2, <1>5, <1>6 DEF TypeOK, Reasons
<1>8. LossBounded'
  BY <1>1, <1>2, <1>3, <1>5, <1>6 DEF LossBounded
<1>9. ArmedNeverLoses'
  BY <1>1, <1>2, <1>3, <1>5, <1>6 DEF ArmedNeverLoses
<1> QED BY <1>5, <1>7, <1>8, <1>9 DEF PInv, TradeInv

(* Every step keeps the invariant.                                         *)
LEMMA NextKeeps == PInv /\ [Next]_vars => PInv'
<1> SUFFICES ASSUME PInv, [Next]_vars PROVE PInv'
  OBVIOUS
<1>1. CASE OpenTrade
  BY <1>1, OpenKeeps
<1>2. CASE \E b \in Bars : WalkBar(b)
  BY <1>2, WalkKeeps
<1>3. CASE Expire
  BY <1>3, ExpireKeeps
<1>4. CASE UNCHANGED vars
  BY <1>4 DEF vars, PInv, TypeOK, TradeInv, LossBounded, ArmedNeverLoses, Entry
<1> QED BY <1>1, <1>2, <1>3, <1>4 DEF Next

(* PInv is an invariant of a trade over any bars.                          *)
THEOREM PnLInductive == Spec => []PInv
  BY PnLInit, NextKeeps, PTL DEF Spec

(* The two passes over the bars keep prices, counters and the result typed:*)
(* a walk never reads past the bars it was given.                          *)
THEOREM PnLTypes == Spec => []TypeOK
<1>1. PInv => TypeOK
  BY DEF PInv
<1> QED BY <1>1, PnLInductive, PTL

(* A closed trade has lost at most the risk it was opened with and one     *)
(* slippage.                                                               *)
THEOREM LossSafe == Spec => []LossBounded
<1>1. PInv => LossBounded
  BY DEF PInv
<1> QED BY <1>1, PnLInductive, PTL

(* A trade that was moved to break-even does not lose.                     *)
THEOREM ArmedSafe == Spec => []ArmedNeverLoses
<1>1. PInv => ArmedNeverLoses
  BY DEF PInv
<1> QED BY <1>1, PnLInductive, PTL

(* No bar moves an open trade's stop against it.                           *)
THEOREM StopTightens == Spec => StopOnlyTightens
<1>1. PInv /\ [Next]_vars => [phase = "walk" => stop' >= stop]_vars
  <2> SUFFICES ASSUME PInv, Next, phase = "walk" PROVE stop' >= stop
    BY DEF vars
  <2>1. stop \in Int
    BY DEF PInv, TypeOK
  <2>2. ASSUME NEW b \in Bars, WalkBar(b) PROVE stop' >= stop
    <3>1. b.best \in Int
      BY SimulatorAssumption
    <3>2. LargerOf(peak, b.best) \in Int
      BY <3>1, LargerOfType DEF PInv, TypeOK
    <3>3. stop' = MovedStop(LargerOf(peak, b.best))
      BY <2>2 DEF WalkBar
    <3> QED BY <3>2, <3>3, MovedStopLarger DEF PInv, TypeOK, TradeInv
  <2>3. Expire => stop' >= stop
    BY <2>1 DEF Expire
  <2>4. ~OpenTrade
    BY DEF OpenTrade
  <2> QED BY <2>2, <2>3, <2>4 DEF Next
<1> QED BY <1>1, PnLInductive, PTL DEF Spec, StopOnlyTightens
=============================================================================
