--------------------------- MODULE BacktestProofs ---------------------------
(***************************************************************************)
(* Proofs about the back-test's bar loop, for every data, plan and limit.  *)
(***************************************************************************)
EXTENDS BacktestRunner, TLAPS

RiskStates == [equity : Int, peak : Int, dayStart : Int, dayPnl : Int, streak : Nat,
               halted : BOOLEAN]
Signals == [stop : Int, target : Int, lot : Int]
Positions == [entry : Int, stop : Int, target : Int, lot : Int, risk : Int, held : Int,
              mfe : Int, trailed : BOOLEAN]

Types ==
    /\ mode \in {"kill", "pause", "off"}
    /\ day \in Nat /\ pending \in Signals /\ pos \in Positions /\ state \in RiskStates
    /\ tradesToday \in Nat /\ lossesToday \in Nat
    /\ resumeDay \in Int /\ haltDay \in Int

(* A date of resumption is set during a halt only, and lies the whole pause *)
(* after it; without a halt the last one is over.                           *)
HaltInv ==
    /\ haltDay <= day
    /\ resumeDay # NoDay => state.halted /\ resumeDay >= haltDay + PauseDays
    /\ haltDay # NoDay /\ ~state.halted => mode = "pause" /\ day >= haltDay + PauseDays

(* The inductive invariant of the loop.                                    *)
BInv == Types /\ HaltInv /\ ExposureAllowed

Exposed == pending # NoSignal \/ pos # NoPosition

(* While something is exposed there is no halt: PauseServed follows.       *)
LEMMA Served == BInv => PauseServed
  BY DEF BInv, HaltInv, ExposureAllowed, RiskAllows, PauseServed

(* The invariant holds before the first bar.                               *)
THEOREM BacktestInit == Init => BInv
<1> SUFFICES ASSUME Init PROVE BInv
  OBVIOUS
<1>1. state \in RiskStates /\ ~state.halted
  BY BacktestAssumption DEF Init, InitialRisk, RiskStates
<1>2. pending \in Signals /\ pos \in Positions
  BY DEF Init, NoSignal, NoPosition, Signals, Positions
<1>3. Types
  BY <1>1, <1>2, BacktestAssumption DEF Init, Types, NoDay
<1>4. HaltInv
  BY <1>1 DEF Init, HaltInv, NoDay
<1> QED BY <1>3, <1>4 DEF Init, BInv, ExposureAllowed

-----------------------------------------------------------------------------
(* A fresh day clears the day's loss and the streak, and nothing else that *)
(* the risk manager looks at.                                              *)
LEMMA NewDayAllows ==
    ASSUME state \in RiskStates
    PROVE  /\ OnNewDay(state) \in RiskStates
           /\ OnNewDay(state).halted = state.halted
           /\ RiskAllows(state) => RiskAllows(OnNewDay(state))
<1> DEFINE t == OnNewDay(state)
<1>1. /\ t \in RiskStates /\ t.halted = state.halted
      /\ t.equity = state.equity /\ t.peak = state.peak
      /\ t.dayStart = state.equity /\ t.dayPnl = 0 /\ t.streak = 0
  <2>1. state.equity \in Int
    BY DEF RiskStates
  <2>2. t \in RiskStates
    <3>1. ASSUME NEW s \in RiskStates, NEW e \in Int, NEW x \in Int, NEW z \in Nat
          PROVE  [s EXCEPT !.dayStart = e, !.dayPnl = x, !.streak = z] \in RiskStates
      BY DEF RiskStates
    <3>2. 0 \in Int /\ 0 \in Nat
      OBVIOUS
    <3>3. [state EXCEPT !.dayStart = state.equity, !.dayPnl = 0, !.streak = 0] \in RiskStates
      BY <2>1, <3>1, <3>2, Zenon
    <3> QED BY <3>3, Zenon DEF OnNewDay
  <2>3. t.dayStart = state.equity /\ t.dayPnl = 0 /\ t.streak = 0
    BY DEF OnNewDay, RiskStates
  <2>4. t.halted = state.halted /\ t.equity = state.equity /\ t.peak = state.peak
    BY DEF OnNewDay, RiskStates
  <2> QED BY <2>2, <2>3, <2>4
<1> HIDE DEF t
<1>2. state.equity \in Int
  BY DEF RiskStates
<1>3. DailyCapPct \in Nat \ {0} /\ MaxLosses \in Nat \ {0}
  BY BacktestAssumption
<1>4. ~DayLossBreached(t)
  <2>1. ASSUME state.equity > 0 PROVE DailyCapPct * state.equity > 0
    BY <2>1, <1>2, <1>3
  <2>2. ASSUME NEW x \in Nat, NEW y \in Int, y > 0 PROVE ~(-x * 100 >= y)
    BY <2>2
  <2>3. ASSUME t.dayStart > 0 PROVE ~(-t.dayPnl * 100 >= DailyCapPct * t.dayStart)
    BY <2>1, <2>2, <2>3, <1>1, <1>2, <1>3
  <2> QED BY <2>3 DEF DayLossBreached
<1>5. DrawdownBreached(t) <=> DrawdownBreached(state)
  BY <1>1 DEF DrawdownBreached
<1>6. RiskAllows(state) => RiskAllows(t)
  BY <1>1, <1>3, <1>4, <1>5 DEF RiskAllows
<1> QED BY <1>1, <1>6 DEF t

(* The next bar keeps an exposure allowed, also when the day rolls.        *)
LEMMA NextBarKeeps == BInv /\ NextBar => BInv'
<1> SUFFICES ASSUME BInv, NextBar PROVE BInv'
  OBVIOUS
<1>1. Types /\ HaltInv /\ ExposureAllowed
  BY DEF BInv
<1>2. /\ UNCHANGED <<mode, pending, pos, resumeDay, haltDay>>
      /\ \/ day' = day /\ UNCHANGED <<state, tradesToday, lossesToday>>
         \/ \E gap \in Nat : day' = day + gap /\ state' = OnNewDay(state)
                             /\ tradesToday' = 0 /\ lossesToday' = 0
  BY <1>1, BacktestAssumption DEF NextBar, Types
<1>3. CASE day' = day /\ UNCHANGED <<state, tradesToday, lossesToday>>
  BY <1>1, <1>2, <1>3
  DEF BInv, Types, HaltInv, ExposureAllowed, RiskAllows, DrawdownBreached, DayLossBreached
<1>4. CASE \E gap \in Nat : day' = day + gap /\ state' = OnNewDay(state)
                            /\ tradesToday' = 0 /\ lossesToday' = 0
  <2>1. /\ state' \in RiskStates /\ state'.halted = state.halted
        /\ RiskAllows(state) => RiskAllows(state')
    BY <1>1, <1>4, NewDayAllows DEF Types
  <2>2. day' \in Nat /\ day' >= day /\ tradesToday' = 0 /\ lossesToday' = 0
    BY <1>1, <1>4 DEF Types
  <2>3. Types'
    BY <1>1, <1>2, <2>1, <2>2 DEF Types
  <2>4. HaltInv'
    BY <1>1, <1>2, <2>1, <2>2, BacktestAssumption DEF HaltInv, Types, NoDay
  <2>5. ASSUME Exposed' PROVE RiskAllows(state')
    BY <1>1, <1>2, <2>1, <2>5 DEF Exposed, ExposureAllowed
  <2>6. ExposureAllowed'
    BY <2>2, <2>5, BacktestAssumption DEF ExposureAllowed, Exposed
  <2> QED BY <2>3, <2>4, <2>6 DEF BInv
<1> QED BY <1>2, <1>3, <1>4

(* A pause and its end leave nothing exposed.                              *)
LEMMA PauseKeeps == BInv /\ Pause => BInv'
<1> SUFFICES ASSUME BInv, Pause PROVE BInv'
  OBVIOUS
<1>1. /\ Types /\ HaltInv /\ ExposureAllowed /\ state.halted /\ resumeDay' = ResumeOn
      /\ UNCHANGED <<clock, pending, pos, state, limits, haltDay>>
  BY DEF BInv, Pause
<1>2. ResumeOn \in Int /\ ResumeOn >= haltDay + PauseDays
  BY <1>1, BacktestAssumption DEF ResumeOn, Types, HaltInv
<1>3. Types' /\ HaltInv'
  BY <1>1, <1>2 DEF Types, HaltInv, NoDay, clock, limits
<1>4. ExposureAllowed'
  BY <1>1 DEF ExposureAllowed, RiskAllows, limits
<1> QED BY <1>3, <1>4 DEF BInv

(* The end of a pause comes at its full length at the earliest.            *)
LEMMA ResumeKeeps == BInv /\ Resume => BInv'
<1> SUFFICES ASSUME BInv, Resume PROVE BInv'
  OBVIOUS
<1>1. /\ Types /\ HaltInv /\ ExposureAllowed /\ state.halted /\ mode = "pause"
      /\ day >= ResumeOn /\ state' = InitialRisk(state.equity) /\ resumeDay' = NoDay
      /\ UNCHANGED <<clock, pending, pos, limits, haltDay>>
  BY DEF BInv, Resume
<1>2. day >= haltDay + PauseDays
  BY <1>1, BacktestAssumption DEF ResumeOn, Types, HaltInv
<1>3. state' \in RiskStates /\ ~state'.halted
  BY <1>1 DEF Types, InitialRisk, RiskStates
<1>4. Types'
  BY <1>1, <1>3 DEF Types, NoDay, clock, limits
<1>5. HaltInv'
  BY <1>1, <1>2, <1>3 DEF HaltInv, clock
<1>6. ~Exposed /\ ~Exposed'
  BY <1>1 DEF ExposureAllowed, RiskAllows, Exposed
<1> QED BY <1>4, <1>5, <1>6 DEF BInv, ExposureAllowed, Exposed

-----------------------------------------------------------------------------
(* A bar keeps a position a position.                                      *)
LEMMA ManagedType ==
    ASSUME pending \in Signals, pos \in Positions, NEW b \in Bars
    PROVE  Managed(Filled(b), b) \in Positions
<1>1. /\ b.open \in Int /\ b.best \in Int
      /\ EntryCost \in Nat /\ TrailR \in Nat
  BY BacktestAssumption
<1>2. Filled(b) \in Positions
  <2> DEFINE e == b.open + EntryCost
  <2>1. e \in Int /\ pending.stop \in Int /\ pending.target \in Int /\ pending.lot \in Int
    BY <1>1 DEF Signals
  <2>2. NoPosition \in Positions
    BY DEF NoPosition, Positions
  <2>3. (IF e > pending.stop THEN e - pending.stop ELSE pending.stop - e) \in Int
    BY <2>1
  <2> HIDE DEF e
  <2>4. [NoPosition EXCEPT !.entry = e, !.stop = pending.stop, !.target = pending.target,
            !.lot = pending.lot,
            !.risk = IF e > pending.stop THEN e - pending.stop ELSE pending.stop - e]
            \in Positions
    BY <2>1, <2>2, <2>3 DEF Positions
  <2> QED BY <2>4 DEF Filled, e
<1>3. ASSUME NEW p \in Positions PROVE Trailed(p) \in Positions
  <2> DEFINE be == p.trailed \/ BreakEven(p)
             s == IF be /\ ~p.trailed THEN p.entry ELSE p.stop
             behind == p.entry + p.mfe - p.risk \div 2
             n == IF be /\ 2 * p.mfe > (2 * TrailR + 1) * p.risk /\ behind > s THEN behind ELSE s
  <2>1. be \in BOOLEAN
    BY <1>3 DEF Positions, BreakEven
  <2>2. s \in Int /\ behind \in Int
    BY <1>3 DEF Positions
  <2>3. n \in Int
    BY <2>2
  <2> HIDE DEF be, n
  <2>4. [p EXCEPT !.trailed = be, !.stop = n] \in Positions
    BY <1>3, <2>1, <2>3 DEF Positions
  <2> QED BY <2>4 DEF Trailed, be, n
<1> DEFINE q == Filled(b)
           best == b.best - q.entry
           mfe == IF best > q.mfe THEN best ELSE q.mfe
           r == [q EXCEPT !.held = q.held + 1, !.mfe = mfe]
<1>4. q.held + 1 \in Int /\ mfe \in Int
  BY <1>1, <1>2 DEF Positions
<1> HIDE DEF q, mfe
<1>5. r \in Positions
  BY <1>2, <1>4 DEF Positions, q
<1> HIDE DEF r
<1>6. Trailed(r) \in Positions
  BY <1>3, <1>5
<1> QED BY <1>6 DEF Managed, r, mfe, q

(* A closed trade leaves the risk manager's figures figures.               *)
LEMMA ClosedType ==
    ASSUME NEW s \in RiskStates, NEW pnl \in Int
    PROVE  OnTradeClosed(s, pnl) \in RiskStates
<1> DEFINE equity == s.equity + pnl
           peak == IF equity > s.peak THEN equity ELSE s.peak
           dayPnl == s.dayPnl + pnl
           streak == IF pnl < 0 THEN s.streak + 1 ELSE 0
           t == [s EXCEPT !.equity = equity, !.peak = peak, !.dayPnl = dayPnl,
                          !.streak = streak]
<1>1. t \in RiskStates
  <2>1. equity \in Int /\ peak \in Int /\ dayPnl \in Int /\ streak \in Nat
    BY DEF RiskStates
  <2> HIDE DEF equity, peak, dayPnl, streak
  <2> QED BY <2>1 DEF RiskStates
<1> HIDE DEF t
<1>2. (t.halted \/ DrawdownBreached(t)) \in BOOLEAN
  BY <1>1 DEF RiskStates, DrawdownBreached
<1>3. [t EXCEPT !.halted = @ \/ DrawdownBreached(t)] \in RiskStates
  BY <1>1, <1>2 DEF RiskStates
<1> QED BY <1>3 DEF OnTradeClosed, t, equity, peak, dayPnl, streak

(* One bar fills, keeps or closes the position, and a close starts a halt  *)
(* at the bar's day at the latest.                                         *)
LEMMA TradeKeeps == ASSUME BInv, NEW b \in Bars, TradeBar(b) PROVE BInv'
<1> DEFINE p == Managed(Filled(b), b)
<1>1. Types /\ HaltInv /\ ExposureAllowed
  BY DEF BInv
<1>2. /\ pending' = NoSignal /\ UNCHANGED <<mode, day, resumeDay>> /\ Exposed
      /\ tradesToday' = IF pending = NoSignal THEN tradesToday ELSE tradesToday + 1
  BY DEF TradeBar, Exposed, clock
<1>3. ~state.halted /\ resumeDay = NoDay
  BY <1>1, <1>2 DEF Exposed, ExposureAllowed, RiskAllows, HaltInv
<1>4. p \in Positions /\ NoPosition \in Positions /\ NoSignal \in Signals
  BY <1>1, ManagedType DEF Types, NoPosition, Positions, NoSignal, Signals
<1>5. tradesToday' \in Nat
  BY <1>1, <1>2 DEF Types
<1>6. CASE ExitPrices(p, b) = {}
  <2>1. pos' = p /\ UNCHANGED <<state, lossesToday, haltDay>>
    BY <1>6 DEF TradeBar
  <2>2. Types'
    BY <1>1, <1>2, <1>4, <1>5, <2>1 DEF Types
  <2>3. HaltInv'
    BY <1>1, <1>2, <2>1 DEF HaltInv
  <2>4. RiskAllows(state)'
    BY <1>1, <1>2, <2>1 DEF Exposed, ExposureAllowed, RiskAllows, DrawdownBreached, DayLossBreached
  <2>5. MaxTradesPerDay > 0 => tradesToday' <= MaxTradesPerDay
    BY <1>1, <1>2, BacktestAssumption DEF Exposed, ExposureAllowed, Types
  <2>6. MaxDayLosses > 0 => lossesToday' < MaxDayLosses
    BY <1>1, <1>2, <2>1 DEF Exposed, ExposureAllowed
  <2>7. ExposureAllowed'
    BY <1>2, <1>5, <2>4, <2>5, <2>6 DEF ExposureAllowed
  <2> QED BY <2>2, <2>3, <2>7 DEF BInv
<1>7. CASE ExitPrices(p, b) # {}
  <2>1. PICK price \in ExitPrices(p, b) : Close(p, price)
    BY <1>7 DEF TradeBar
  <2> DEFINE pnl == (price - p.entry - Fee) * p.lot
  <2>2. price \in Int
    BY <1>4, BacktestAssumption DEF ExitPrices, Positions
  <2>3. pnl \in Int
    BY <1>4, <2>2, BacktestAssumption DEF Positions
  <2> HIDE DEF pnl, p
  <2>4. /\ pos' = NoPosition /\ state' = OnTradeClosed(state, pnl)
        /\ lossesToday' = IF pnl < 0 THEN lossesToday + 1 ELSE 0
        /\ haltDay' = IF state'.halted /\ ~state.halted THEN day ELSE haltDay
    BY <2>1 DEF Close, pnl
  <2>5. state' \in RiskStates /\ lossesToday' \in Nat
    BY <1>1, <2>3, <2>4, ClosedType DEF Types
  <2>6. Types'
    BY <1>1, <1>2, <1>4, <1>5, <2>4, <2>5 DEF Types
  <2>7. HaltInv'
    BY <1>1, <1>2, <1>3, <2>4 DEF HaltInv, Types
  <2>8. ExposureAllowed'
    BY <1>2, <2>4 DEF ExposureAllowed
  <2> QED BY <2>6, <2>7, <2>8 DEF BInv
<1> QED BY <1>6, <1>7

(* A new signal passes the limits it will be held to.                      *)
LEMMA EmitKeeps == BInv /\ Emit => BInv'
<1> SUFFICES ASSUME BInv, Emit PROVE BInv'
  OBVIOUS
<1>1. Types /\ HaltInv /\ ExposureAllowed
  BY DEF BInv
<1>2. PICK p \in Plans :
        /\ Sized(state, p)
        /\ pending' = [stop |-> p.stop, target |-> p.target,
                       lot |-> Lot(state, -p.stop) * p.mult]
  BY DEF Emit
<1>3. /\ DayAllows /\ RiskAllows(state)
      /\ UNCHANGED <<mode, day, pos, state, tradesToday, lossesToday, resumeDay, haltDay>>
  BY DEF Emit, clock, limits
<1>4. p.stop \in Int /\ p.target \in Int /\ p.mult \in Nat /\ p.stop < 0
  BY <1>2, BacktestAssumption DEF Sized
<1>5. Lot(state, -p.stop) \in Int
  <2>1. state.equity * RiskPct + 100 * (-p.stop) \in Int /\ 200 * (-p.stop) \in Nat \ {0}
    BY <1>1, <1>4, BacktestAssumption DEF Types, RiskStates
  <2> QED BY <2>1 DEF Lot
<1>6. pending' \in Signals
  <2>1. Lot(state, -p.stop) * p.mult \in Int
    BY <1>4, <1>5
  <2> QED BY <1>2, <1>4, <2>1 DEF Signals
<1>7. Types' /\ HaltInv'
  BY <1>1, <1>3, <1>6 DEF Types, HaltInv
<1>8. RiskAllows(state)'
  BY <1>3 DEF RiskAllows, DrawdownBreached, DayLossBreached
<1>9. ExposureAllowed'
  BY <1>1, <1>3, <1>8, BacktestAssumption DEF ExposureAllowed, DayAllows, Types
<1> QED BY <1>7, <1>9 DEF BInv

(* Every step keeps the invariant.                                         *)
LEMMA LoopKeeps == BInv /\ [Next]_vars => BInv'
<1> SUFFICES ASSUME BInv, [Next]_vars PROVE BInv'
  OBVIOUS
<1>1. CASE UNCHANGED <<mode, day, pending, pos, state, tradesToday, lossesToday, resumeDay, haltDay>>
  BY <1>1 DEF BInv, Types, HaltInv, ExposureAllowed, RiskAllows, DrawdownBreached, DayLossBreached
<1>2. CASE NoHalt \/ Finish \/ NothingToTrade \/ NoEmit \/ UNCHANGED vars
  BY <1>1, <1>2 DEF NoHalt, Finish, NothingToTrade, NoEmit, vars, clock, limits
<1>3. CASE NextBar
  BY <1>3, NextBarKeeps
<1>4. CASE Pause \/ Resume
  BY <1>4, PauseKeeps, ResumeKeeps
<1>5. CASE \E b \in Bars : TradeBar(b)
  BY <1>5, TradeKeeps
<1>6. CASE Emit
  BY <1>6, EmitKeeps
<1> QED BY <1>2, <1>3, <1>4, <1>5, <1>6 DEF Next

(* BInv is an invariant of the loop, for every data and plan.              *)
THEOREM BacktestInductive == Spec => []BInv
  BY BacktestInit, LoopKeeps, PTL DEF Spec

(* What waits or is held was allowed at its emission and would be still.   *)
THEOREM ExposureSafe == Spec => []ExposureAllowed
<1>1. BInv => ExposureAllowed
  BY DEF BInv
<1> QED BY <1>1, BacktestInductive, PTL

(* No order is queued during a halt or before its pause is over.           *)
THEOREM PauseSafe == Spec => []PauseServed
  BY Served, BacktestInductive, PTL
=============================================================================
