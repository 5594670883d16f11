------------------------------- MODULE GateLadder -------------------------------
(***************************************************************************)
(* GateMind's decision: the eight rules of gatemind/v4/rules.py, walked in *)
(* order until one of them answers, and the policy they are meant to add   *)
(* up to, stated without any order.                                        *)
(***************************************************************************)
EXTENDS Naturals, Sequences

(***************************************************************************)
(* What the gate is given: three brains' outputs, an instant, a symbol.    *)
(***************************************************************************)
Decision == {"BUY", "SELL", "WAIT", "BLOCK"}

Grade == {"A+", "A", "B", "C", "BLOCK"}

\* Risk flags by what classify_flag makes of them.
FlagClass == {"kill", "warning", "unknown"}

\* present: it is a BrainOutput of the right brain, whose fields have values of their types;
\* evidence: some entry is meaningful; good: data_quality is "good"; block: should_block.
Output == [present : BOOLEAN, decision : Decision, grade : Grade, evidence : BOOLEAN,
           good : BOOLEAN, block : BOOLEAN, flags : SUBSET FlagClass]

Role == {"news", "market", "chart"}

Trio == [Role -> Output]

Symbol == {"EUR_USD", "USD_JPY", "other"}

\* Monday is 0; hours are UTC.
Moment == [day : 0..6, hour : 0..23]

Call == [trio : Trio, now : Moment, symbol : Symbol]

(***************************************************************************)
(* The rules.  Each answers PASS or ends the walk.                         *)
(***************************************************************************)
Answer == {"PASS", "BLOCK", "WAIT", "ENTER_CANDIDATE"}

Block(condition) == IF condition THEN "BLOCK" ELSE "PASS"

\* validate_brain_output: type and cross-field checks.
Sound(b) ==
    /\ b.present
    /\ b.grade \in {"A+", "A"} => b.evidence /\ b.good
    /\ b.block => b.grade = "BLOCK"
    /\ b.grade = "BLOCK" => b.decision = "BLOCK"

R1_schema(c) == Block(\E r \in Role : ~Sound(c.trio[r]))

\* _is_weekend_utc, Friday 21:00 to Sunday 22:00.
Weekend(now) ==
    \/ now.day = 4 /\ now.hour >= 21
    \/ now.day = 5
    \/ now.day = 6 /\ now.hour < 22

\* SESSION_WINDOWS_UTC; a window ends just before its second hour.
Windows(symbol) ==
    CASE symbol = "EUR_USD" -> {<<7, 13>>, <<13, 21>>}
      [] symbol = "USD_JPY" -> {<<0, 7>>, <<12, 21>>}
      [] OTHER -> {<<12, 21>>}

InSession(now, symbol) ==
    /\ ~Weekend(now)
    /\ \E w \in Windows(symbol) : w[1] <= now.hour /\ now.hour < w[2]

R2_session(c) == Block(~InSession(c.now, c.symbol))

\* all_grades_pass: the chart needs an A, the vetoers a B.
R3_grade(c) ==
    Block(\/ c.trio["chart"].grade \notin {"A+", "A"}
          \/ c.trio["news"].grade \notin {"A+", "A", "B"}
          \/ c.trio["market"].grade \notin {"A+", "A", "B"})

R4_brain_block(c) == Block(\E r \in Role : c.trio[r].block)

\* A flag nobody knows counts as a kill flag.
R5_kill_flag(c) == Block(\E r \in Role : c.trio[r].flags \cap {"kill", "unknown"} # {})

Opposite(decision) == IF decision = "BUY" THEN "SELL" ELSE "BUY"

\* Mutant of Consensus: a vetoer may disagree with the chart.
ConsensusChartOnly(trio) ==
    IF \E r \in Role : trio[r].decision = "BLOCK" THEN "any_block"
    ELSE IF \A r \in Role : trio[r].decision = "WAIT" THEN "unanimous_wait"
    ELSE IF trio["chart"].decision \notin {"BUY", "SELL"} THEN "incomplete_agreement"
    ELSE IF trio["chart"].decision = "BUY" THEN "unanimous_buy" ELSE "unanimous_sell"

\* consensus_status.
Consensus(trio) ==
    LET chart == trio["chart"].decision
    IN  IF \E r \in Role : trio[r].decision = "BLOCK" THEN "any_block"
        ELSE IF \A r \in Role : trio[r].decision = "WAIT" THEN "unanimous_wait"
        ELSE IF chart \notin {"BUY", "SELL"} THEN "incomplete_agreement"
        ELSE IF Opposite(chart) \in {trio["news"].decision, trio["market"].decision}
             THEN "directional_conflict"
        ELSE IF chart = "BUY" THEN "unanimous_buy" ELSE "unanimous_sell"

R6_direction(c) ==
    Block(Consensus(c.trio) \in {"directional_conflict", "incomplete_agreement", "any_block"})

R7_unanimous_wait(c) == IF Consensus(c.trio) = "unanimous_wait" THEN "WAIT" ELSE "PASS"

R8_enter(c) ==
    IF Consensus(c.trio) \in {"unanimous_buy", "unanimous_sell"} THEN "ENTER_CANDIDATE"
    ELSE "WAIT"

Rules(c) == <<R1_schema(c), R2_session(c), R3_grade(c), R4_brain_block(c),
              R5_kill_flag(c), R6_direction(c), R7_unanimous_wait(c), R8_enter(c)>>

\* The rules that answer; evaluate_rules returns what the first of them says.
Answering(c) == {i \in 1..8 : Rules(c)[i] # "PASS"}

Ladder(c) ==
    IF Answering(c) = {} THEN "BLOCK"
    ELSE Rules(c)[CHOOSE i \in Answering(c) : \A j \in Answering(c) : i <= j]

\* Mutant of Direction: the chart's call, whatever the ladder says.
DirectionAnyway(c) == c.trio["chart"].decision

Direction(c) ==
    IF Ladder(c) = "ENTER_CANDIDATE" THEN c.trio["chart"].decision ELSE "NONE"

(***************************************************************************)
(* The policy (the V4.7 decision table and the constants' comments).       *)
(***************************************************************************)

\* The hours in which a pair is traded, by the comments of gatemind_constants.
Hours(symbol) ==
    CASE symbol = "EUR_USD" -> 7..20
      [] symbol = "USD_JPY" -> 0..6 \cup 12..20
      [] OTHER -> 12..20

\* The week's hours 117 to 165 are the weekend: Friday's 21st to Sunday's 21st.
Tradable(now, symbol) == 24 * now.day + now.hour \notin 117..165 /\ now.hour \in Hours(symbol)

\* Every condition to trade is met.
Clear(c) ==
    /\ \A r \in Role : Sound(c.trio[r]) /\ c.trio[r].flags \subseteq {"warning"}
    /\ Tradable(c.now, c.symbol)
    /\ c.trio["chart"].grade \in {"A+", "A"}
    /\ \A r \in Role : c.trio[r].grade \in {"A+", "A", "B"} /\ c.trio[r].decision # "BLOCK"

\* The chart calls a direction and neither vetoer calls the other one.
Agreed(c, dir) ==
    /\ c.trio["chart"].decision = dir
    /\ \A r \in {"news", "market"} : c.trio[r].decision \in {dir, "WAIT"}

Policy(c) ==
    IF Clear(c) /\ \E dir \in {"BUY", "SELL"} : Agreed(c, dir) THEN "ENTER_CANDIDATE"
    ELSE IF Clear(c) /\ \A r \in Role : c.trio[r].decision = "WAIT" THEN "WAIT"
    ELSE "BLOCK"
================================================================================
