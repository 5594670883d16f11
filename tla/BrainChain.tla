------------------------------- MODULE BrainChain -------------------------------
(***************************************************************************)
(* What the three brains make of their inputs and of one another, cycle by *)
(* cycle: NewsMindV4 (or ReplayNewsMindV4), MarketMindV4 with NewsMind's   *)
(* output, ChartMindV4 with both, and the gate's ladder over the three.    *)
(*                                                                         *)
(* The readings of the price series (trend, momentum, evidence score) are  *)
(* the environment's; everything the brains decide from them is here.  An  *)
(* output is kept as the brain computed it, before BrainOutput's checks,   *)
(* but after those ChartAssessment adds.                                   *)
(***************************************************************************)
EXTENDS GateLadder, Integers, FiniteSets

CONSTANTS
    Source,        \* the feeds NewsMindV4 fans out to
    SourceType,    \* the source_type of each
    Unverified,    \* sources named by unverified_sources in keywords.yaml
    Ages,          \* ages an item may have; negative, it is dated in the future
    MaxItems,      \* bound on the items of one answer
    FreshAge, WindowAge, \* the 5 min of a fresh item and the 6 h of _summarise
    Scheduled,     \* whether the EventScheduler of a live NewsMind may find an active event
    Moments, Symbols,   \* when cycles run, and for what
    Scores         \* how many pieces of evidence a chart may show

StrongType == {"authoritative", "tier1", "calendar"}

ASSUME ChainAssumption ==
    /\ IsFiniteSet(Source) /\ Source # {}
    /\ SourceType \in [Source -> StrongType \cup {"social"}]
    /\ Unverified \subseteq Source
    /\ Ages \subseteq Int
    /\ FreshAge \in Nat /\ WindowAge \in Nat /\ FreshAge <= WindowAge
    /\ Scheduled \subseteq BOOLEAN
    /\ Moments \subseteq Moment /\ Symbols \subseteq Symbol
    /\ Scores \subseteq 0..12

VARIABLES
    mode,          \* which NewsMind is wired in: "live" or "replay"
    stage,         \* the brain whose turn it is
    call,          \* now_utc and the symbol of the cycle
    outputs,       \* the brains' outputs so far
    trend,         \* trend_state of MarketMind's output
    basis,         \* what NewsMind's verdict rests on
    verdict        \* the gate's, of the last cycle that got one

chainVars == <<mode, stage, call, outputs, trend, basis, verdict>>

Ladder5 == <<"BLOCK", "C", "B", "A", "A+">>

GradeRank(grade) == CHOOSE i \in 1..5 : Ladder5[i] = grade

\* _cap, by several caps at once.
Capped(grade, caps) ==
    CHOOSE g \in caps \cup {grade} : \A h \in caps \cup {grade} : GradeRank(g) <= GradeRank(h)

\* An A+ stepped down once for each failure; never below C.
SteppedDown(failures) == IF failures >= 3 THEN "C" ELSE Ladder5[5 - failures]

Made(decision, grade, good, flags) ==
    [present |-> TRUE, decision |-> decision, grade |-> grade, evidence |-> TRUE,
     good |-> good, block |-> grade = "BLOCK", flags |-> flags]

\* What each brain's evaluate returns when anything inside it raises.
ClosedOutput == Made("BLOCK", "BLOCK", FALSE, {"unknown"})

\* None of the flags the brains raise is on the gate's lists, but "news_blackout".
Unlisted(raised) == IF raised THEN {"unknown"} ELSE {}

IsBlocking(b) == b.block \/ b.grade = "BLOCK" \/ b.decision = "BLOCK"

-----------------------------------------------------------------------------
(***************************************************************************)
(* NewsMindV4.                                                             *)
(***************************************************************************)

\* ok: it answered with items (those that do not affect the pair are left out); failed: one
\* of the SourceErrors; raises: any other exception.
Response ==
    [status : {"ok"}, ages : {S \in SUBSET Ages : Cardinality(S) <= MaxItems}]
        \cup [status : {"failed", "raises"}, ages : {{}}]

\* The items _summarise keeps.
Relevant(heard) ==
    {i \in [source : Source, age : Ages] :
        i.age \in heard[i.source].ages /\ i.age <= WindowAge}

Confirmations(heard) ==
    Cardinality({s \in Source : SourceType[s] \in StrongType
                                /\ \E i \in Relevant(heard) : i.source = s})

OkSources(heard) == {s \in Source : heard[s].status = "ok"}

\* max(1, len(health) // 2)
Quorate(heard) ==
    LET half == Cardinality(Source) \div 2
    IN  Cardinality(OkSources(heard)) >= IF half >= 1 THEN half ELSE 1

\* _derive_data_quality.
NewsQuality(heard) ==
    IF OkSources(heard) = {} THEN "missing"
    ELSE IF Quorate(heard) /\ Relevant(heard) # {} THEN "good"
    ELSE "stale"

\* The items newest first: any of the newest may lead, and none when there is none.
Leads(heard) ==
    LET newest == {i \in Relevant(heard) : \A j \in Relevant(heard) : i.age <= j.age}
    IN  IF newest = {} THEN {{}} ELSE {{i} : i \in newest}

\* is_chase, of the leading headline; rumour: it has a trigger word.
Chase(heard, lead, rumour) ==
    \/ SourceType[lead.source] = "social" /\ Confirmations(heard) < 1
    \/ SourceType[lead.source] = "tier1" /\ Confirmations(heard) < 2
       /\ Cardinality(Relevant(heard)) >= 4
    \/ rumour /\ lead.source \in Unverified

\* _grade, of a verdict that does not block; an item of the future is "fresh".
NewsGrade(heard, lead, chase) ==
    IF chase \/ Confirmations(heard) < 2 THEN "C"
    ELSE IF \E i \in lead : i.age <= FreshAge THEN "A"
    ELSE "B"

NewsFlags(heard, active, dubious) ==
    (IF active THEN {"kill"} ELSE {})
        \cup Unlisted(\/ dubious \/ Relevant(heard) = {}
                      \/ OkSources(heard) # Source)

\* _evaluate_inner.  Permission's WAIT and ENTER are one decision, WAIT.
NewsOutput(heard, active, lead, rumour) ==
    LET quality == NewsQuality(heard)
        chase == \E i \in lead : Chase(heard, i, rumour)
        dubious == chase \/ \E i \in lead : i.source \in Unverified
        flags == NewsFlags(heard, active, dubious)
    IN  IF \E s \in Source : heard[s].status = "raises" THEN ClosedOutput
        ELSE IF quality = "missing" \/ active
             THEN Made("BLOCK", "BLOCK", quality = "good", flags)
        ELSE IF quality # "good" THEN Made("WAIT", "C", FALSE, flags)
        ELSE Made("WAIT", NewsGrade(heard, lead, chase), TRUE, flags)

\* What there was to know.
Basis == [answered : BOOLEAN, confirmed : BOOLEAN, fresh : BOOLEAN, quiet : BOOLEAN]

NoBasis == [answered |-> FALSE, confirmed |-> FALSE, fresh |-> FALSE, quiet |-> FALSE]

BasisOf(heard, active) ==
    [answered |-> OkSources(heard) = Source,
     confirmed |-> Confirmations(heard) >= 2,
     fresh |-> \E i \in Relevant(heard) : i.age <= FreshAge,
     quiet |-> ~active]

LiveNews ==
    /\ mode = "live" /\ stage = "news"
    /\ \E heard \in [Source -> Response], active \in Scheduled, rumour \in BOOLEAN :
        /\ \E lead \in Leads(heard) :
            outputs' = [outputs EXCEPT !["news"] = NewsOutput(heard, active, lead, rumour)]
        /\ basis' = BasisOf(heard, active)
    /\ stage' = "market"
    /\ UNCHANGED <<mode, call, trend, verdict>>

\* ReplayNewsMindV4: the calendar alone.
ReplayNews ==
    /\ mode = "replay" /\ stage = "news"
    /\ \E active \in BOOLEAN :
        /\ outputs' = [outputs EXCEPT !["news"] =
                        IF active THEN Made("BLOCK", "BLOCK", TRUE, {"kill"})
                        ELSE Made("WAIT", "A", TRUE, {})]
        /\ basis' = [NoBasis EXCEPT !.quiet = ~active]
    /\ stage' = "market"
    /\ UNCHANGED <<mode, call, trend, verdict>>

-----------------------------------------------------------------------------
(***************************************************************************)
(* MarketMindV4.                                                           *)
(***************************************************************************)
Trend == {"strong_up", "weak_up", "strong_down", "weak_down", "range", "choppy", "none"}

\* What the rules read in the bars.  slips: momentum, volatility, liquidity and correlation
\* states that an A+ does not allow; contradiction: the worst severity; raises: any exception.
MarketReading ==
    [quality : {"good", "stale", "missing", "broken"}, trend : Trend, slips : 0..4,
     dangerous : BOOLEAN, contradiction : {"none", "medium", "high"}, raises : BOOLEAN]

\* ACTIVE_HOURS_UTC
OffSession == call.now.hour \notin 7..20

\* map_news_output.
NewsContext(news) ==
    IF news.block \/ news.grade = "BLOCK" THEN "block"
    ELSE IF news.grade \in {"B", "C"} THEN "warning" ELSE "aligned"

\* Mutant of MarketCaps: stale bars do not cap the grade.
MarketCapsAnyData(r, context) ==
    (IF r.contradiction = "high" THEN {"C"} ELSE {})
        \cup (IF r.contradiction = "medium" \/ context = "warning" THEN {"B"} ELSE {})

MarketCaps(r, context) ==
    (IF r.contradiction = "high" THEN {"C"} ELSE {})
        \cup (IF r.contradiction = "medium" \/ r.quality # "good" \/ context = "warning"
              THEN {"B"} ELSE {})

MarketGrade(r, context) ==
    IF \/ r.quality \in {"missing", "broken"} \/ OffSession \/ r.dangerous
       \/ context = "block"
    THEN "BLOCK"
    ELSE Capped(SteppedDown(r.slips
                            + (IF r.trend \in {"strong_up", "strong_down"} THEN 0 ELSE 1)
                            + (IF context = "warning" THEN 1 ELSE 0)),
                MarketCaps(r, context))

\* permission_engine.decide's last step, of either brain: a direction only with an A.
DirectionFor(grade, up, down) ==
    IF grade = "BLOCK" THEN "BLOCK"
    ELSE IF up /\ grade \in {"A+", "A"} THEN "BUY"
    ELSE IF down /\ grade \in {"A+", "A"} THEN "SELL"
    ELSE "WAIT"

MarketOutput(r, news) ==
    LET context == NewsContext(news)
        grade == MarketGrade(r, context)
    IN  Made(DirectionFor(grade, r.trend = "strong_up", r.trend = "strong_down"), grade,
             r.quality = "good",
             Unlisted(\/ r.quality # "good" \/ r.contradiction # "none" \/ r.dangerous
                      \/ OffSession \/ context # "aligned"))

MarketMind ==
    /\ stage = "market"
    /\ \E r \in MarketReading :
        LET failed == r.raises
        IN  /\ outputs' = [outputs EXCEPT !["market"] =
                            IF failed THEN ClosedOutput ELSE MarketOutput(r, outputs["news"])]
            /\ trend' = IF failed THEN "none" ELSE r.trend
    /\ stage' = "chart"
    /\ UNCHANGED <<mode, call, basis, verdict>>

-----------------------------------------------------------------------------
(***************************************************************************)
(* ChartMindV4.                                                            *)
(***************************************************************************)

\* side: the setup's direction, "none" without a setup; promoted: it is one of setups_v2 that
\* stands in for a setup of the brain's own; score: the evidence beside the market's
\* alignment; swept: a liquidity sweep; flat: an entry band of no width.
ChartReading ==
    {r \in [quality : {"good", "stale", "bad"}, side : {"long", "short", "none"},
            promoted : BOOLEAN, score : Scores, swept : BOOLEAN, dangerous : BOOLEAN,
            flat : BOOLEAN, raises : BOOLEAN] :
        r.promoted => r.side # "none"}

\* _market_direction
Leaning ==
    CASE trend \in {"strong_up", "weak_up"} -> "long"
      [] trend \in {"strong_down", "weak_down"} -> "short"
      [] OTHER -> "neither"

Opposed(side) == {side, Leaning} = {"long", "short"}

\* Mutant of UpstreamCaps: a chart against the market's trend is not capped.
UpstreamCapsUnopposed(side) ==
    (IF outputs["news"].grade \in {"B", "C"} THEN {"B"} ELSE {})
        \cup ({outputs["market"].grade} \cap {"B", "C"})

\* The caps integrate may set, the lowest of which holds.
UpstreamCaps(side) ==
    (IF outputs["news"].grade \in {"B", "C"} \/ Opposed(side) THEN {"B"} ELSE {})
        \cup ({outputs["market"].grade} \cap {"B", "C"})

\* The ladder of permission_engine.decide.
Rung(score) ==
    CASE score >= 7 -> "A+"
      [] score \in 5..6 -> "A"
      [] score \in 3..4 -> "B"
      [] score \in 1..2 -> "C"
      [] OTHER -> "BLOCK"

ChartGrade(r, blocked) ==
    IF blocked THEN "BLOCK"
    ELSE Capped(Rung(r.score + (IF r.side # "none" /\ r.side = Leaning THEN 1 ELSE 0)),
                UpstreamCaps(r.side) \cup (IF r.quality = "stale" THEN {"B"} ELSE {}))

\* Check C4 of ChartAssessment has no setup_type for a promoted setup: the constructor raises.
ChartOutput(r) ==
    LET blocked == IsBlocking(outputs["news"]) \/ IsBlocking(outputs["market"])
        grade == ChartGrade(r, blocked)
        decision == DirectionFor(grade, r.side = "long", r.side = "short")
        waits == r.flat /\ decision \in {"BUY", "SELL"}
    IN  IF r.promoted THEN ClosedOutput
        ELSE Made(IF waits THEN "WAIT" ELSE decision, IF waits THEN "B" ELSE grade,
                  r.quality = "good",
                  Unlisted(\/ r.quality # "good" \/ r.swept \/ r.dangerous \/ blocked
                           \/ UpstreamCaps(r.side) # {}))

ChartMind ==
    /\ stage = "chart"
    /\ \E r \in ChartReading :
        outputs' = [outputs EXCEPT !["chart"] =
                        IF r.raises \/ r.quality = "bad" THEN ClosedOutput ELSE ChartOutput(r)]
    /\ stage' = "gate"
    /\ UNCHANGED <<mode, call, trend, basis, verdict>>

-----------------------------------------------------------------------------
(***************************************************************************)
(* The cycle.                                                              *)
(***************************************************************************)
None == [present |-> FALSE, decision |-> "WAIT", grade |-> "C", evidence |-> FALSE,
         good |-> FALSE, block |-> FALSE, flags |-> {}]

NoCall == [now |-> [day |-> 0, hour |-> 0], symbol |-> "other"]

Gate ==
    /\ stage = "gate"
    /\ verdict' = Ladder([trio |-> outputs, now |-> call.now, symbol |-> call.symbol])
    /\ stage' = "idle"
    /\ UNCHANGED <<mode, call, outputs, trend, basis>>

Begin ==
    /\ stage = "idle"
    /\ \E now \in Moments, symbol \in Symbols : call' = [now |-> now, symbol |-> symbol]
    /\ outputs' = [r \in Role |-> None]
    /\ trend' = "none" /\ basis' = NoBasis /\ verdict' = "PASS"
    /\ stage' = "news"
    /\ UNCHANGED mode

ChainInit ==
    /\ mode \in {"live", "replay"}
    /\ stage = "idle" /\ call = NoCall
    /\ outputs = [r \in Role |-> None]
    /\ trend = "none" /\ basis = NoBasis /\ verdict = "PASS"

ChainNext == Begin \/ LiveNews \/ ReplayNews \/ MarketMind \/ ChartMind \/ Gate

ChainSpec == ChainInit /\ [][ChainNext]_chainVars

-----------------------------------------------------------------------------
(***************************************************************************)
(* Properties.                                                             *)
(***************************************************************************)

\* Whatever the brains before it answered and whatever it reads, what a brain computes passes
\* the checks of BrainOutput (no A on data that is not good, no BLOCK grade without a BLOCK
\* decision): it never fails closed on the contract all three share.  What ChartAssessment
\* adds to that contract is another matter: it refuses every promoted setup (ChartOutput).
ContractKept ==
    /\ mode \in {"live", "replay"} /\ trend \in Trend /\ basis \in Basis
    /\ stage \in {"idle", "news", "market", "chart", "gate"} /\ verdict \in Answer
    /\ call \in [now : Moment, symbol : Symbol]
    /\ outputs \in Trio
    /\ \A r \in Role : outputs[r] # None => Sound(outputs[r])

\* An entry stands on the whole chain: three A grades on good data, outside every event's
\* blackout and inside MarketMind's hours, the chart not against the market's trend; and,
\* live, every source answered, two strong ones with news, some of it fresh.  No single rule
\* of the gate asks for most of this: caps and flags have to carry it through three brains.
EnterEarned ==
    verdict = "ENTER_CANDIDATE" =>
        /\ \A r \in Role : outputs[r].grade \in {"A+", "A"} /\ outputs[r].good
        /\ basis.quiet /\ ~OffSession
        /\ outputs["chart"].decision = "BUY" => Leaning # "short"
        /\ outputs["chart"].decision = "SELL" => Leaning # "long"
        /\ mode = "live" => basis.answered /\ basis.confirmed /\ basis.fresh
================================================================================
