----------------------------- MODULE LiveReplay -----------------------------
(***************************************************************************)
(* run_live_replay.py from the download to the end of TwoYearReplay.run    *)
(* (replay/two_year_replay.py, replay_clock.py, leakage_guard.py): the     *)
(* merged candles are walked in time, the orchestrator runs a cycle per    *)
(* pair and instant, and the notebook's ledger - which outlives the        *)
(* process - refuses a record that is older than the last of its day.      *)
(* The process may crash anywhere, and main may be started again.          *)
(*                                                                         *)
(* A cycle is what DecisionCycle promises of run_cycle: its record and its *)
(* audit, or a BLOCK.                                                      *)
(***************************************************************************)
EXTENDS DataDownload

CONSTANTS ReplayLength, \* REPLAY_DAYS
          DayLength,    \* instants of a UTC day: one ledger file
          MaxRuns, MaxFaults    \* bounds of the model
ASSUME ReplayAssumption ==
    /\ ReplayLength \in 1..Length /\ DayLength \in Nat \ {0}
    /\ MaxRuns \in Nat /\ MaxFaults \in Nat

VARIABLES clock,        \* ReplayClock
          left,         \* instants of the timeline not yet walked
          counts,       \* ReplayResult: [total, accepted, blocks, errors]
          lines,        \* DECISION_CYCLE records on file, oldest first
          run,          \* observer: which start of main this is
          faults        \* observer: records that failed, cycles that raised

vars == <<downloadVars, clock, left, counts, lines, run, faults>>
replayVars == <<clock, left, counts, lines, run, faults>>

Statuses == {"ENTER_CANDIDATE", "WAIT", "BLOCK"}
NoCounts == [total |-> 0, accepted |-> 0, blocks |-> 0, errors |-> 0]
Lines == [time : Times, pair : PairSet, status : Statuses, run : Nat]

TypeOK ==
    /\ DownloadTypeOK
    /\ clock \in Int /\ left \subseteq Traded
    /\ counts \in [total : Nat, accepted : Nat, blocks : Nat, errors : Nat]
    /\ lines \in Seq(Lines) /\ run \in 0..MaxRuns /\ faults \in 0..MaxFaults

Init ==
    /\ DownloadInit
    /\ clock = 0 /\ left = {} /\ counts = NoCounts
    /\ lines = <<>> /\ run = 0 /\ faults = 0

-----------------------------------------------------------------------------
\* main is started, now or again.
Main ==
    /\ run < MaxRuns
    /\ Call(now)
    /\ run' = run + 1
    /\ UNCHANGED <<clock, left, counts, lines, faults>>

Download == DownloadStep /\ UNCHANGED replayVars

ReplayStart == end - ReplayLength

\* run(): the timeline is the union of the pairs' candles in the window.
StartReplay ==
    /\ pc = "ready"
    /\ left' = {t \in UNION {merged[p] : p \in PairSet} : ReplayStart <= t /\ t <= end}
    /\ clock' = ReplayStart /\ counts' = NoCounts
    /\ pc' = "advance"
    /\ UNCHANGED <<now, pages, merged, turn, end, cur, attempt, body, lines, run, faults>>

\* The next instant; the clock would refuse to go back.
Advance ==
    /\ pc = "advance"
    /\ \E t \in left :
        /\ \A u \in left : t <= u
        /\ t >= clock
        /\ clock' = t /\ left' = left \ {t}
    /\ pc' = "cycle" /\ turn' = 1
    /\ UNCHANGED <<now, pages, merged, end, cur, attempt, body, counts, lines, run, faults>>

FinishReplay ==
    /\ pc = "advance" /\ left = {}
    /\ pc' = "off"
    /\ UNCHANGED <<now, pages, merged, turn, end, cur, attempt, body, replayVars>>

\* slice_visible: what the cycle of the pair is given.
Visible(p) == {t \in merged[p] : t <= clock}

Day(t) == t \div DayLength

\* Mutant of Refused: a record must be younger than the last one.
RefusedEqual == \E i \in DOMAIN lines : Day(lines[i].time) = Day(clock) /\ lines[i].time >= clock

\* The ledger's clock: the last record of the day's file.
Refused == \E i \in DOMAIN lines : Day(lines[i].time) = Day(clock) /\ lines[i].time > clock

NextPair ==
    IF turn < Len(Pairs) THEN turn' = turn + 1 /\ UNCHANGED pc
    ELSE pc' = "advance" /\ UNCHANGED turn

Append1(status) ==
    Append(lines, [time |-> clock, pair |-> pair, status |-> status, run |-> run])

\* _classify_cycle: a WAIT is counted in the total only.
Classified(c, status) ==
    [c EXCEPT !.total = @ + 1,
              !.accepted = IF status = "ENTER_CANDIDATE" THEN @ + 1 ELSE @,
              !.blocks = IF status = "BLOCK" THEN @ + 1 ELSE @]

\* Cycle and audit are on file.
CycleRecorded ==
    /\ pc = "cycle" /\ ~Refused
    /\ \E s \in Statuses : lines' = Append1(s) /\ counts' = Classified(counts, s)
    /\ NextPair
    /\ UNCHANGED <<now, pages, merged, end, cur, attempt, body, clock, left, run, faults>>

\* Mutant of CycleRefused: the verdict stands although nothing was recorded.
CycleRefusedUnheard ==
    /\ pc = "cycle" /\ Refused
    /\ \E s \in Statuses : counts' = Classified(counts, s)
    /\ NextPair
    /\ UNCHANGED <<now, pages, merged, end, cur, attempt, body, clock, left, lines, run, faults>>

\* The ledger refuses the record: the caller gets a BLOCK.
CycleRefused ==
    /\ pc = "cycle" /\ Refused
    /\ counts' = Classified(counts, "BLOCK")
    /\ NextPair
    /\ UNCHANGED <<now, pages, merged, end, cur, attempt, body, clock, left, lines, run, faults>>

\* A write fails, of the cycle or of its audit: a BLOCK in either case.
RecordFails ==
    /\ pc = "cycle" /\ ~Refused /\ faults < MaxFaults
    /\ \/ UNCHANGED lines
       \/ \E s \in Statuses : lines' = Append1(s)
    /\ counts' = Classified(counts, "BLOCK")
    /\ faults' = faults + 1
    /\ NextPair
    /\ UNCHANGED <<now, pages, merged, end, cur, attempt, body, clock, left, run>>

\* run_cycle raises before it has recorded anything.
CycleRaises ==
    /\ pc = "cycle" /\ faults < MaxFaults
    /\ counts' = [counts EXCEPT !.errors = @ + 1]
    /\ faults' = faults + 1
    /\ NextPair
    /\ UNCHANGED <<now, pages, merged, end, cur, attempt, body, clock, left, lines, run>>

Next ==
    \/ Main \/ Download \/ StartReplay \/ Advance \/ FinishReplay
    \/ CycleRecorded \/ CycleRefused \/ RecordFails \/ CycleRaises
    \/ Tick /\ UNCHANGED replayVars
    \/ Crash /\ UNCHANGED replayVars

Spec == Init /\ [][Next]_vars

-----------------------------------------------------------------------------
(* Every accepted candidate of the result is an ENTER_CANDIDATE on file    *)
(* that this run has written: replays that the ledger refuses, failed      *)
(* writes and records of earlier runs never count as accepted.             *)
EntersOnRecord ==
    pc \in {"advance", "cycle"} =>
        counts.accepted <= Cardinality({i \in DOMAIN lines :
                               lines[i].run = run /\ lines[i].status = "ENTER_CANDIDATE"})

(* When a replay has walked its timeline, the ledger holds a decision for  *)
(* each pair at each candle of the window, however often main crashed and  *)
(* was started again before, unless a record or a cycle has failed.        *)
ReplayCovered ==
    pc = "advance" /\ left = {} /\ faults = 0 =>
        \A p \in PairSet : \A t \in merged[p] :
            t \in ReplayStart..end =>
                \E i \in DOMAIN lines : lines[i].pair = p /\ lines[i].time = t

(* No cycle is given a candle that was not finished at the cycle's time.   *)
NoHindsight == pc = "cycle" => \A t \in Visible(pair) : t + 1 <= clock
=============================================================================
