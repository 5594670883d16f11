------------------------------ MODULE DecisionCycle ------------------------------
(***************************************************************************)
(* HydraOrchestratorV4.run_cycle: the brains in their locked order, the    *)
(* gate's verdict, and the DECISION_CYCLE and GATE_AUDIT records that the  *)
(* SmartNoteBook is asked to keep, with several threads sharing one        *)
(* orchestrator.                                                           *)
(*                                                                         *)
(* A cycle's thread goes through the values of pc:                         *)
(*   idle -> news -> market -> chart -> gate -> lock -> cycle -> audit     *)
(* or, when a brain raises, to error_lock -> error.                        *)
(*                                                                         *)
(* An append to the notebook is one step here: LedgerStorage has its inner *)
(* steps, and the _notebook_lock held around it hides them from the other  *)
(* cycles.  All cycles fall on one UTC day, so there is one day file.      *)
(***************************************************************************)
EXTENDS Naturals, Sequences

CONSTANTS
    Thread,       \* threads that call run_cycle
    Cycle,        \* cycle ids; each call mints a new one
    MaxTime,      \* bound on the wall clock
    Drift,        \* CLOCK_DRIFT_TOLERANCE_MINUTES
    Faults,       \* which failures the environment may produce
    NoThread      \* "nobody", for the lock

FaultKind == {"raise", "wrong_type", "write_error", "index_error", "crash"}

ASSUME CycleAssumption ==
    /\ NoThread \notin Thread
    /\ MaxTime \in Nat \ {0}
    /\ Drift \in Nat
    /\ Faults \subseteq FaultKind

VARIABLES
    wall,         \* the host's clock
    ledger,       \* the lines of the day file, in order
    seen,         \* the S5 timestamp cached by Storage, 0 when there is none
    lock,         \* holder of _notebook_lock
    pc, job,      \* where each thread is; the cycle and now_utc of the calls under way
    cycles        \* what is known of each cycle that was begun

vars == <<wall, ledger, seen, lock, pc, job, cycles>>

Verdict == {"ENTER_CANDIDATE", "WAIT", "BLOCK"}

\* How a cycle can end, after "running": a DecisionCycleResult with this final_status, a
\* MissingBrainOutputError out of run_cycle, or with the process.
Status == Verdict \cup {"ORCHESTRATOR_ERROR", "running", "raised", "lost"}

Time == 1..(MaxTime + Drift)

PcValue == {"idle", "news", "market", "chart", "gate",
            "lock", "cycle", "audit", "error_lock", "error"}

\* blocked: some brain has returned a BLOCK; linked: the result carries the record ids.
Progress == [status : Status, verdict : Verdict \cup {"none"},
             blocked : BOOLEAN, linked : BOOLEAN]

Started == [status |-> "running", verdict |-> "none", blocked |-> FALSE, linked |-> FALSE]

\* A line of the ledger: marked means a blocking_reason that starts with orchestrator_error:.
LedgerLine == [kind : {"cycle", "audit"}, of : Cycle, status : Verdict, marked : BOOLEAN,
               ts : Time]

Put(dict, k, v) == [x \in DOMAIN dict \cup {k} |-> IF x = k THEN v ELSE dict[x]]

Without(dict, k) == [x \in DOMAIN dict \ {k} |-> dict[x]]

Mine(t) == job[t].cycle

Known(t) == cycles[Mine(t)]

\* Running a brain or the gate touches none of these.
notebook == <<ledger, seen, lock>>

-----------------------------------------------------------------------------
(***************************************************************************)
(* The brains and the gate.                                                *)
(***************************************************************************)
Goto(t, where) == pc' = [pc EXCEPT ![t] = where]

Learn(t, progress) == cycles' = [cycles EXCEPT ![Mine(t)] = progress]

\* Mutant of Valid: the future is not bounded.
ValidAnyTime(now) == TRUE

\* _validate_inputs, of the arguments that matter here: now_utc is not too far ahead.
Valid(now) == now <= wall + Drift

Begin(t, c, now) ==
    /\ pc[t] = "idle"
    /\ c \notin DOMAIN cycles
    /\ Valid(now)
    /\ job' = Put(job, t, [cycle |-> c, now |-> now])
    /\ cycles' = Put(cycles, c, Started)
    /\ Goto(t, "news")
    /\ UNCHANGED <<wall, notebook>>

NextBrain == [news |-> "market", market |-> "chart", chart |-> "gate"]

\* A brain returns a BrainOutput; a BLOCK is passed on like any other.
Brain(t, blocks) ==
    /\ pc[t] \in DOMAIN NextBrain
    /\ Learn(t, [Known(t) EXCEPT !.blocked = @ \/ blocks])
    /\ Goto(t, NextBrain[pc[t]])
    /\ UNCHANGED <<wall, notebook, job>>

\* Mutant of Verdicts: a brain's BLOCK is one vote among three.
VerdictsByVote(blocked) == Verdict

\* What the ladder can answer: a BLOCK from any brain blocks (R3, R4 and R6).
Verdicts(blocked) == IF blocked THEN {"BLOCK"} ELSE Verdict

Gate(t) ==
    /\ pc[t] = "gate"
    /\ \E v \in Verdicts(Known(t).blocked) : Learn(t, [Known(t) EXCEPT !.verdict = v])
    /\ Goto(t, "lock")
    /\ UNCHANGED <<wall, notebook, job>>

\* A brain or the gate raises: on to _record_orchestrator_error, without a verdict.
Raises(t) ==
    /\ "raise" \in Faults
    /\ pc[t] \in DOMAIN NextBrain \cup {"gate"}
    /\ Goto(t, "error_lock")
    /\ UNCHANGED <<wall, notebook, job, cycles>>

\* Mutant of WrongType: the thread's call is never closed.
WrongTypeHangs(t) ==
    /\ "wrong_type" \in Faults
    /\ pc[t] \in DOMAIN NextBrain \cup {"gate"}
    /\ Learn(t, [Known(t) EXCEPT !.status = "raised"])
    /\ Goto(t, "idle")
    /\ UNCHANGED <<wall, notebook, job>>

\* It returns something else: MissingBrainOutputError leaves run_cycle, nothing is recorded.
WrongType(t) ==
    /\ "wrong_type" \in Faults
    /\ pc[t] \in DOMAIN NextBrain \cup {"gate"}
    /\ Learn(t, [Known(t) EXCEPT !.status = "raised"])
    /\ job' = Without(job, t)
    /\ Goto(t, "idle")
    /\ UNCHANGED <<wall, notebook>>

-----------------------------------------------------------------------------
(***************************************************************************)
(* The notebook.                                                           *)
(***************************************************************************)

\* The S5 watermark: the cached one, or that of the last line.
LastSeen ==
    IF seen # 0 THEN seen
    ELSE IF ledger = << >> THEN 0 ELSE ledger[Len(ledger)].ts

LineFor(t, kind, status, marked) ==
    [kind |-> kind, of |-> Mine(t), status |-> status, marked |-> marked, ts |-> job[t].now]

\* append_record returns.
Appended(line) ==
    /\ LastSeen <= line.ts
    /\ ledger' = Append(ledger, line)
    /\ seen' = line.ts

\* append_record raises: the line is refused or cannot be written, or it is written and then
\* cannot be indexed, and the watermark does not follow.
AppendRaises(line) ==
    /\ \/ /\ line.ts < LastSeen \/ "write_error" \in Faults
          /\ UNCHANGED ledger
       \/ /\ LastSeen <= line.ts /\ "index_error" \in Faults
          /\ ledger' = Append(ledger, line)
    /\ seen' = LastSeen

\* Mutant of Return: a failed append leaves the lock held.
ReturnLeaks(t, status, linked) ==
    /\ Learn(t, [Known(t) EXCEPT !.status = status, !.linked = linked])
    /\ lock' = IF linked THEN NoThread ELSE lock
    /\ job' = Without(job, t)
    /\ Goto(t, "idle")
    /\ UNCHANGED wall

\* The with-block is left and run_cycle returns.
Return(t, status, linked) ==
    /\ Learn(t, [Known(t) EXCEPT !.status = status, !.linked = linked])
    /\ lock' = NoThread
    /\ job' = Without(job, t)
    /\ Goto(t, "idle")
    /\ UNCHANGED wall

Acquire(t) ==
    /\ pc[t] \in {"lock", "error_lock"}
    /\ lock = NoThread
    /\ lock' = t
    /\ Goto(t, IF pc[t] = "lock" THEN "cycle" ELSE "error")
    /\ UNCHANGED <<wall, ledger, seen, job, cycles>>

\* Mutant of RecordCycle: the lock is given back between the two records.
RecordCycleAlone(t) ==
    /\ pc[t] = "cycle"
    /\ Appended(LineFor(t, "cycle", Known(t).verdict, FALSE))
    /\ lock' = NoThread
    /\ Goto(t, "audit")
    /\ UNCHANGED <<wall, job, cycles>>

\* record_decision_cycle, with the gate's verdict as final_status.
RecordCycle(t) ==
    /\ pc[t] = "cycle"
    /\ Appended(LineFor(t, "cycle", Known(t).verdict, FALSE))
    /\ Goto(t, "audit")
    /\ UNCHANGED <<wall, lock, job, cycles>>

\* record_gate_audit, and the result: the verdict stands.
RecordAudit(t) ==
    /\ pc[t] = "audit"
    /\ Appended(LineFor(t, "audit", Known(t).verdict, FALSE))
    /\ Return(t, Known(t).verdict, TRUE)

\* Mutant of RecordFails: the failure is logged and the verdict returned.
RecordFailsQuietly(t) ==
    /\ \/ pc[t] = "cycle" /\ AppendRaises(LineFor(t, "cycle", Known(t).verdict, FALSE))
       \/ pc[t] = "audit" /\ AppendRaises(LineFor(t, "audit", Known(t).verdict, FALSE))
    /\ Return(t, Known(t).verdict, FALSE)

\* Either append raises: a BLOCK with no record ids.  The first record stays.
RecordFails(t) ==
    /\ \/ pc[t] = "cycle" /\ AppendRaises(LineFor(t, "cycle", Known(t).verdict, FALSE))
       \/ pc[t] = "audit" /\ AppendRaises(LineFor(t, "audit", Known(t).verdict, FALSE))
    /\ Return(t, "BLOCK", FALSE)

\* Mutant of RecordError: the ledger gets a plain BLOCK.
RecordErrorUnmarked(t) ==
    /\ pc[t] = "error"
    /\ Appended(LineFor(t, "cycle", "BLOCK", FALSE))
    /\ Return(t, "ORCHESTRATOR_ERROR", TRUE)

\* _record_orchestrator_error: a marked BLOCK, and no audit since there is no decision.
RecordError(t) ==
    /\ pc[t] = "error"
    /\ Appended(LineFor(t, "cycle", "BLOCK", TRUE))
    /\ Return(t, "ORCHESTRATOR_ERROR", TRUE)

RecordErrorFails(t) ==
    /\ pc[t] = "error"
    /\ AppendRaises(LineFor(t, "cycle", "BLOCK", TRUE))
    /\ Return(t, "ORCHESTRATOR_ERROR", FALSE)

-----------------------------------------------------------------------------
(***************************************************************************)
(* The environment.                                                        *)
(***************************************************************************)
Tick ==
    /\ wall < MaxTime
    /\ wall' = wall + 1
    /\ UNCHANGED <<notebook, pc, job, cycles>>

\* The process dies; a new one opens the same ledger with a cold cache.
Crash ==
    /\ "crash" \in Faults
    /\ seen' = 0
    /\ lock' = NoThread
    /\ pc' = [t \in Thread |-> "idle"]
    /\ cycles' = [c \in DOMAIN cycles |->
                    IF cycles[c].status = "running"
                    THEN [cycles[c] EXCEPT !.status = "lost"] ELSE cycles[c]]
    /\ job' = << >>
    /\ UNCHANGED <<wall, ledger>>

Init ==
    /\ wall = 1
    /\ ledger = << >>
    /\ seen = 0
    /\ lock = NoThread
    /\ pc = [t \in Thread |-> "idle"]
    /\ job = << >>
    /\ cycles = << >>

Step(t) ==
    \/ \E blocks \in BOOLEAN : Brain(t, blocks)
    \/ Gate(t) \/ Raises(t) \/ WrongType(t)
    \/ Acquire(t)
    \/ RecordCycle(t) \/ RecordAudit(t) \/ RecordFails(t)
    \/ RecordError(t) \/ RecordErrorFails(t)

Next ==
    \/ \E t \in Thread, c \in Cycle, now \in Time : Begin(t, c, now)
    \/ \E t \in Thread : Step(t)
    \/ Tick
    \/ Crash

Spec == Init /\ [][Next]_vars

\* A thread that can run is scheduled: brains return or raise, and appends end.  The clock,
\* new calls and crashes are left free.
FairSpec == Spec /\ \A t \in Thread : WF_vars(Step(t))

-----------------------------------------------------------------------------
(***************************************************************************)
(* Properties.                                                             *)
(***************************************************************************)

\* Types of the variables.
TypeOK ==
    /\ wall \in 1..MaxTime
    /\ ledger \in Seq(LedgerLine)
    /\ seen \in Time \cup {0}
    /\ lock \in Thread \cup {NoThread}
    /\ pc \in [Thread -> PcValue]
    /\ DOMAIN job = {t \in Thread : pc[t] # "idle"}
    /\ \A t \in DOMAIN job : job[t] \in [cycle : Cycle, now : Time]
    /\ DOMAIN cycles \subseteq Cycle
    /\ \A c \in DOMAIN cycles : cycles[c] \in Progress

\* The two records of cycle c, side by side, both with this status.
PairAt(i, c, status) ==
    /\ i + 1 <= Len(ledger)
    /\ ledger[i].kind = "cycle" /\ ledger[i].of = c /\ ledger[i].status = status
    /\ ledger[i + 1].kind = "audit" /\ ledger[i + 1].of = c /\ ledger[i + 1].status = status

\* A caller is told to ENTER only when the decision and its audit are both in the ledger,
\* next to each other, whatever else was written or failed meanwhile.
EnterIsOnRecord ==
    \A c \in DOMAIN cycles : cycles[c].status = "ENTER_CANDIDATE" =>
        \E i \in 1..Len(ledger) : PairAt(i, c, "ENTER_CANDIDATE")

\* O2, "two threads ... cannot interleave": an audit record directly follows the cycle record
\* it belongs to.
AuditFollowsCycle ==
    \A i \in 1..Len(ledger) : ledger[i].kind = "audit" =>
        /\ i > 1
        /\ PairAt(i - 1, ledger[i].of, ledger[i].status)

\* How far an answer lets a trade go.
Rank(status) == CASE status = "ENTER_CANDIDATE" -> 2 [] status = "WAIT" -> 1 [] OTHER -> 0

\* Rules 2 and 3: the answer is never more permissive than the gate's verdict, and no
\* failure on the way makes an ENTER of a cycle in which a brain blocked.
NeverUpgraded ==
    \A c \in DOMAIN cycles : cycles[c].status # "running" =>
        /\ Rank(cycles[c].status) <= Rank(cycles[c].verdict)
        /\ cycles[c].blocked => Rank(cycles[c].status) = 0

\* O3, "auditors can grep blocking_reason for that prefix": every recorded orchestrator error
\* can be found by its marker, and the marker finds nothing else.
ErrorsMarked ==
    \A c \in DOMAIN cycles :
        /\ cycles[c].status = "ORCHESTRATOR_ERROR" /\ cycles[c].linked =>
             \E i \in 1..Len(ledger) :
                 ledger[i].of = c /\ ledger[i].marked /\ ledger[i].status = "BLOCK"
        /\ \A i \in 1..Len(ledger) : ledger[i].of = c /\ ledger[i].marked =>
             cycles[c].status \in {"ORCHESTRATOR_ERROR", "lost"} /\ cycles[c].verdict = "none"

\* O5, "so we don't poison ... SmartNoteBook chain": no cycle leaves a watermark that refuses
\* the present for longer than the drift tolerance.
PoisonBounded == LastSeen <= wall + Drift

\* A cycle that was begun ends: with a result, an exception, or the process.
CycleEnds ==
    \A c \in Cycle :
        (c \in DOMAIN cycles /\ cycles[c].status = "running") ~>
        (c \in DOMAIN cycles /\ cycles[c].status # "running")
================================================================================
