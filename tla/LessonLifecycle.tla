----------------------------- MODULE LessonLifecycle -----------------------------
(***************************************************************************)
(* The lessons of the SmartNoteBook: propose_lesson, activate_lesson and   *)
(* retire_lesson append LESSON records, and the state of a lesson is that  *)
(* of its record with the highest sequence id, as a replay asks for it     *)
(* with load_active_lessons.                                               *)
(*                                                                         *)
(* A transition reads the latest record, takes a sequence id and appends,  *)
(* with no lock around the three.  The append itself is one step: Storage  *)
(* holds its lock throughout, and LedgerStorage has its inner steps.       *)
(* Readers use the SQLite index, so a line that was not indexed is not     *)
(* seen, except by the S5 check.                                           *)
(***************************************************************************)
EXTENDS Naturals

CONSTANTS
    Thread,       \* threads that call the facade
    Lesson,       \* lesson ids
    MaxTime,      \* bound on now_utc and allowed_from_timestamp
    DayLength,    \* instants in a UTC day
    MaxSeq,       \* bound on the sequence ids that are handed out
    Faults        \* which failures the environment may produce

ASSUME LessonAssumption ==
    /\ {MaxTime, DayLength, MaxSeq} \subseteq Nat \ {0}
    /\ Faults \subseteq {"write_error", "index_error", "crash"}

VARIABLES
    counter,      \* the process-wide sequence counter
    rows,         \* LESSON rows of the index
    newest,       \* the timestamp of each day file's last line, 0 when it has none
    seen,         \* the one cached for S5, 0 when there is none
    call          \* the calls under way: thread -> arguments and progress

vars == <<counter, rows, newest, seen, call>>

Time == 1..MaxTime

Day == 0..((MaxTime - 1) \div DayLength)

DayOf(ts) == (ts - 1) \div DayLength

State == {"CANDIDATE", "ACTIVE", "RETIRED"}

\* A record, before and after it has its sequence id: from is allowed_from_timestamp, parent
\* the sequence id of the parent record, 0 for none.  after is not in the record: it has the
\* ids of the lesson's records whose calls had returned when this one was called.
Draft == [seq : 0..MaxSeq, lesson : Lesson, state : State, from : 0..MaxTime, ts : Time,
          parent : 0..MaxSeq, after : SUBSET (1..MaxSeq)]

Row == {r \in Draft : r.seq # 0}

\* What a call under way does next.
Step == {"read", "number", "append"}

Busy(t) == t \in DOMAIN call

Of(lesson) == {r \in rows : r.lesson = lesson}

\* Mutant of Latest: retired records are skipped.
LatestInUse(lesson) ==
    {r \in Of(lesson) : r.state # "RETIRED" /\
        \A q \in Of(lesson) : q.seq <= r.seq \/ q.state = "RETIRED"}

\* _latest_lesson_record, _latest_state_per_lesson: the row with the highest id, if any.
Latest(lesson) == {r \in Of(lesson) : \A q \in Of(lesson) : q.seq <= r.seq}

\* load_active_lessons.
Active(clock) ==
    UNION {{r \in Latest(l) : r.state = "ACTIVE" /\ r.from <= clock} : l \in Lesson}

Put(dict, k, v) == [x \in DOMAIN dict \cup {k} |-> IF x = k THEN v ELSE dict[x]]

Without(dict, k) == [x \in DOMAIN dict \ {k} |-> dict[x]]

-----------------------------------------------------------------------------
Called(t, lesson, state, from, ts, at) ==
    /\ ~Busy(t)
    /\ call' = Put(call, t,
           [at |-> at,
            row |-> [seq |-> 0, lesson |-> lesson, state |-> state, from |-> from, ts |-> ts,
                     parent |-> 0, after |-> {r.seq : r \in Of(lesson)}]])
    /\ UNCHANGED <<counter, rows, newest, seen>>

Propose(t, lesson, ts) == Called(t, lesson, "CANDIDATE", 0, ts, "number")

Activate(t, lesson, from, ts) == Called(t, lesson, "ACTIVE", from, ts, "read")

Retire(t, lesson, ts) == Called(t, lesson, "RETIRED", 0, ts, "read")

\* The draft once its parent is known; a retirement keeps the allowed_from_timestamp.
Child(row, p) ==
    [seq |-> 0, lesson |-> row.lesson, state |-> row.state, ts |-> row.ts, parent |-> p.seq,
     after |-> row.after, from |-> IF row.state = "RETIRED" THEN p.from ELSE row.from]

\* The latest record becomes the parent; a ValueError if the lesson is unknown.
Read(t) ==
    /\ Busy(t) /\ call[t].at = "read"
    /\ LET row == call[t].row
           prior == Latest(row.lesson)
       IN  IF prior = {} THEN call' = Without(call, t)
           ELSE \E p \in prior :
                call' = [call EXCEPT ![t] = [at |-> "number", row |-> Child(row, p)]]
    /\ UNCHANGED <<counter, rows, newest, seen>>

Numbered(row, n) == [row EXCEPT !.seq = n]

\* Mutant of Number: the id that follows the lesson's own.
NumberOfLesson(t) ==
    /\ Busy(t) /\ call[t].at = "number"
    /\ counter < MaxSeq
    /\ counter' = counter + 1
    /\ call' = [call EXCEPT ![t] = [at |-> "append", row |-> Numbered(@.row, @.row.parent + 1)]]
    /\ UNCHANGED <<rows, newest, seen>>

Number(t) ==
    /\ Busy(t) /\ call[t].at = "number"
    /\ counter < MaxSeq
    /\ counter' = counter + 1
    /\ call' = [call EXCEPT ![t] = [at |-> "append", row |-> Numbered(@.row, counter')]]
    /\ UNCHANGED <<rows, newest, seen>>

\* The S5 watermark of a day.
LastSeen(day) == IF seen[day] # 0 THEN seen[day] ELSE newest[day]

Monotone(row) == LastSeen(DayOf(row.ts)) <= row.ts

\* append_record returns.
Append(t) ==
    /\ Busy(t) /\ call[t].at = "append"
    /\ LET row == call[t].row
       IN  /\ Monotone(row)
           /\ rows' = rows \cup {row}
           /\ newest' = [newest EXCEPT ![DayOf(row.ts)] = row.ts]
           /\ seen' = [seen EXCEPT ![DayOf(row.ts)] = row.ts]
    /\ call' = Without(call, t)
    /\ UNCHANGED counter

\* It raises: the record is refused or cannot be written, or it is written and then cannot be
\* indexed, and the watermark does not follow.
AppendRaises(t) ==
    /\ Busy(t) /\ call[t].at = "append"
    /\ LET row == call[t].row
           day == DayOf(row.ts)
       IN  /\ \/ /\ ~Monotone(row) \/ "write_error" \in Faults
                 /\ UNCHANGED newest
              \/ /\ Monotone(row) /\ "index_error" \in Faults
                 /\ newest' = [newest EXCEPT ![day] = row.ts]
           /\ seen' = [seen EXCEPT ![day] = LastSeen(day)]
    /\ call' = Without(call, t)
    /\ UNCHANGED <<counter, rows>>

\* Mutant of Floor: the counter of a new process starts from nothing.
FloorZero == {0}

\* Mutant of Floor: the next id where the last one is meant.
FloorNext ==
    {m + 1 : m \in {k \in {0} \cup {r.seq : r \in rows} : \A r \in rows : r.seq <= k}}

\* _seed_sequence_counter: the highest id in the index, if there is one.
Floor ==
    {m \in {0} \cup {r.seq : r \in rows} : \A r \in rows : r.seq <= m}

\* The process dies; a new one opens the same ledger.
Crash ==
    /\ "crash" \in Faults
    /\ counter' \in Floor
    /\ seen' = [d \in Day |-> 0]
    /\ call' = << >>
    /\ UNCHANGED <<rows, newest>>

Init ==
    /\ counter = 0
    /\ rows = {}
    /\ newest = [d \in Day |-> 0]
    /\ seen = [d \in Day |-> 0]
    /\ call = << >>

Next ==
    \/ \E t \in Thread, l \in Lesson, ts \in Time :
          \/ Propose(t, l, ts)
          \/ \E from \in Time : Activate(t, l, from, ts)
          \/ Retire(t, l, ts)
    \/ \E t \in Thread : Read(t) \/ Number(t) \/ Append(t) \/ AppendRaises(t)
    \/ Crash

Spec == Init /\ [][Next]_vars

-----------------------------------------------------------------------------
\* Types of the variables.
TypeOK ==
    /\ counter \in 0..MaxSeq
    /\ rows \subseteq Row
    /\ newest \in [Day -> 0..MaxTime]
    /\ seen \in [Day -> 0..MaxTime]
    /\ DOMAIN call \subseteq Thread
    /\ \A t \in DOMAIN call : call[t] \in [at : Step, row : Draft]

\* "State transitions are NEW LessonRecords": each descends from an older record of the same
\* lesson, so from its proposal, and no two records claim the same place in the order.
LineageRooted ==
    /\ \A r \in rows : r.state # "CANDIDATE" =>
          \E p \in Of(r.lesson) : p.seq = r.parent /\ p.seq < r.seq
    /\ \A r, q \in rows : r.seq = q.seq => r = q

\* A transition called after another of the lesson has returned overrules it, and was decided
\* in the knowledge of it, whatever was called, failed or crashed in between.
LaterCallWins ==
    \A r \in rows : \A earlier \in r.after :
        /\ earlier < r.seq
        /\ r.state # "CANDIDATE" => earlier <= r.parent

\* A version of a lesson that had been recorded when the lesson was retired is never handed
\* to a replay again.
RetirementSticks ==
    \A clock \in Time : \A a \in Active(clock), r \in rows :
        r.lesson = a.lesson /\ r.state = "RETIRED" => a.seq \notin r.after
================================================================================
