------------------------------ MODULE LessonProofs ------------------------------
(***************************************************************************)
(* What holds of lessons for any threads, lessons, instants and faults.    *)
(***************************************************************************)
EXTENDS LessonLifecycle, TLAPS

\* The parent is on record and no older than what the call knew.
Descends(row) ==
    row.state # "CANDIDATE" =>
        /\ \E p \in Of(row.lesson) : p.seq = row.parent
        /\ \A earlier \in row.after : earlier <= row.parent

\* Its own id is above the parent's and above all it knew.
Above(row) ==
    /\ \A earlier \in row.after : earlier < row.seq
    /\ row.state # "CANDIDATE" => row.parent < row.seq

\* The records.
RowsFine ==
    /\ rows \subseteq Row
    /\ \A r \in rows : r.seq <= counter /\ Descends(r) /\ Above(r)
    /\ \A r, q \in rows : r.seq = q.seq => r = q

\* A call under way: what was on record when it was made still is, and it has an id of its
\* own when it is about to be appended, and none before.
CallFine(c) ==
    /\ c \in [at : Step, row : Draft]
    /\ c.row.after \subseteq {r.seq : r \in Of(c.row.lesson)}
    /\ c.at # "read" => Descends(c.row)
    /\ c.at = "append" => /\ c.row.seq \in 1..counter
                          /\ Above(c.row)
                          /\ \A r \in rows : r.seq # c.row.seq

\* Nobody else has the id.
Distinct ==
    \A t, u \in DOMAIN call :
        /\ call[t].at = "append" /\ call[u].at = "append"
        /\ call[t].row.seq = call[u].row.seq
        => t = u

\* The inductive invariant.
LInv ==
    /\ counter \in 0..MaxSeq
    /\ newest \in [Day -> 0..MaxTime]
    /\ seen \in [Day -> 0..MaxTime]
    /\ RowsFine
    /\ DOMAIN call \subseteq Thread
    /\ call = [t \in DOMAIN call |-> call[t]]
    /\ \A t \in DOMAIN call : CallFine(call[t])
    /\ Distinct

LEMMA LInvInit == Init => LInv
BY LessonAssumption DEF Init, LInv, RowsFine, Distinct

\* A call stays fine while the records grow by one with another id, and the counter grows.
LEMMA StaysFine ==
    ASSUME LInv, NEW c, CallFine(c), counter' \in Nat, counter <= counter',
           rows \subseteq rows',
           \A r \in rows' : r \in rows \/ c.at # "append" \/ r.seq # c.row.seq
    PROVE  CallFine(c)'
<1>1. Of(c.row.lesson) \subseteq Of(c.row.lesson)'
    BY DEF Of
<1>2. c.row.after \subseteq {r.seq : r \in Of(c.row.lesson)'}
    BY <1>1 DEF CallFine
<1>3. Descends(c.row) => Descends(c.row)'
    BY <1>1 DEF Descends
<1>4. Above(c.row)' <=> Above(c.row)
    BY DEF Above
<1>5. c.row.seq \in 1..counter => c.row.seq \in 1..counter'
    BY DEF LInv
<1> QED BY <1>2, <1>3, <1>4, <1>5 DEF CallFine

\* The records stay fine while only the counter grows.
LEMMA RowsStayFine ==
    ASSUME LInv, UNCHANGED rows, counter' \in Nat, counter <= counter'
    PROVE  RowsFine'
<1>1. \A r \in rows : r.seq \in Nat
    BY DEF LInv, RowsFine, Row, Draft
<1> QED BY <1>1 DEF LInv, RowsFine, Descends, Above, Of

\* What a propose_, activate_ or retire_ call leaves behind.
LEMMA CalledKeeps ==
    ASSUME LInv, NEW t \in Thread, NEW lesson \in Lesson, NEW state \in State,
           NEW from \in 0..MaxTime, NEW ts \in Time, NEW at \in {"read", "number"},
           at = "number" => state = "CANDIDATE",
           Called(t, lesson, state, from, ts, at)
    PROVE  LInv'
<1>1. PICK c : c = [at |-> at,
                    row |-> [seq |-> 0, lesson |-> lesson, state |-> state, from |-> from,
                             ts |-> ts, parent |-> 0, after |-> {r.seq : r \in Of(lesson)}]]
    OBVIOUS
<1>2. /\ t \notin DOMAIN call
      /\ call' = [x \in DOMAIN call \cup {t} |-> IF x = t THEN c ELSE call[x]]
      /\ UNCHANGED <<counter, rows, newest, seen>>
    BY <1>1 DEF Called, Busy, Put
<1>3. {r.seq : r \in Of(lesson)} \subseteq 1..MaxSeq
    BY LessonAssumption DEF LInv, RowsFine, Row, Draft, Of
<1>4. c \in [at : Step, row : Draft]
    BY <1>1, <1>3, LessonAssumption DEF Step, Draft
<1>5. CallFine(c)
    BY <1>1, <1>4 DEF CallFine, Descends
<1>6. c.at # "append"
    BY <1>1
<1>7. ASSUME NEW u \in DOMAIN call' PROVE CallFine(call[u])'
  <2>1. CASE u = t
    BY <1>2, <1>5, <2>1 DEF CallFine, Descends, Above, Of
  <2>2. CASE u # t
    BY <1>2, <2>2 DEF LInv, CallFine, Descends, Above, Of
  <2> QED BY <2>1, <2>2
<1>8. Distinct'
    BY <1>2, <1>6 DEF LInv, Distinct
<1>9. RowsFine'
    BY <1>2 DEF LInv, RowsFine, Descends, Above, Of
<1>10. /\ DOMAIN call' \subseteq Thread
       /\ call' = [x \in DOMAIN call' |-> call'[x]]
    BY <1>2 DEF LInv
<1> QED BY <1>2, <1>7, <1>8, <1>9, <1>10 DEF LInv

\* A call that ends, with or without its record on record, leaves the others fine.
LEMMA LeavingKeeps ==
    ASSUME LInv, NEW t \in DOMAIN call, call' = Without(call, t), UNCHANGED counter,
           newest' \in [Day -> 0..MaxTime], seen' \in [Day -> 0..MaxTime],
           RowsFine', rows \subseteq rows',
           \A r \in rows' : r \in rows \/ (call[t].at = "append" /\ r = call[t].row)
    PROVE  LInv'
<1>1. /\ DOMAIN call' = DOMAIN call \ {t}
      /\ \A u \in DOMAIN call' : call'[u] = call[u]
      /\ call' = [u \in DOMAIN call' |-> call'[u]]
    BY DEF Without
<1>2. ASSUME NEW u \in DOMAIN call' PROVE CallFine(call[u])'
  <2>1. PICK c : c = call[u]
    OBVIOUS
  <2>2. CallFine(c) /\ call'[u] = c
    BY <1>1, <2>1 DEF LInv
  <2>3. \A r \in rows' : r \in rows \/ c.at # "append" \/ r.seq # c.row.seq
    BY <1>1, <2>1 DEF LInv, Distinct
  <2>4. counter' \in Nat /\ counter <= counter'
    BY DEF LInv
  <2>5. CallFine(c)'
    BY <2>2, <2>3, <2>4, StaysFine
  <2> QED BY <2>2, <2>5 DEF CallFine, Descends, Above, Of
<1>3. Distinct'
    BY <1>1 DEF LInv, Distinct
<1> QED BY <1>1, <1>2, <1>3 DEF LInv

\* A call that moves on leaves the others fine.
LEMMA MovingKeeps ==
    ASSUME LInv, NEW t \in DOMAIN call, NEW c, call' = [call EXCEPT ![t] = c], CallFine(c)',
           UNCHANGED <<rows, newest, seen>>, counter' \in 0..MaxSeq, counter <= counter',
           c.at = "append" => \A u \in DOMAIN call :
               call[u].at = "append" => call[u].row.seq # c.row.seq
    PROVE  LInv'
<1>1. /\ DOMAIN call' = DOMAIN call
      /\ \A u \in DOMAIN call : u # t => call'[u] = call[u]
      /\ call'[t] = c
      /\ call' = [u \in DOMAIN call' |-> call'[u]]
    BY DEF LInv
<1>2. ASSUME NEW u \in DOMAIN call' PROVE CallFine(call[u])'
  <2>1. CASE u = t
    BY <1>1, <2>1 DEF CallFine, Descends, Above, Of
  <2>2. CASE u # t
    <3>1. PICK k : k = call[u]
      OBVIOUS
    <3>2. CallFine(k) /\ call'[u] = k
      BY <1>1, <2>2, <3>1 DEF LInv
    <3>3. CallFine(k)'
      BY <3>2, StaysFine
    <3> QED BY <3>2, <3>3 DEF CallFine, Descends, Above, Of
  <2> QED BY <2>1, <2>2
<1>3. Distinct'
    BY <1>1 DEF LInv, Distinct
<1>4. RowsFine'
    BY RowsStayFine
<1> QED BY <1>1, <1>2, <1>3, <1>4 DEF LInv

LEMMA ReadKeeps ==
    ASSUME LInv, NEW t \in Thread, Read(t)
    PROVE  LInv'
<1> DEFINE row == call[t].row
<1>1. t \in DOMAIN call /\ call[t].at = "read" /\ UNCHANGED <<counter, rows, newest, seen>>
    BY DEF Read, Busy
<1>2. CASE Latest(row.lesson) = {}
  <2>1. call' = Without(call, t)
    BY <1>2 DEF Read
  <2>2. RowsFine'
    BY <1>1, RowsStayFine DEF LInv
  <2> QED BY <1>1, <2>1, <2>2, LeavingKeeps DEF LInv
<1>3. CASE Latest(row.lesson) # {}
  <2>1. PICK p \in Latest(row.lesson) :
            call' = [call EXCEPT ![t] = [at |-> "number", row |-> Child(row, p)]]
    BY <1>3 DEF Read
  <2>2. PICK c : c = [at |-> "number", row |-> Child(row, p)]
    OBVIOUS
  <2>3. p \in Row /\ row \in Draft /\ p \in Of(row.lesson)
    BY <1>1, <2>1 DEF LInv, RowsFine, Latest, Of, CallFine
  <2>4. c \in [at : Step, row : Draft]
    <3>1. PICK from : from = IF row.state = "RETIRED" THEN p.from ELSE row.from
      OBVIOUS
    <3>2. from \in 0..MaxTime
      BY <2>3, <3>1 DEF Row, Draft
    <3>3. Child(row, p) \in Draft
      BY <2>3, <3>1, <3>2, LessonAssumption DEF Child, Row, Draft
    <3> QED BY <2>2, <3>3 DEF Step
  <2>5. Descends(c.row)
    <3>1. \A earlier \in row.after : \E q \in Of(row.lesson) : q.seq = earlier
      BY <1>1 DEF LInv, CallFine
    <3>2. \A q \in Of(row.lesson) : q.seq <= p.seq
      BY <2>1 DEF Latest
    <3>3. c.row.parent = p.seq /\ c.row.after = row.after /\ c.row.lesson = row.lesson
      BY <2>2 DEF Child
    <3> QED BY <2>3, <3>1, <3>2, <3>3 DEF Descends
  <2>6. c.row.after \subseteq {r.seq : r \in Of(c.row.lesson)}
    BY <1>1, <2>2 DEF Child, LInv, CallFine
  <2>7. CallFine(c)'
    BY <1>1, <2>2, <2>4, <2>5, <2>6 DEF CallFine, Descends, Above, Of
  <2>8. c.at # "append"
    BY <2>2
  <2>9. counter' \in 0..MaxSeq /\ counter <= counter'
    BY <1>1 DEF LInv
  <2>10. call' = [call EXCEPT ![t] = c]
    BY <2>1, <2>2
  <2> HIDE DEF row
  <2> QED BY <1>1, <2>7, <2>8, <2>9, <2>10, MovingKeeps
<1> QED BY <1>2, <1>3

LEMMA NumberKeeps ==
    ASSUME LInv, NEW t \in Thread, Number(t)
    PROVE  LInv'
<1> DEFINE row == call[t].row
<1>1. /\ t \in DOMAIN call /\ call[t].at = "number"
      /\ counter < MaxSeq /\ counter' = counter + 1
      /\ call' = [call EXCEPT ![t] = [at |-> "append", row |-> Numbered(call[t].row, counter')]]
      /\ UNCHANGED <<rows, newest, seen>>
    BY DEF Number, Busy
<1>2. PICK c : c = [at |-> "append", row |-> Numbered(call[t].row, counter')]
    OBVIOUS
<1>3. counter \in Nat /\ counter' \in 0..MaxSeq /\ counter <= counter'
    BY <1>1, LessonAssumption DEF LInv
<1>4. row \in Draft /\ CallFine(call[t])
    BY <1>1 DEF LInv, CallFine
<1>5. /\ c \in [at : Step, row : Draft]
      /\ c.row.seq = counter' /\ c.row.after = row.after /\ c.row.parent = row.parent
      /\ c.row.lesson = row.lesson /\ c.row.state = row.state
    BY <1>2, <1>3, <1>4 DEF Numbered, Draft, Step
<1>6. \A r \in rows : r.seq \in Nat /\ r.seq < counter'
    BY <1>1, <1>3 DEF LInv, RowsFine, Row, Draft
<1>7. Descends(c.row)
    BY <1>1, <1>4, <1>5 DEF CallFine, Descends
<1>8. c.row.after \subseteq {r.seq : r \in Of(c.row.lesson)}
    BY <1>4, <1>5 DEF CallFine
<1>9. Above(c.row)
    BY <1>5, <1>6, <1>7, <1>8 DEF Above, Descends, Of
<1>10. CallFine(c)'
    BY <1>1, <1>3, <1>5, <1>6, <1>7, <1>8, <1>9 DEF CallFine, Descends, Above, Of
<1>11. \A u \in DOMAIN call : call[u].at = "append" => call[u].row.seq # c.row.seq
    BY <1>1, <1>3, <1>5 DEF LInv, CallFine
<1> QED BY <1>1, <1>2, <1>3, <1>10, <1>11, MovingKeeps

LEMMA AppendKeeps ==
    ASSUME LInv, NEW t \in Thread, Append(t)
    PROVE  LInv'
<1>1. PICK row : row = call[t].row
    OBVIOUS
<1>2. /\ t \in DOMAIN call /\ call[t].at = "append" /\ CallFine(call[t])
      /\ rows' = rows \cup {row} /\ call' = Without(call, t) /\ UNCHANGED counter
      /\ newest' = [newest EXCEPT ![DayOf(row.ts)] = row.ts]
      /\ seen' = [seen EXCEPT ![DayOf(row.ts)] = row.ts]
    BY <1>1 DEF Append, Busy, LInv
<1>3. row \in Row /\ row.seq <= counter /\ Descends(row) /\ Above(row)
      /\ \A r \in rows : r.seq # row.seq
    BY <1>1, <1>2 DEF CallFine, Row, Draft, LInv
<1>4. newest' \in [Day -> 0..MaxTime] /\ seen' \in [Day -> 0..MaxTime]
  <2>1. row.ts \in 0..MaxTime
    BY <1>3, LessonAssumption DEF Row, Draft, Time
  <2> QED BY <1>2, <2>1 DEF LInv
<1>5. RowsFine'
  <2>1. \A r \in rows' : r \in Row /\ r.seq <= counter /\ Descends(r) /\ Above(r)
    BY <1>2, <1>3 DEF LInv, RowsFine
  <2>2. \A r \in rows' : Descends(r)'
    BY <1>2, <2>1 DEF Descends, Of
  <2>3. \A r \in rows' : Above(r)'
    BY <2>1 DEF Above
  <2> QED BY <1>2, <1>3, <2>1, <2>2, <2>3 DEF LInv, RowsFine
<1> QED BY <1>1, <1>2, <1>4, <1>5, LeavingKeeps

\* Every instant has a day.
LEMMA DayOfTime == \A ts \in Time : DayOf(ts) \in Day
BY LessonAssumption DEF Time, Day, DayOf

LEMMA RaisingKeeps ==
    ASSUME LInv, NEW t \in Thread, AppendRaises(t)
    PROVE  LInv'
<1>1. /\ t \in DOMAIN call /\ call[t].row.ts \in Time
      /\ call' = Without(call, t) /\ UNCHANGED <<counter, rows>>
    BY DEF AppendRaises, Busy, LInv, CallFine, Draft
<1>2. newest' \in [Day -> 0..MaxTime] /\ seen' \in [Day -> 0..MaxTime]
  <2>1. PICK ts, day : ts = call[t].row.ts /\ day = DayOf(ts)
    OBVIOUS
  <2>2. ts \in 0..MaxTime /\ day \in Day
    BY <1>1, <2>1, DayOfTime, LessonAssumption DEF Time
  <2>3. newest' = newest \/ newest' = [newest EXCEPT ![day] = ts]
    BY <2>1 DEF AppendRaises
  <2>4. seen' = [seen EXCEPT ![day] = LastSeen(day)]
    BY <2>1 DEF AppendRaises
  <2>5. LastSeen(day) \in 0..MaxTime
    BY <2>2 DEF LInv, LastSeen
  <2> QED BY <2>2, <2>3, <2>4, <2>5 DEF LInv
<1>3. RowsFine'
    BY <1>1, RowsStayFine DEF LInv
<1> QED BY <1>1, <1>2, <1>3, LeavingKeeps

LEMMA CrashKeeps == LInv /\ Crash => LInv'
<1> SUFFICES ASSUME LInv, Crash PROVE LInv'
    OBVIOUS
<1>1. /\ counter' \in Floor /\ seen' = [d \in Day |-> 0] /\ call' = << >>
      /\ UNCHANGED <<rows, newest>>
    BY DEF Crash
<1>2. counter' \in 0..MaxSeq /\ \A r \in rows : r.seq <= counter'
    BY <1>1, LessonAssumption DEF Floor, LInv, RowsFine, Row, Draft
<1>3. RowsFine'
    BY <1>1, <1>2 DEF LInv, RowsFine, Descends, Above, Of
<1>4. seen' \in [Day -> 0..MaxTime]
    BY <1>1, LessonAssumption
<1> QED BY <1>1, <1>2, <1>3, <1>4 DEF LInv, Distinct

LEMMA LInvNext == LInv /\ [Next]_vars => LInv'
<1> SUFFICES ASSUME LInv, [Next]_vars PROVE LInv'
    OBVIOUS
<1>1. ASSUME NEW t \in Thread, NEW l \in Lesson, NEW ts \in Time,
             Propose(t, l, ts) \/ (\E from \in Time : Activate(t, l, from, ts)) \/ Retire(t, l, ts)
      PROVE  LInv'
  <2>1. 0 \in 0..MaxTime /\ Time \subseteq 0..MaxTime
    BY LessonAssumption DEF Time
  <2> QED BY <1>1, <2>1, CalledKeeps DEF Propose, Activate, Retire, State
<1>2. ASSUME NEW t \in Thread, Read(t) \/ Number(t) \/ Append(t) \/ AppendRaises(t)
      PROVE  LInv'
    BY <1>2, ReadKeeps, NumberKeeps, AppendKeeps, RaisingKeeps
<1>3. CASE UNCHANGED vars
    BY <1>3 DEF vars, LInv, RowsFine, CallFine, Distinct, Descends, Above, Of
<1> QED BY <1>1, <1>2, <1>3, CrashKeeps DEF Next

\* LInv is an invariant.
THEOREM LessonInductive == Spec => []LInv
BY LInvInit, LInvNext, PTL DEF Spec

\* Types of the variables.
THEOREM LessonTypes == Spec => []TypeOK
<1>1. LInv => TypeOK
    BY DEF LInv, RowsFine, CallFine, TypeOK
<1> QED BY <1>1, LessonInductive, PTL

\* Every record that is not a proposal descends from an older one of its lesson.
THEOREM LineageSafe == Spec => []LineageRooted
<1>1. LInv => LineageRooted
    BY DEF LInv, RowsFine, Descends, Above, LineageRooted
<1> QED BY <1>1, LessonInductive, PTL

\* A transition that is called after another has returned overrules it.
THEOREM OrderSafe == Spec => []LaterCallWins
<1>1. LInv => LaterCallWins
    BY DEF LInv, RowsFine, Descends, Above, LaterCallWins
<1> QED BY <1>1, LessonInductive, PTL

\* A retired version is never handed to a replay again.
THEOREM RetirementSafe == Spec => []RetirementSticks
<1>1. ASSUME LInv, NEW clock \in Time, NEW a \in Active(clock), NEW r \in rows,
             r.lesson = a.lesson, r.state = "RETIRED", a.seq \in r.after
      PROVE  FALSE
  <2>1. PICK l \in Lesson : a \in Latest(l)
    BY <1>1 DEF Active
  <2>2. a \in rows /\ r.seq <= a.seq
    BY <1>1, <2>1 DEF Latest, Of
  <2>3. a.seq < r.seq
    BY <1>1 DEF LInv, RowsFine, Above
  <2>4. a.seq \in Nat /\ r.seq \in Nat
    BY <1>1, <2>2 DEF LInv, RowsFine, Row, Draft
  <2> QED BY <2>2, <2>3, <2>4
<1>2. LInv => RetirementSticks
    BY <1>1 DEF RetirementSticks
<1> QED BY <1>2, LessonInductive, PTL
================================================================================
