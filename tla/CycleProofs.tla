------------------------------ MODULE CycleProofs ------------------------------
(***************************************************************************)
(* What holds of the orchestrator's cycles for any threads, cycles, clock, *)
(* drift tolerance and faults.                                             *)
(***************************************************************************)
EXTENDS DecisionCycle, TLAPS

Inside == {"cycle", "audit", "error"}

Judged == {"lock", "cycle", "audit"}

Last == ledger[Len(ledger)]

\* The threads and the lock.
ThreadsFine ==
    /\ pc \in [Thread -> PcValue]
    /\ lock \in Thread \cup {NoThread}
    /\ \A t \in Thread : pc[t] \in Inside <=> lock = t
    /\ job \in [{t \in Thread : pc[t] # "idle"} -> [cycle : Cycle, now : Time]]
    /\ \A t, u \in DOMAIN job : job[t].cycle = job[u].cycle => t = u

\* A call under way: its cycle is running, it has a verdict when the gate has run and only
\* then, and between the two appends its record is the last line.
CallFine(t) ==
    /\ job[t].now <= wall + Drift
    /\ Mine(t) \in DOMAIN cycles
    /\ Known(t).status = "running"
    /\ pc[t] \notin Judged => Known(t).verdict = "none"
    /\ pc[t] \in Judged => Known(t).verdict \in Verdicts(Known(t).blocked)
    /\ pc[t] = "audit" =>
         /\ ledger # << >>
         /\ Last.kind = "cycle" /\ Last.of = Mine(t) /\ Last.status = Known(t).verdict

\* The lines, the clock and the watermark.
LedgerFine ==
    /\ wall \in 1..MaxTime
    /\ ledger \in Seq(LedgerLine)
    /\ \A i \in 1..Len(ledger) : ledger[i].of \in DOMAIN cycles /\ ledger[i].ts <= wall + Drift
    /\ seen \in Time \cup {0} /\ seen <= wall + Drift
    /\ AuditFollowsCycle

\* How a cycle stands to the ledger.
CycleFine(c) ==
    /\ cycles[c].status = "ENTER_CANDIDATE" =>
         \E i \in 1..Len(ledger) : PairAt(i, c, "ENTER_CANDIDATE")
    /\ cycles[c].status # "running" =>
         /\ Rank(cycles[c].status) <= Rank(cycles[c].verdict)
         /\ cycles[c].blocked => Rank(cycles[c].status) = 0
    /\ cycles[c].status = "ORCHESTRATOR_ERROR" /\ cycles[c].linked =>
         \E i \in 1..Len(ledger) :
             ledger[i].of = c /\ ledger[i].marked /\ ledger[i].status = "BLOCK"
    /\ \A i \in 1..Len(ledger) : ledger[i].of = c /\ ledger[i].marked =>
         cycles[c].status \in {"ORCHESTRATOR_ERROR", "lost"} /\ cycles[c].verdict = "none"

\* The inductive invariant.
CInv ==
    /\ ThreadsFine
    /\ LedgerFine
    /\ cycles \in [DOMAIN cycles -> Progress] /\ DOMAIN cycles \subseteq Cycle
    /\ \A t \in DOMAIN job : CallFine(t)
    /\ \A c \in DOMAIN cycles : CycleFine(c)

-----------------------------------------------------------------------------
LEMMA Numbers == MaxTime \in Nat /\ Drift \in Nat /\ MaxTime + Drift \in Nat
BY CycleAssumption

\* Appending to the ledger leaves the earlier lines where they are.
LEMMA Grown ==
    ASSUME ledger \in Seq(LedgerLine), NEW line \in LedgerLine, ledger' = Append(ledger, line)
    PROVE  /\ ledger' \in Seq(LedgerLine) /\ ledger' # << >>
           /\ Len(ledger) \in Nat /\ Len(ledger') = Len(ledger) + 1
           /\ \A i \in 1..Len(ledger) : ledger'[i] = ledger[i]
           /\ ledger'[Len(ledger')] = line
OBVIOUS

\* A pair stays a pair.
LEMMA PairStays ==
    ASSUME ledger \in Seq(LedgerLine), NEW line \in LedgerLine,
           ledger' = ledger \/ ledger' = Append(ledger, line),
           NEW i \in 1..Len(ledger), NEW c, NEW status, PairAt(i, c, status)
    PROVE  i \in 1..Len(ledger') /\ PairAt(i, c, status)'
<1>1. CASE ledger' = ledger
    BY <1>1 DEF PairAt
<1>2. CASE ledger' = Append(ledger, line)
    BY <1>2, Grown DEF PairAt
<1> QED BY <1>1, <1>2

\* A new audit record directly after its cycle record keeps the pairing.
LEMMA AuditStays ==
    ASSUME ledger \in Seq(LedgerLine), NEW line \in LedgerLine,
           ledger' = ledger \/ ledger' = Append(ledger, line), AuditFollowsCycle,
           line.kind = "audit" =>
               ledger # << >> /\ Last.kind = "cycle" /\ Last.of = line.of /\ Last.status = line.status
    PROVE  AuditFollowsCycle'
<1>1. CASE ledger' = ledger
    BY <1>1 DEF AuditFollowsCycle, PairAt
<1>2. CASE ledger' = Append(ledger, line)
  <2>1. SUFFICES ASSUME NEW i \in 1..Len(ledger'), ledger'[i].kind = "audit"
                 PROVE  i > 1 /\ PairAt(i - 1, ledger[i].of, ledger[i].status)'
      BY DEF AuditFollowsCycle
  <2>2. CASE i \in 1..Len(ledger)
    <3>1. ledger[i].kind = "audit" /\ ledger'[i] = ledger[i]
        BY <1>2, <2>1, <2>2, Grown
    <3>2. PICK of, status : of = ledger[i].of /\ status = ledger[i].status
        OBVIOUS
    <3>3. i > 1 /\ i - 1 \in 1..Len(ledger) /\ PairAt(i - 1, of, status)
        BY <2>2, <3>1, <3>2 DEF AuditFollowsCycle
    <3>4. PairAt(i - 1, of, status)'
        BY <1>2, <3>3, PairStays
    <3> QED BY <3>1, <3>2, <3>3, <3>4 DEF PairAt
  <2>3. CASE i = Len(ledger')
    <3>1. ledger'[i] = line /\ i = Len(ledger) + 1 /\ line.kind = "audit"
        BY <1>2, <2>1, <2>3, Grown
    <3>2. Len(ledger) \in Nat \ {0}
        BY <3>1
    <3>3. ledger'[i - 1] = Last
        BY <1>2, <3>1, <3>2, Grown DEF Last
    <3> QED BY <2>1, <3>1, <3>2, <3>3 DEF PairAt
  <2> QED BY <1>2, <2>1, <2>2, <2>3, Grown
<1> QED BY <1>1, <1>2

\* What a step does for its own cycle is nothing to the others.
LEMMA OtherCycle ==
    ASSUME ledger \in Seq(LedgerLine), NEW line \in LedgerLine,
           ledger' = ledger \/ ledger' = Append(ledger, line),
           NEW c \in DOMAIN cycles, CycleFine(c), line.of # c \/ ledger' = ledger,
           cycles'[c] = cycles[c]
    PROVE  CycleFine(c)'
<1>1. \A i \in 1..Len(ledger) : i \in 1..Len(ledger') /\ ledger'[i] = ledger[i]
    BY Grown
<1>2. \A i \in 1..Len(ledger') : i \in 1..Len(ledger) \/ ledger'[i].of # c
    BY Grown
<1>3. ASSUME cycles[c].status = "ENTER_CANDIDATE"
      PROVE  \E i \in 1..Len(ledger') : PairAt(i, c, "ENTER_CANDIDATE")'
  <2>1. PICK i \in 1..Len(ledger) : PairAt(i, c, "ENTER_CANDIDATE")
      BY <1>3 DEF CycleFine
  <2> QED BY <2>1, PairStays
<1>4. ASSUME cycles[c].status = "ORCHESTRATOR_ERROR", cycles[c].linked
      PROVE  \E i \in 1..Len(ledger') :
                 ledger'[i].of = c /\ ledger'[i].marked /\ ledger'[i].status = "BLOCK"
    BY <1>1, <1>4 DEF CycleFine
<1>5. \A i \in 1..Len(ledger') : ledger'[i].of = c /\ ledger'[i].marked =>
          cycles[c].status \in {"ORCHESTRATOR_ERROR", "lost"} /\ cycles[c].verdict = "none"
    BY <1>1, <1>2 DEF CycleFine
<1>6. cycles[c].status # "running" =>
          /\ Rank(cycles[c].status) <= Rank(cycles[c].verdict)
          /\ cycles[c].blocked => Rank(cycles[c].status) = 0
    BY DEF CycleFine
<1> QED BY <1>3, <1>4, <1>5, <1>6 DEF CycleFine

\* A step of thread t for its cycle c, which learns p and may append a line.
LEMMA ThreadStep ==
    ASSUME CInv, ThreadsFine', NEW t \in DOMAIN job, NEW c, c = Mine(t),
           NEW p \in Progress, cycles' = [cycles EXCEPT ![c] = p], wall' = wall,
           NEW line \in LedgerLine, line.of = c, line.ts = job[t].now,
           ledger' = ledger \/ (ledger' = Append(ledger, line) /\ pc[t] \in Inside),
           line.kind = "audit" => pc[t] = "audit" /\ line.status = Known(t).verdict,
           seen' \in Time \cup {0}, seen' <= wall + Drift,
           \A u \in Thread : u # t => pc'[u] = pc[u],
           \A u \in DOMAIN job' : u \in DOMAIN job /\ job'[u] = job[u],
           t \in DOMAIN job' => CallFine(t)',
           CycleFine(c)'
    PROVE  CInv'
<1>1. c \in DOMAIN cycles /\ DOMAIN cycles' = DOMAIN cycles
    BY DEF CInv, CallFine
<1>2. cycles' \in [DOMAIN cycles' -> Progress] /\ DOMAIN cycles' \subseteq Cycle
    BY <1>1 DEF CInv
<1>3. ledger \in Seq(LedgerLine)
    BY DEF CInv, LedgerFine
<1>4. ASSUME NEW d \in DOMAIN cycles' PROVE CycleFine(d)'
  <2>1. CASE d = c
      BY <2>1
  <2>2. CASE d # c
      BY <1>1, <1>3, <1>4, <2>2, OtherCycle DEF CInv
  <2> QED BY <2>1, <2>2
<1>5. ASSUME NEW u \in DOMAIN job' PROVE CallFine(u)'
  <2>1. CASE u = t
      BY <1>5, <2>1
  <2>2. CASE u # t
    <3>1. /\ u \in DOMAIN job /\ u \in Thread /\ t \in Thread
          /\ job'[u] = job[u] /\ pc'[u] = pc[u] /\ Mine(u) # c
        BY <2>2 DEF CInv, ThreadsFine, Mine
    <3>2. cycles'[job[u].cycle] = cycles[job[u].cycle]
        BY <1>1, <3>1 DEF Mine, CInv, CallFine
    <3>3. CallFine(u)
        BY <3>1 DEF CInv
    <3>4. pc[u] = "audit" => ledger' = ledger
        BY <2>2, <3>1 DEF CInv, ThreadsFine, Inside
    <3> QED BY <1>1, <3>1, <3>2, <3>3, <3>4 DEF CallFine, Mine, Known, Last
  <2> QED BY <2>1, <2>2
<1>6. LedgerFine'
  <2>1. line.kind = "audit" =>
            ledger # << >> /\ Last.kind = "cycle" /\ Last.of = line.of /\ Last.status = line.status
      BY DEF CInv, CallFine
  <2>2. AuditFollowsCycle'
      BY <1>3, <2>1, AuditStays DEF CInv, LedgerFine
  <2>3. ledger' \in Seq(LedgerLine)
      BY <1>3, Grown
  <2>4. line.of \in DOMAIN cycles /\ line.ts <= wall + Drift
      BY <1>1 DEF CInv, CallFine
  <2>5. \A i \in 1..Len(ledger') : ledger'[i].of \in DOMAIN cycles /\ ledger'[i].ts <= wall + Drift
    <3>1. CASE ledger' = ledger
        BY <3>1 DEF CInv, LedgerFine
    <3>2. CASE ledger' = Append(ledger, line)
        BY <1>3, <2>4, <3>2, Grown DEF CInv, LedgerFine
    <3> QED BY <3>1, <3>2
  <2> QED BY <1>1, <2>2, <2>3, <2>5 DEF CInv, LedgerFine
<1> QED BY <1>2, <1>4, <1>5, <1>6 DEF CInv

\* A step of a call that goes on.
LEMMA Moving ==
    ASSUME ThreadsFine, NEW t \in DOMAIN job, NEW where \in PcValue \ {"idle"},
           Goto(t, where), UNCHANGED job,
           \/ lock' = lock /\ (where \in Inside <=> pc[t] \in Inside)
           \/ lock = NoThread /\ lock' = t /\ where \in Inside
    PROVE  ThreadsFine'
<1>1. t \in Thread /\ pc[t] # "idle" /\ NoThread \notin Thread
    BY CycleAssumption DEF ThreadsFine
<1>2. /\ pc' \in [Thread -> PcValue] /\ pc'[t] = where
      /\ \A u \in Thread : u # t => pc'[u] = pc[u]
    BY <1>1 DEF Goto, ThreadsFine
<1>3. {u \in Thread : pc'[u] # "idle"} = {u \in Thread : pc[u] # "idle"}
    BY <1>1, <1>2
<1>4. \A u \in Thread : pc'[u] \in Inside <=> lock' = u
    BY <1>1, <1>2 DEF ThreadsFine
<1> QED BY <1>1, <1>2, <1>3, <1>4 DEF ThreadsFine

\* The step with which a call ends.
LEMMA Leaving ==
    ASSUME ThreadsFine, NEW t \in DOMAIN job, Goto(t, "idle"), job' = Without(job, t),
           \/ lock' = lock /\ pc[t] \notin Inside
           \/ lock' = NoThread /\ pc[t] \in Inside
    PROVE  ThreadsFine' /\ t \notin DOMAIN job' /\ \A u \in DOMAIN job' : u \in DOMAIN job /\ job'[u] = job[u]
<1>1. t \in Thread /\ pc[t] # "idle" /\ NoThread \notin Thread
    BY CycleAssumption DEF ThreadsFine
<1>2. /\ pc' \in [Thread -> PcValue] /\ pc'[t] = "idle"
      /\ \A u \in Thread : u # t => pc'[u] = pc[u]
    BY <1>1 DEF Goto, ThreadsFine, PcValue
<1>3. {u \in Thread : pc'[u] # "idle"} = DOMAIN job \ {t}
    BY <1>1, <1>2 DEF ThreadsFine
<1>4. \A u \in Thread : pc'[u] \in Inside <=> lock' = u
    BY <1>1, <1>2 DEF ThreadsFine, Inside
<1>5. /\ job' \in [DOMAIN job \ {t} -> [cycle : Cycle, now : Time]]
      /\ \A u \in DOMAIN job' : u \in DOMAIN job /\ job'[u] = job[u]
    BY <1>1 DEF ThreadsFine, Without
<1>6. lock' \in Thread \cup {NoThread}
    BY DEF ThreadsFine
<1> QED BY <1>2, <1>3, <1>4, <1>5, <1>6 DEF ThreadsFine

\* What is known of a thread with a call under way.
LEMMA Busy ==
    ASSUME CInv, NEW t \in Thread, pc[t] # "idle"
    PROVE  /\ t \in DOMAIN job /\ CallFine(t) /\ job[t] \in [cycle : Cycle, now : Time]
           /\ Mine(t) \in DOMAIN cycles /\ Known(t) \in Progress /\ CycleFine(Mine(t))
BY DEF CInv, ThreadsFine, CallFine, Mine, Known

\* The line that would be appended, whether it is or not.
LEMMA AnyLine ==
    ASSUME CInv, NEW t \in Thread, pc[t] # "idle", NEW kind \in {"cycle", "audit"},
           NEW status \in Verdict, NEW marked \in BOOLEAN
    PROVE  LET line == LineFor(t, kind, status, marked)
           IN  /\ line \in LedgerLine /\ line.of = Mine(t) /\ line.ts = job[t].now
               /\ line.kind = kind /\ line.status = status /\ line.marked = marked
<1>1. Mine(t) \in Cycle /\ job[t].now \in Time
    BY Busy DEF Mine
<1> QED BY <1>1 DEF LineFor, LedgerLine

\* The calls before the notebook is asked: nothing is appended.
LEMMA Quiet ==
    ASSUME CInv, NEW t \in Thread, pc[t] \notin {"idle"}, NEW p \in Progress, Learn(t, p),
           p.status = "running" \/ Rank(p.status) = 0,
           p.status \notin {"ENTER_CANDIDATE", "ORCHESTRATOR_ERROR"},
           UNCHANGED <<wall, ledger, seen>>,
           ThreadsFine', \A u \in Thread : u # t => pc'[u] = pc[u],
           \A u \in DOMAIN job' : u \in DOMAIN job /\ job'[u] = job[u],
           t \in DOMAIN job' =>
             /\ pc'[t] # "audit" /\ p.status = "running"
             /\ pc'[t] \notin Judged => p.verdict = "none"
             /\ pc'[t] \in Judged => p.verdict \in Verdicts(p.blocked)
    PROVE  CInv'
<1>1. PICK c, line : c = Mine(t) /\ line = LineFor(t, "cycle", "BLOCK", FALSE)
    OBVIOUS
<1>2. /\ t \in DOMAIN job /\ CallFine(t) /\ c \in DOMAIN cycles /\ CycleFine(c)
    BY <1>1, Busy
<1>3. line \in LedgerLine /\ line.of = c /\ line.ts = job[t].now /\ line.kind = "cycle"
    BY <1>1, AnyLine DEF Verdict
<1>4. cycles' = [cycles EXCEPT ![c] = p] /\ cycles'[c] = p
    BY <1>1, <1>2 DEF Learn
<1>5. \A i \in 1..Len(ledger) : ~(ledger[i].of = c /\ ledger[i].marked)
    BY <1>1, <1>2 DEF CycleFine, CallFine, Known
<1>6. Rank(p.verdict) \in {0, 1, 2}
    BY DEF Rank
<1>7. CycleFine(c)'
    BY <1>4, <1>5, <1>6 DEF CycleFine
<1>8. t \in DOMAIN job' => CallFine(t)'
    BY <1>1, <1>2, <1>4 DEF CallFine, Mine, Known
<1>9. seen' \in Time \cup {0} /\ seen' <= wall + Drift
    BY DEF CInv, LedgerFine
<1> QED BY <1>1, <1>2, <1>3, <1>4, <1>7, <1>8, <1>9, ThreadStep

LEMMA BrainKeeps ==
    ASSUME CInv, NEW t \in Thread, NEW blocks \in BOOLEAN, Brain(t, blocks)
    PROVE  CInv'
<1>1. PICK p : p = [Known(t) EXCEPT !.blocked = @ \/ blocks]
    OBVIOUS
<1>2. PICK where : where = NextBrain[pc[t]]
    OBVIOUS
<1>3. pc[t] \in {"news", "market", "chart"} /\ where \in {"market", "chart", "gate"}
    BY <1>2 DEF Brain, NextBrain
<1>4. t \in DOMAIN job /\ CallFine(t) /\ Known(t) \in Progress
    BY <1>3, Busy
<1>5. p \in Progress /\ p.status = "running" /\ p.verdict = "none"
    BY <1>1, <1>3, <1>4 DEF Progress, CallFine, Judged
<1>6. Goto(t, where) /\ Learn(t, p) /\ UNCHANGED <<wall, ledger, seen, lock, job>>
    BY <1>1, <1>2 DEF Brain, notebook
<1>7. ThreadsFine'
    BY <1>3, <1>4, <1>6, Moving DEF CInv, PcValue, Inside
<1>8. pc'[t] = where /\ \A u \in Thread : u # t => pc'[u] = pc[u]
    BY <1>6 DEF Goto, CInv, ThreadsFine
<1> QED BY <1>3, <1>5, <1>6, <1>7, <1>8, Quiet DEF Judged

LEMMA GateKeeps ==
    ASSUME CInv, NEW t \in Thread, Gate(t)
    PROVE  CInv'
<1>1. PICK v \in Verdicts(Known(t).blocked) : Learn(t, [Known(t) EXCEPT !.verdict = v])
    BY DEF Gate
<1>2. PICK p : p = [Known(t) EXCEPT !.verdict = v]
    OBVIOUS
<1>3. /\ pc[t] = "gate" /\ Goto(t, "lock") /\ UNCHANGED <<wall, ledger, seen, lock, job>>
    BY DEF Gate, notebook
<1>4. t \in DOMAIN job /\ CallFine(t) /\ Known(t) \in Progress
    BY <1>3, Busy
<1>5. v \in Verdict
    BY DEF Verdicts, Verdict
<1>6. p \in Progress /\ p.status = "running" /\ p.verdict \in Verdicts(p.blocked)
    BY <1>2, <1>4, <1>5 DEF Progress, CallFine
<1>7. ThreadsFine'
    BY <1>3, <1>4, Moving DEF CInv, PcValue, Inside
<1>8. pc'[t] = "lock" /\ \A u \in Thread : u # t => pc'[u] = pc[u]
    BY <1>3 DEF Goto, CInv, ThreadsFine
<1> QED BY <1>1, <1>2, <1>3, <1>6, <1>7, <1>8, Quiet DEF Judged

\* To raise, or to take the lock, is to learn nothing.
LEMMA NothingLearnt ==
    ASSUME CInv, NEW t \in Thread, pc[t] # "idle", UNCHANGED cycles
    PROVE  Learn(t, Known(t))
BY Busy DEF Learn, Known, CInv

LEMMA RaisesKeeps ==
    ASSUME CInv, NEW t \in Thread, Raises(t)
    PROVE  CInv'
<1>1. /\ pc[t] \in {"news", "market", "chart", "gate"} /\ Goto(t, "error_lock")
      /\ UNCHANGED <<wall, ledger, seen, lock, job, cycles>>
    BY DEF Raises, notebook, NextBrain
<1>2. t \in DOMAIN job /\ CallFine(t) /\ Known(t) \in Progress /\ Learn(t, Known(t))
    BY <1>1, Busy, NothingLearnt
<1>3. ThreadsFine'
    BY <1>1, <1>2, Moving DEF CInv, PcValue, Inside
<1>4. pc'[t] = "error_lock" /\ \A u \in Thread : u # t => pc'[u] = pc[u]
    BY <1>1 DEF Goto, CInv, ThreadsFine
<1>5. Known(t).status = "running" /\ Known(t).verdict = "none"
    BY <1>1, <1>2 DEF CallFine, Judged
<1> QED BY <1>1, <1>2, <1>3, <1>4, <1>5, Quiet DEF Judged

LEMMA WrongTypeKeeps ==
    ASSUME CInv, NEW t \in Thread, WrongType(t)
    PROVE  CInv'
<1>1. PICK p : p = [Known(t) EXCEPT !.status = "raised"]
    OBVIOUS
<1>2. /\ pc[t] \in {"news", "market", "chart", "gate"} /\ Goto(t, "idle")
      /\ job' = Without(job, t) /\ Learn(t, p) /\ UNCHANGED <<wall, ledger, seen, lock>>
    BY <1>1 DEF WrongType, notebook, NextBrain
<1>3. t \in DOMAIN job /\ Known(t) \in Progress
    BY <1>2, Busy
<1>4. p \in Progress /\ p.status = "raised" /\ Rank(p.status) = 0
    BY <1>1, <1>3 DEF Progress, Status, Rank
<1>5. /\ ThreadsFine' /\ t \notin DOMAIN job'
      /\ \A u \in DOMAIN job' : u \in DOMAIN job /\ job'[u] = job[u]
    BY <1>2, <1>3, Leaving DEF CInv, Inside
<1>6. \A u \in Thread : u # t => pc'[u] = pc[u]
    BY <1>2 DEF Goto, CInv, ThreadsFine
<1> QED BY <1>2, <1>4, <1>5, <1>6, Quiet

LEMMA AcquireKeeps ==
    ASSUME CInv, NEW t \in Thread, Acquire(t)
    PROVE  CInv'
<1>1. PICK where : where = IF pc[t] = "lock" THEN "cycle" ELSE "error"
    OBVIOUS
<1>2. /\ pc[t] \in {"lock", "error_lock"} /\ Goto(t, where) /\ lock = NoThread /\ lock' = t
      /\ UNCHANGED <<wall, ledger, seen, job, cycles>>
    BY <1>1 DEF Acquire
<1>3. t \in DOMAIN job /\ CallFine(t) /\ Known(t) \in Progress /\ Learn(t, Known(t))
    BY <1>2, Busy, NothingLearnt
<1>4. ThreadsFine'
    BY <1>1, <1>2, <1>3, Moving DEF CInv, PcValue, Inside
<1>5. pc'[t] = where /\ \A u \in Thread : u # t => pc'[u] = pc[u]
    BY <1>2 DEF Goto, CInv, ThreadsFine
<1>6. /\ Known(t).status = "running"
      /\ where \notin Judged => Known(t).verdict = "none"
      /\ where \in Judged => Known(t).verdict \in Verdicts(Known(t).blocked)
    BY <1>1, <1>2, <1>3 DEF CallFine, Judged
<1> QED BY <1>1, <1>2, <1>3, <1>4, <1>5, <1>6, Quiet

LEMMA LastSeenBound ==
    CInv => LastSeen \in Time \cup {0} /\ LastSeen <= wall + Drift
<1> SUFFICES ASSUME CInv PROVE LastSeen \in Time \cup {0} /\ LastSeen <= wall + Drift
    OBVIOUS
<1>1. CASE seen # 0 \/ ledger = << >>
    BY <1>1, Numbers DEF CInv, LedgerFine, LastSeen, Time
<1>2. CASE seen = 0 /\ ledger # << >>
  <2>1. Len(ledger) \in 1..Len(ledger) /\ ledger[Len(ledger)] \in LedgerLine
      BY <1>2 DEF CInv, LedgerFine
  <2> QED BY <1>2, <2>1 DEF CInv, LedgerFine, LastSeen, LedgerLine
<1> QED BY <1>1, <1>2

\* What an append does to the watermark, whether it returns or raises.
LEMMA Appending ==
    ASSUME CInv, NEW t \in Thread, pc[t] # "idle", NEW line \in LedgerLine,
           line.ts = job[t].now, Appended(line) \/ AppendRaises(line)
    PROVE  /\ seen' \in Time \cup {0} /\ seen' <= wall + Drift
           /\ ledger' = ledger \/ ledger' = Append(ledger, line)
<1>1. line.ts \in Time /\ line.ts <= wall + Drift
    BY Busy DEF CallFine
<1> QED BY <1>1, LastSeenBound DEF Appended, AppendRaises

LEMMA RecordCycleKeeps ==
    ASSUME CInv, NEW t \in Thread, RecordCycle(t)
    PROVE  CInv'
<1>1. PICK c, line : c = Mine(t) /\ line = LineFor(t, "cycle", Known(t).verdict, FALSE)
    OBVIOUS
<1>2. /\ pc[t] = "cycle" /\ Appended(line) /\ Goto(t, "audit")
      /\ UNCHANGED <<wall, lock, job, cycles>>
    BY <1>1 DEF RecordCycle
<1>3. /\ t \in DOMAIN job /\ CallFine(t) /\ c \in DOMAIN cycles /\ Known(t) \in Progress
      /\ CycleFine(c) /\ Learn(t, Known(t))
    BY <1>1, <1>2, Busy, NothingLearnt
<1>4. Known(t).verdict \in Verdict
    BY <1>2, <1>3 DEF CallFine, Judged, Verdicts, Verdict
<1>5. /\ line \in LedgerLine /\ line.of = c /\ line.ts = job[t].now /\ line.kind = "cycle"
      /\ line.status = Known(t).verdict /\ line.marked = FALSE
    BY <1>1, <1>2, <1>4, Busy DEF LineFor, LedgerLine, Mine
<1>6. /\ seen' \in Time \cup {0} /\ seen' <= wall + Drift /\ ledger' = Append(ledger, line)
    BY <1>2, <1>5, Appending DEF Appended
<1>7. ThreadsFine'
    BY <1>2, <1>3, Moving DEF CInv, PcValue, Inside
<1>8. pc'[t] = "audit" /\ \A u \in Thread : u # t => pc'[u] = pc[u]
    BY <1>2 DEF Goto, CInv, ThreadsFine
<1>9. ledger \in Seq(LedgerLine)
    BY DEF CInv, LedgerFine
<1>10. CallFine(t)'
    BY <1>1, <1>2, <1>3, <1>5, <1>6, <1>8, <1>9, Grown DEF CallFine, Judged, Mine, Known, Last
<1>11. CycleFine(c)'
  <2>1. cycles[c].status = "running"
      BY <1>1, <1>3 DEF CallFine, Known
  <2>2. \A i \in 1..Len(ledger) : ~(ledger[i].of = c /\ ledger[i].marked)
      BY <1>3, <2>1 DEF CycleFine
  <2>3. \A i \in 1..Len(ledger') : ~(ledger'[i].of = c /\ ledger'[i].marked)
      BY <1>5, <1>6, <1>9, <2>2, Grown
  <2> QED BY <1>2, <2>1, <2>3 DEF CycleFine
<1>12. cycles' = [cycles EXCEPT ![c] = Known(t)]
    BY <1>1, <1>3 DEF Learn
<1> QED BY <1>1, <1>2, <1>3, <1>5, <1>6, <1>7, <1>8, <1>10, <1>11, <1>12, ThreadStep DEF Inside

\* A cycle ends inside the lock: what is answered, and what must be on record for it.
LEMMA Returning ==
    ASSUME CInv, NEW t \in Thread, pc[t] \in Inside,
           NEW status \in {"ENTER_CANDIDATE", "WAIT", "BLOCK", "ORCHESTRATOR_ERROR"},
           NEW linked \in BOOLEAN, Return(t, status, linked),
           NEW line \in LedgerLine, line.of = Mine(t), line.ts = job[t].now,
           Appended(line) \/ AppendRaises(line),
           line.kind = "audit" => pc[t] = "audit" /\ line.status = Known(t).verdict,
           status \in {"BLOCK", "ORCHESTRATOR_ERROR", Known(t).verdict},
           line.marked => status = "ORCHESTRATOR_ERROR" /\ pc[t] = "error",
           status = "ENTER_CANDIDATE" => pc[t] = "audit" /\ line.kind = "audit" /\ Appended(line),
           status = "ORCHESTRATOR_ERROR" /\ linked =>
               Appended(line) /\ line.marked /\ line.status = "BLOCK"
    PROVE  CInv'
<1>1. PICK c, p : c = Mine(t) /\ p = [Known(t) EXCEPT !.status = status, !.linked = linked]
    OBVIOUS
<1>2. /\ t \in DOMAIN job /\ CallFine(t) /\ c \in DOMAIN cycles /\ Known(t) \in Progress
      /\ CycleFine(c) /\ pc[t] # "idle"
    BY <1>1, Busy DEF Inside
<1>3. /\ cycles' = [cycles EXCEPT ![c] = p] /\ lock' = NoThread /\ job' = Without(job, t)
      /\ Goto(t, "idle") /\ wall' = wall
    BY <1>1 DEF Return, Learn
<1>4. /\ p \in Progress /\ p.status = status /\ p.linked = linked
      /\ p.verdict = Known(t).verdict /\ p.blocked = Known(t).blocked
    BY <1>1, <1>2 DEF Progress, Status, Verdict
<1>5. /\ seen' \in Time \cup {0} /\ seen' <= wall + Drift
      /\ ledger' = ledger \/ ledger' = Append(ledger, line)
    BY <1>2, Appending
<1>6. /\ ThreadsFine' /\ t \notin DOMAIN job'
      /\ \A u \in DOMAIN job' : u \in DOMAIN job /\ job'[u] = job[u]
    BY <1>2, <1>3, Leaving DEF CInv
<1>7. \A u \in Thread : u # t => pc'[u] = pc[u]
    BY <1>3 DEF Goto, CInv, ThreadsFine
<1>8. ledger \in Seq(LedgerLine) /\ cycles'[c] = p
    BY <1>2, <1>3 DEF CInv, LedgerFine
<1>9. Appended(line) => ledger' = Append(ledger, line)
    BY DEF Appended
<1>10. CycleFine(c)'
  <2>1. ASSUME status = "ENTER_CANDIDATE"
        PROVE  \E i \in 1..Len(ledger') : PairAt(i, c, "ENTER_CANDIDATE")'
    <3>1. /\ pc[t] = "audit" /\ ledger' = Append(ledger, line) /\ line.kind = "audit"
          /\ line.status = Known(t).verdict
        BY <1>9, <2>1
    <3>2. Known(t).verdict = "ENTER_CANDIDATE"
        BY <2>1
    <3>3. /\ ledger # << >> /\ Last.kind = "cycle" /\ Last.of = c
          /\ Last.status = "ENTER_CANDIDATE"
        BY <1>1, <1>2, <3>1, <3>2 DEF CallFine
    <3>4. Len(ledger) \in 1..Len(ledger') /\ Len(ledger') = Len(ledger) + 1
          /\ ledger'[Len(ledger)] = Last /\ ledger'[Len(ledger) + 1] = line
        BY <1>8, <3>1, <3>3, Grown DEF Last
    <3>5. PICK n : n = Len(ledger)
        OBVIOUS
    <3>6. PairAt(n, c, "ENTER_CANDIDATE")'
        BY <1>1, <3>1, <3>2, <3>3, <3>4, <3>5 DEF PairAt
    <3> QED BY <3>4, <3>5, <3>6
  <2>2. /\ Rank(status) <= Rank(p.verdict)
        /\ p.blocked => Rank(status) = 0
    <3>1. CASE status \in {"BLOCK", "ORCHESTRATOR_ERROR"}
        BY <3>1 DEF Rank
    <3>2. CASE status = Known(t).verdict /\ status \in {"ENTER_CANDIDATE", "WAIT"}
      <4>1. pc[t] \in Judged
          BY <1>2, <3>2 DEF CallFine
      <4>2. ~p.blocked
          BY <1>2, <1>4, <3>2, <4>1 DEF CallFine, Verdicts
      <4> QED BY <1>4, <3>2, <4>2 DEF Rank
    <3> QED BY <3>1, <3>2
  <2>3. ASSUME status = "ORCHESTRATOR_ERROR", linked
        PROVE  \E i \in 1..Len(ledger') :
                   ledger'[i].of = c /\ ledger'[i].marked /\ ledger'[i].status = "BLOCK"
    <3>1. /\ ledger' = Append(ledger, line) /\ line.marked /\ line.status = "BLOCK"
        BY <1>9, <2>3
    <3>2. Len(ledger') \in 1..Len(ledger') /\ ledger'[Len(ledger')] = line
        BY <1>8, <3>1, Grown
    <3> QED BY <1>1, <3>1, <3>2
  <2>4. ASSUME NEW i \in 1..Len(ledger'), ledger'[i].of = c, ledger'[i].marked
        PROVE  status \in {"ORCHESTRATOR_ERROR", "lost"} /\ p.verdict = "none"
    <3>1. \A j \in 1..Len(ledger) : ~(ledger[j].of = c /\ ledger[j].marked)
        BY <1>1, <1>2 DEF CycleFine, CallFine, Known
    <3>2. i = Len(ledger') /\ ledger' = Append(ledger, line)
        BY <1>5, <1>8, <2>4, <3>1, Grown
    <3>3. line.marked
        BY <1>8, <2>4, <3>2, Grown
    <3> QED BY <1>2, <1>4, <3>3 DEF CallFine, Judged
  <2> QED BY <1>4, <1>8, <2>1, <2>2, <2>3, <2>4 DEF CycleFine
<1> QED BY <1>1, <1>2, <1>3, <1>4, <1>5, <1>6, <1>7, <1>10, ThreadStep

LEMMA RecordAuditKeeps ==
    ASSUME CInv, NEW t \in Thread, RecordAudit(t)
    PROVE  CInv'
<1>1. PICK line, status : line = LineFor(t, "audit", Known(t).verdict, FALSE) /\ status = Known(t).verdict
    OBVIOUS
<1>2. pc[t] = "audit" /\ Appended(line) /\ Return(t, status, TRUE)
    BY <1>1 DEF RecordAudit
<1>3. status \in Verdict
    BY <1>1, <1>2, Busy DEF CallFine, Judged, Verdicts, Verdict
<1>4. /\ line \in LedgerLine /\ line.of = Mine(t) /\ line.ts = job[t].now
      /\ line.kind = "audit" /\ line.status = Known(t).verdict /\ line.marked = FALSE
    BY <1>1, <1>2, <1>3, Busy DEF LineFor, LedgerLine, Mine, Inside
<1>5. TRUE \in BOOLEAN /\ pc[t] \in Inside
    BY <1>2 DEF Inside
<1> QED BY <1>1, <1>2, <1>3, <1>4, <1>5, Returning DEF Verdict

LEMMA RecordFailsKeeps ==
    ASSUME CInv, NEW t \in Thread, RecordFails(t)
    PROVE  CInv'
<1>1. PICK kind \in {"cycle", "audit"} :
          pc[t] = kind /\ AppendRaises(LineFor(t, kind, Known(t).verdict, FALSE))
    BY DEF RecordFails
<1>2. PICK line : line = LineFor(t, kind, Known(t).verdict, FALSE)
    OBVIOUS
<1>3. Known(t).verdict \in Verdict /\ pc[t] \in Inside
    BY <1>1, Busy DEF CallFine, Judged, Verdicts, Verdict, Inside
<1>4. /\ line \in LedgerLine /\ line.of = Mine(t) /\ line.ts = job[t].now
      /\ line.kind = kind /\ line.status = Known(t).verdict /\ line.marked = FALSE
    BY <1>1, <1>2, <1>3, Busy DEF LineFor, LedgerLine, Mine, Inside
<1>5. Return(t, "BLOCK", FALSE) /\ FALSE \in BOOLEAN
    BY DEF RecordFails
<1> QED BY <1>1, <1>2, <1>3, <1>4, <1>5, Returning

LEMMA RecordErrorKeeps ==
    ASSUME CInv, NEW t \in Thread, RecordError(t) \/ RecordErrorFails(t)
    PROVE  CInv'
<1>1. PICK line : line = LineFor(t, "cycle", "BLOCK", TRUE)
    OBVIOUS
<1>2. pc[t] = "error" /\ pc[t] \in Inside
    BY DEF RecordError, RecordErrorFails, Inside
<1>3. /\ line \in LedgerLine /\ line.of = Mine(t) /\ line.ts = job[t].now
      /\ line.kind = "cycle" /\ line.status = "BLOCK" /\ line.marked = TRUE
    BY <1>1, <1>2, AnyLine DEF Verdict
<1>4. CASE RecordError(t)
  <2>1. Appended(line) /\ Return(t, "ORCHESTRATOR_ERROR", TRUE) /\ TRUE \in BOOLEAN
      BY <1>1, <1>4 DEF RecordError
  <2> QED BY <1>2, <1>3, <2>1, Returning
<1>5. CASE RecordErrorFails(t)
  <2>1. AppendRaises(line) /\ Return(t, "ORCHESTRATOR_ERROR", FALSE) /\ FALSE \in BOOLEAN
      BY <1>1, <1>5 DEF RecordErrorFails
  <2> QED BY <1>2, <1>3, <2>1, Returning
<1> QED BY <1>4, <1>5

\* A step that leaves the ledger alone and knows at least the same cycles keeps what is true
\* of the ones it does not touch.
LEMMA SameLedger ==
    ASSUME NEW c, CycleFine(c), UNCHANGED ledger, cycles'[c] = cycles[c]
    PROVE  CycleFine(c)'
BY DEF CycleFine, PairAt

LEMMA BeginKeeps ==
    ASSUME CInv, NEW t \in Thread, NEW c \in Cycle, NEW now \in Time, Begin(t, c, now)
    PROVE  CInv'
<1>1. /\ pc[t] = "idle" /\ c \notin DOMAIN cycles /\ now <= wall + Drift
      /\ job' = Put(job, t, [cycle |-> c, now |-> now]) /\ cycles' = Put(cycles, c, Started)
      /\ Goto(t, "news") /\ UNCHANGED <<wall, ledger, seen, lock>>
    BY DEF Begin, Valid, notebook
<1>2. /\ pc' \in [Thread -> PcValue] /\ pc'[t] = "news"
      /\ \A u \in Thread : u # t => pc'[u] = pc[u]
    BY <1>1 DEF Goto, CInv, ThreadsFine, PcValue
<1>3. /\ t \notin DOMAIN job /\ DOMAIN job' = DOMAIN job \cup {t}
      /\ job'[t] = [cycle |-> c, now |-> now] /\ \A u \in DOMAIN job : job'[u] = job[u]
      /\ job' \in [DOMAIN job \cup {t} -> [cycle : Cycle, now : Time]]
    BY <1>1 DEF CInv, ThreadsFine, Put
<1>4. {u \in Thread : pc'[u] # "idle"} = DOMAIN job \cup {t}
    BY <1>1, <1>2 DEF CInv, ThreadsFine
<1>5. Started \in Progress
    BY DEF Started, Progress, Status
<1>6. /\ DOMAIN cycles' = DOMAIN cycles \cup {c} /\ cycles'[c] = Started
      /\ \A d \in DOMAIN cycles : cycles'[d] = cycles[d]
      /\ cycles' \in [DOMAIN cycles' -> Progress] /\ DOMAIN cycles' \subseteq Cycle
    BY <1>1, <1>5 DEF Put, CInv
<1>7. ThreadsFine'
  <2>1. \A u, v \in DOMAIN job' : job'[u].cycle = job'[v].cycle => u = v
      BY <1>1, <1>3 DEF CInv, ThreadsFine, CallFine, Mine
  <2>2. \A u \in Thread : pc'[u] \in Inside <=> lock' = u
      BY <1>1, <1>2 DEF CInv, ThreadsFine, Inside
  <2> QED BY <1>1, <1>2, <1>3, <1>4, <2>1, <2>2 DEF CInv, ThreadsFine
<1>8. ASSUME NEW u \in DOMAIN job' PROVE CallFine(u)'
  <2>1. CASE u = t
      BY <1>1, <1>2, <1>3, <1>6, <2>1 DEF CallFine, Mine, Known, Started, Judged
  <2>2. CASE u # t
    <3>1. u \in DOMAIN job /\ u \in Thread /\ CallFine(u) /\ pc'[u] = pc[u] /\ job'[u] = job[u]
        BY <1>2, <1>3, <2>2 DEF CInv, ThreadsFine
    <3>2. job[u].cycle \in DOMAIN cycles /\ cycles'[job[u].cycle] = cycles[job[u].cycle]
        BY <1>6, <3>1 DEF CallFine, Mine
    <3> QED BY <1>1, <1>6, <3>1, <3>2 DEF CallFine, Mine, Known, Last
  <2> QED BY <2>1, <2>2
<1>9. ASSUME NEW d \in DOMAIN cycles' PROVE CycleFine(d)'
  <2>1. CASE d = c
    <3>1. \A i \in 1..Len(ledger) : ledger[i].of # c
        BY <1>1 DEF CInv, LedgerFine
    <3> QED BY <1>1, <1>6, <2>1, <3>1 DEF CycleFine, Started
  <2>2. CASE d # c
      BY <1>1, <1>6, <1>9, <2>2, SameLedger DEF CInv
  <2> QED BY <2>1, <2>2
<1>10. LedgerFine'
    BY <1>1, <1>6 DEF CInv, LedgerFine, AuditFollowsCycle, PairAt
<1> QED BY <1>6, <1>7, <1>8, <1>9, <1>10 DEF CInv

LEMMA TickKeeps == CInv /\ Tick => CInv'
<1> SUFFICES ASSUME CInv, Tick PROVE CInv'
    OBVIOUS
<1>1. wall \in Nat /\ wall' = wall + 1 /\ wall' \in 1..MaxTime
      /\ UNCHANGED <<ledger, seen, lock, pc, job, cycles>>
    BY Numbers DEF Tick, notebook, CInv, LedgerFine
<1>2. \A n \in Nat : n <= wall + Drift => n <= wall' + Drift
    BY <1>1, Numbers
<1>3. ThreadsFine'
    BY <1>1 DEF CInv, ThreadsFine
<1>4. \A n \in Time : n \in Nat
    BY Numbers DEF Time
<1>5. LedgerFine'
  <2>1. \A i \in 1..Len(ledger) : ledger[i].ts \in Nat
    <3>1. \A i \in 1..Len(ledger) : ledger[i] \in LedgerLine
        BY DEF CInv, LedgerFine
    <3>2. \A line \in LedgerLine : line.ts \in Time
        BY DEF LedgerLine
    <3> QED BY <1>4, <3>1, <3>2
  <2>2. seen \in Nat
      BY <1>4 DEF CInv, LedgerFine
  <2> QED BY <1>1, <1>2, <2>1, <2>2 DEF CInv, LedgerFine, AuditFollowsCycle, PairAt
<1>6. ASSUME NEW t \in DOMAIN job' PROVE CallFine(t)'
  <2>1. t \in DOMAIN job /\ CallFine(t) /\ job[t].now \in Nat
      BY <1>1, <1>4 DEF CInv, ThreadsFine
  <2> QED BY <1>1, <1>2, <2>1 DEF CallFine, Mine, Known, Last
<1>7. \A c \in DOMAIN cycles' : CycleFine(c)'
    BY <1>1, SameLedger DEF CInv
<1> QED BY <1>1, <1>3, <1>5, <1>6, <1>7 DEF CInv

LEMMA CrashKeeps == CInv /\ Crash => CInv'
<1> SUFFICES ASSUME CInv, Crash PROVE CInv'
    OBVIOUS
<1>1. /\ seen' = 0 /\ lock' = NoThread /\ pc' = [t \in Thread |-> "idle"] /\ job' = << >>
      /\ UNCHANGED <<wall, ledger>>
    BY DEF Crash
<1>2. /\ DOMAIN cycles' = DOMAIN cycles
      /\ \A c \in DOMAIN cycles :
            cycles'[c] = IF cycles[c].status = "running"
                         THEN [cycles[c] EXCEPT !.status = "lost"] ELSE cycles[c]
      /\ cycles' = [c \in DOMAIN cycles |-> cycles'[c]]
    BY DEF Crash
<1>3. \A c \in DOMAIN cycles : cycles'[c] \in Progress
    BY <1>2 DEF CInv, Progress, Status
<1>4. ThreadsFine'
  <2>1. {t \in Thread : pc'[t] # "idle"} = {} /\ NoThread \notin Thread
      BY <1>1, CycleAssumption
  <2> QED BY <1>1, <2>1 DEF ThreadsFine, PcValue, Inside
<1>5. ASSUME NEW c \in DOMAIN cycles PROVE CycleFine(c)'
  <2>1. CASE cycles[c].status # "running"
      BY <1>1, <1>2, <2>1, SameLedger DEF CInv
  <2>2. CASE cycles[c].status = "running"
    <3>1. cycles'[c].status = "lost"
        BY <1>2, <2>2 DEF CInv, Progress
    <3>2. \A i \in 1..Len(ledger) : ~(ledger[i].of = c /\ ledger[i].marked)
        BY <2>2 DEF CInv, CycleFine
    <3>3. Rank("lost") = 0 /\ Rank(cycles'[c].verdict) \in {0, 1, 2}
        BY DEF Rank
    <3> QED BY <1>1, <3>1, <3>2, <3>3 DEF CycleFine
  <2> QED BY <2>1, <2>2
<1>6. LedgerFine'
    BY <1>1, <1>2, Numbers DEF CInv, LedgerFine, AuditFollowsCycle, PairAt
<1>7. cycles' \in [DOMAIN cycles' -> Progress] /\ DOMAIN cycles' \subseteq Cycle
    BY <1>2, <1>3 DEF CInv
<1> QED BY <1>1, <1>2, <1>4, <1>5, <1>6, <1>7 DEF CInv

LEMMA CInvInit == Init => CInv
<1> SUFFICES ASSUME Init PROVE CInv
    OBVIOUS
<1>1. NoThread \notin Thread /\ {t \in Thread : pc[t] # "idle"} = {}
    BY CycleAssumption DEF Init
<1>2. ThreadsFine
    BY <1>1 DEF Init, ThreadsFine, PcValue, Inside
<1>3. LedgerFine
    BY Numbers, CycleAssumption DEF Init, LedgerFine, AuditFollowsCycle
<1> QED BY <1>2, <1>3 DEF Init, CInv

LEMMA CInvNext == CInv /\ [Next]_vars => CInv'
<1> SUFFICES ASSUME CInv, [Next]_vars PROVE CInv'
    OBVIOUS
<1>1. ASSUME NEW t \in Thread, NEW c \in Cycle, NEW now \in Time, Begin(t, c, now) PROVE CInv'
    BY <1>1, BeginKeeps
<1>2. ASSUME NEW t \in Thread, Step(t) PROVE CInv'
  <2>1. ASSUME NEW blocks \in BOOLEAN, Brain(t, blocks) PROVE CInv'
      BY <2>1, BrainKeeps
  <2>2. CASE Gate(t) BY <2>2, GateKeeps
  <2>3. CASE Raises(t) BY <2>3, RaisesKeeps
  <2>4. CASE WrongType(t) BY <2>4, WrongTypeKeeps
  <2>5. CASE Acquire(t) BY <2>5, AcquireKeeps
  <2>6. CASE RecordCycle(t) BY <2>6, RecordCycleKeeps
  <2>7. CASE RecordAudit(t) BY <2>7, RecordAuditKeeps
  <2>8. CASE RecordFails(t) BY <2>8, RecordFailsKeeps
  <2>9. CASE RecordError(t) \/ RecordErrorFails(t) BY <2>9, RecordErrorKeeps
  <2> QED BY <1>2, <2>1, <2>2, <2>3, <2>4, <2>5, <2>6, <2>7, <2>8, <2>9 DEF Step
<1>3. CASE Tick BY <1>3, TickKeeps
<1>4. CASE Crash BY <1>4, CrashKeeps
<1>5. CASE UNCHANGED vars
  <2>1. UNCHANGED <<wall, ledger, seen, lock, pc, job, cycles>>
      BY <1>5 DEF vars, notebook
  <2> QED BY <2>1 DEF CInv, ThreadsFine, LedgerFine, CallFine, CycleFine, Mine, Known, Last,
                      AuditFollowsCycle, PairAt
<1> QED BY <1>1, <1>2, <1>3, <1>4, <1>5 DEF Next

-----------------------------------------------------------------------------
(***************************************************************************)
(* The theorems.                                                           *)
(***************************************************************************)

\* The inductive invariant of run_cycle.
THEOREM CycleInductive == Spec => []CInv
<1> QED BY CInvInit, CInvNext, PTL DEF Spec

\* Every variable keeps its type.
THEOREM CycleTypes == Spec => []TypeOK
<1>1. CInv => TypeOK
    BY DEF CInv, ThreadsFine, LedgerFine, TypeOK
<1> QED BY <1>1, CycleInductive, PTL

\* Whoever is told to ENTER finds the decision and its audit side by side in the ledger.
THEOREM EnterRecorded == Spec => []EnterIsOnRecord
<1>1. CInv => EnterIsOnRecord
    BY DEF CInv, CycleFine, EnterIsOnRecord
<1> QED BY <1>1, CycleInductive, PTL

\* O2: the records of two threads do not interleave.
THEOREM PairsTogether == Spec => []AuditFollowsCycle
<1>1. CInv => AuditFollowsCycle
    BY DEF CInv, LedgerFine
<1> QED BY <1>1, CycleInductive, PTL

\* No failure makes an answer more permissive than the gate's verdict or a brain's block.
THEOREM NoUpgrade == Spec => []NeverUpgraded
<1>1. CInv => NeverUpgraded
    BY DEF CInv, CycleFine, NeverUpgraded
<1> QED BY <1>1, CycleInductive, PTL

\* O3: orchestrator errors on record are those that carry the marker.
THEOREM ErrorsFound == Spec => []ErrorsMarked
<1>1. CInv => ErrorsMarked
    BY DEF CInv, CycleFine, ErrorsMarked
<1> QED BY <1>1, CycleInductive, PTL

\* O5: the watermark is never further ahead of the clock than the tolerance.
THEOREM PoisonLimited == Spec => []PoisonBounded
<1>1. CInv => PoisonBounded
    BY LastSeenBound DEF PoisonBounded
<1> QED BY <1>1, CycleInductive, PTL
================================================================================
