------------------------------- MODULE GateProofs -------------------------------
(***************************************************************************)
(* The ladder is the policy, for every call; whatever the threads and the  *)
(* reviews do, a decision never lets through more than the policy; and the *)
(* races on the audit store leave it a dict of replayable snapshots, which *)
(* outgrows its cap by the threads in eviction at most.  Before the gate,  *)
(* no brain breaks BrainOutput's contract, and an entry is earned by the   *)
(* whole chain.                                                            *)
(***************************************************************************)
EXTENDS GateMind, BrainChain, FiniteSetTheorems, SequenceTheorems, TLAPS

\* A set of rule numbers that is not empty has a first one.
LEMMA FirstRule ==
    ASSUME NEW S \in SUBSET (1..8), S # {}
    PROVE  \E i \in S : \A j \in S : i <= j
<1> SUFFICES ASSUME \A i \in S : \E j \in S : j < i
             PROVE  FALSE
    BY SMT
<1>1. 1 \notin S BY SMT
<1>2. 2 \notin S BY <1>1, SMT
<1>3. 3 \notin S BY <1>1, <1>2, SMT
<1>4. 4 \notin S BY <1>1, <1>2, <1>3, SMT
<1>5. 5 \notin S BY <1>1, <1>2, <1>3, <1>4, SMT
<1>6. 6 \notin S BY <1>1, <1>2, <1>3, <1>4, <1>5, SMT
<1>7. 7 \notin S BY <1>1, <1>2, <1>3, <1>4, <1>5, <1>6, SMT
<1>8. 8 \notin S BY <1>1, <1>2, <1>3, <1>4, <1>5, <1>6, <1>7, SMT
<1>9. PICK i \in 1..8 : i \in S
    BY Zenon
<1>10. i = 1 \/ i = 2 \/ i = 3 \/ i = 4 \/ i = 5 \/ i = 6 \/ i = 7 \/ i = 8
    BY SMT
<1> QED BY <1>1, <1>2, <1>3, <1>4, <1>5, <1>6, <1>7, <1>8, <1>9, <1>10, Zenon

\* The walk returns the first answer of evaluate_rules' loop.
LEMMA FirstAnswer ==
    ASSUME NEW c, Answering(c) # {}
    PROVE  \E i \in Answering(c) :
               /\ \A j \in Answering(c) : i <= j
               /\ Ladder(c) = Rules(c)[i]
<1> DEFINE i == CHOOSE k \in Answering(c) : \A j \in Answering(c) : k <= j
<1>1. Answering(c) \in SUBSET (1..8)
    BY DEF Answering
<1>2. i \in Answering(c) /\ \A j \in Answering(c) : i <= j
    BY <1>1, FirstRule, Zenon
<1>3. Ladder(c) = Rules(c)[i]
    BY DEF Ladder
<1> QED BY <1>2, <1>3, Zenon

\* The fields of a call have their types.
LEMMA CallType ==
    ASSUME NEW c \in Call, NEW r \in Role
    PROVE  /\ c.trio[r].decision \in Decision
           /\ c.trio[r].grade \in Grade
           /\ c.trio[r].flags \subseteq FlagClass
           /\ c.trio[r].block \in BOOLEAN
BY DEF Call, Trio, Output

\* The session check, window by window and day by day, is the week's calendar of hours.
LEMMA SessionIsCalendar ==
    ASSUME NEW c \in Call
    PROVE  InSession(c.now, c.symbol) <=> Tradable(c.now, c.symbol)
<1>1. /\ c.now.day \in 0..6 /\ c.now.hour \in 0..23 /\ c.symbol \in Symbol
    BY DEF Call, Moment
<1>2. Weekend(c.now) <=> 24 * c.now.day + c.now.hour \in 117..165
    BY <1>1 DEF Weekend
<1>3. (\E w \in Windows(c.symbol) : w[1] <= c.now.hour /\ c.now.hour < w[2])
          <=> c.now.hour \in Hours(c.symbol)
  <2>0. PICK h \in 0..23 : h = c.now.hour
    BY <1>1
  <2>1. CASE c.symbol = "EUR_USD"
    <3>1. Windows(c.symbol) = {<<7, 13>>, <<13, 21>>} /\ Hours(c.symbol) = 7..20
      BY <2>1, Zenon DEF Windows, Hours
    <3>2. (\E w \in {<<7, 13>>, <<13, 21>>} : w[1] <= h /\ h < w[2]) <=> h \in 7..20
      BY SMT
    <3> QED BY <2>0, <3>1, <3>2, Zenon
  <2>2. CASE c.symbol = "USD_JPY"
    <3>1. Windows(c.symbol) = {<<0, 7>>, <<12, 21>>} /\ Hours(c.symbol) = 0..6 \cup 12..20
      BY <2>2, Zenon DEF Windows, Hours
    <3>2. (\E w \in {<<0, 7>>, <<12, 21>>} : w[1] <= h /\ h < w[2]) <=> h \in 0..6 \cup 12..20
      BY SMT
    <3> QED BY <2>0, <3>1, <3>2, Zenon
  <2>3. CASE c.symbol = "other"
    <3>1. Windows(c.symbol) = {<<12, 21>>} /\ Hours(c.symbol) = 12..20
      BY <2>3 DEF Windows, Hours
    <3>2. (\E w \in {<<12, 21>>} : w[1] <= h /\ h < w[2]) <=> h \in 12..20
      BY SMT
    <3> QED BY <2>0, <3>1, <3>2, Zenon
  <2> QED BY <1>1, <2>1, <2>2, <2>3 DEF Symbol
<1> QED BY <1>2, <1>3 DEF InSession, Tradable

\* The first five rules let through exactly the calls that are clear, up to a brain that says
\* BLOCK without should_block.  R4 asks for nothing that R1 and R3 have not settled.
LEMMA FirstFive ==
    ASSUME NEW c \in Call
    PROVE  Clear(c) <=>
               /\ \A i \in 1..5 : Rules(c)[i] = "PASS"
               /\ \A r \in Role : c.trio[r].decision # "BLOCK"
<1> DEFINE graded == /\ c.trio["chart"].grade \in {"A+", "A"}
                     /\ \A r \in Role : c.trio[r].grade \in {"A+", "A", "B"}
           sound == \A r \in Role : Sound(c.trio[r])
           unblocked == \A r \in Role : ~c.trio[r].block
           harmless == \A r \in Role : c.trio[r].flags \subseteq {"warning"}
<1>1. R1_schema(c) = "PASS" <=> sound
    BY DEF R1_schema, Block
<1>2. R2_session(c) = "PASS" <=> Tradable(c.now, c.symbol)
    BY SessionIsCalendar DEF R2_session, Block
<1>3. R3_grade(c) = "PASS" <=> graded
    BY DEF R3_grade, Block, Role
<1>4. R4_brain_block(c) = "PASS" <=> unblocked
    BY DEF R4_brain_block, Block
<1>5. R5_kill_flag(c) = "PASS" <=> harmless
    BY CallType DEF R5_kill_flag, Block, FlagClass
<1>6. sound /\ graded => unblocked
    BY DEF Sound
<1>7. (\A i \in 1..5 : Rules(c)[i] = "PASS") <=>
          sound /\ Tradable(c.now, c.symbol) /\ graded /\ unblocked /\ harmless
  <2>1. (\A i \in 1..5 : Rules(c)[i] = "PASS") <=>
            /\ R1_schema(c) = "PASS" /\ R2_session(c) = "PASS" /\ R3_grade(c) = "PASS"
            /\ R4_brain_block(c) = "PASS" /\ R5_kill_flag(c) = "PASS"
    <3> HIDE DEF sound, graded, unblocked, harmless
    <3>1. /\ Rules(c)[1] = R1_schema(c) /\ Rules(c)[2] = R2_session(c)
          /\ Rules(c)[3] = R3_grade(c) /\ Rules(c)[4] = R4_brain_block(c)
          /\ Rules(c)[5] = R5_kill_flag(c)
        BY DEF Rules
    <3>2. \A i \in 1..5 : i = 1 \/ i = 2 \/ i = 3 \/ i = 4 \/ i = 5
        BY SMT
    <3> QED BY <3>1, <3>2, SMT
  <2> QED BY <2>1, <1>1, <1>2, <1>3, <1>4, <1>5
<1>8. Clear(c) <=> /\ sound /\ harmless /\ Tradable(c.now, c.symbol) /\ graded
                   /\ \A r \in Role : c.trio[r].decision # "BLOCK"
    BY DEF Clear
<1> QED BY <1>6, <1>7, <1>8, Zenon

\* What consensus_status makes of the three decisions.
LEMMA Consents ==
    ASSUME NEW c \in Call
    PROVE  LET wait == \A r \in Role : c.trio[r].decision = "WAIT"
               calls == \E dir \in {"BUY", "SELL"} : Agreed(c, dir)
           IN  /\ ~(wait /\ calls)
               /\ R6_direction(c) = "PASS" <=> wait \/ calls
               /\ R6_direction(c) \in {"PASS", "BLOCK"}
               /\ wait => R7_unanimous_wait(c) = "WAIT"
               /\ calls => R7_unanimous_wait(c) = "PASS" /\ R8_enter(c) = "ENTER_CANDIDATE"
               /\ wait \/ calls => \A r \in Role : c.trio[r].decision # "BLOCK"
<1>1. \A r \in Role : c.trio[r].decision \in {"BUY", "SELL", "WAIT", "BLOCK"}
    BY CallType DEF Decision
<1> QED BY <1>1 DEF Role, Agreed, Consensus, Opposite, Block, R6_direction, R7_unanimous_wait,
                    R8_enter

\* For every three outputs, instant and symbol, the walk of the eight rules says what the
\* policy says: no rule hides another's answer, and none is missing.
THEOREM LadderIsPolicy == \A c \in Call : Ladder(c) = Policy(c)
<1> SUFFICES ASSUME NEW c \in Call PROVE Ladder(c) = Policy(c)
    OBVIOUS
<1> DEFINE wait == \A r \in Role : c.trio[r].decision = "WAIT"
           calls == \E dir \in {"BUY", "SELL"} : Agreed(c, dir)
           first == \A i \in 1..5 : Rules(c)[i] = "PASS"
<1>1. /\ ~(wait /\ calls)
      /\ R6_direction(c) = "PASS" <=> wait \/ calls
      /\ R6_direction(c) \in {"PASS", "BLOCK"}
      /\ wait => R7_unanimous_wait(c) = "WAIT"
      /\ calls => R7_unanimous_wait(c) = "PASS" /\ R8_enter(c) = "ENTER_CANDIDATE"
      /\ wait \/ calls => \A r \in Role : c.trio[r].decision # "BLOCK"
    BY Consents, Zenon
<1>2. first /\ (wait \/ calls) <=> Clear(c) /\ (wait \/ calls)
    BY <1>1, FirstFive, Zenon
<1>3. Policy(c) = IF first /\ calls THEN "ENTER_CANDIDATE"
                  ELSE IF first /\ wait THEN "WAIT" ELSE "BLOCK"
  <2>1. Policy(c) = IF Clear(c) /\ calls THEN "ENTER_CANDIDATE"
                    ELSE IF Clear(c) /\ wait THEN "WAIT" ELSE "BLOCK"
    BY DEF Policy
  <2> HIDE DEF first, wait, calls
  <2> QED BY <2>1, <1>2
<1>4. /\ Rules(c)[6] = R6_direction(c)
      /\ Rules(c)[7] = R7_unanimous_wait(c)
      /\ Rules(c)[8] = R8_enter(c)
      /\ \A i \in 1..5 : Rules(c)[i] \in {"PASS", "BLOCK"}
  <2>1. /\ Rules(c)[6] = R6_direction(c) /\ Rules(c)[7] = R7_unanimous_wait(c)
        /\ Rules(c)[8] = R8_enter(c)
    BY DEF Rules
  <2>2. /\ Rules(c)[1] = R1_schema(c) /\ Rules(c)[2] = R2_session(c)
        /\ Rules(c)[3] = R3_grade(c) /\ Rules(c)[4] = R4_brain_block(c)
        /\ Rules(c)[5] = R5_kill_flag(c)
    BY DEF Rules
  <2>3. /\ R1_schema(c) \in {"PASS", "BLOCK"} /\ R2_session(c) \in {"PASS", "BLOCK"}
        /\ R3_grade(c) \in {"PASS", "BLOCK"} /\ R4_brain_block(c) \in {"PASS", "BLOCK"}
        /\ R5_kill_flag(c) \in {"PASS", "BLOCK"}
    BY DEF Block, R1_schema, R2_session, R3_grade, R4_brain_block, R5_kill_flag
  <2>4. \A i \in 1..5 : i = 1 \/ i = 2 \/ i = 3 \/ i = 4 \/ i = 5
    BY SMT
  <2> QED BY <2>1, <2>2, <2>3, <2>4, SMT
<1> HIDE DEF wait, calls
<1>5. CASE first /\ calls
  <2>1. Answering(c) = {8}
    BY <1>5, <1>1, <1>4 DEF Answering
  <2> QED BY <2>1, <1>5, <1>1, <1>3, <1>4, FirstAnswer
<1>6. CASE first /\ wait
  <2>1. 7 \in Answering(c) /\ \A i \in Answering(c) : i >= 7
    BY <1>6, <1>1, <1>4 DEF Answering
  <2>2. PICK i \in Answering(c) : /\ \A j \in Answering(c) : i <= j
                                  /\ Ladder(c) = Rules(c)[i]
    BY <2>1, FirstAnswer
  <2>3. i = 7
    BY <2>1, <2>2 DEF Answering
  <2> QED BY <2>2, <2>3, <1>6, <1>1, <1>3, <1>4
<1>7. CASE ~first \/ ~(wait \/ calls)
  <2>1. PICK k \in Answering(c) : k <= 6
    BY <1>7, <1>1, <1>4 DEF Answering
  <2>2. PICK i \in Answering(c) : /\ \A j \in Answering(c) : i <= j
                                  /\ Ladder(c) = Rules(c)[i]
    BY <2>1, FirstAnswer
  <2>3. i \in 1..6 /\ Rules(c)[i] # "PASS"
    BY <2>1, <2>2 DEF Answering
  <2>4. Rules(c)[i] = "BLOCK"
    BY <2>3, <1>1, <1>4
  <2> QED BY <2>2, <2>4, <1>7, <1>3
<1> QED BY <1>5, <1>6, <1>7, Zenon

\* A brain that says BLOCK, with or without should_block, is never outvoted: what
\* DecisionCycle!Verdicts relies on.
THEOREM BlockStands ==
    \A c \in Call : (\E r \in Role : c.trio[r].decision = "BLOCK") => Ladder(c) = "BLOCK"
BY LadderIsPolicy DEF Policy, Clear

-----------------------------------------------------------------------------
(***************************************************************************)
(* The threads.                                                            *)
(***************************************************************************)
DecisionType == [call : Calls, outcome : Outcome, direction : {"BUY", "SELL", "NONE"},
                 candidate : BOOLEAN]

\* Every thread that is not idle, and no other, has a decision of the right type.
Held ==
    /\ pc \in [Thread -> {"idle", "check", "touch", "insert", "evict", "pop", "decided"}]
    /\ decision \in [{t \in Thread : pc[t] # "idle"} -> DecisionType]

\* PolicyObeyed, of the decision d of a thread at `where'.
Obeys(d, where) ==
    /\ Rank(d.outcome) <= Rank(Policy(d.call))
    /\ where # "decided" => d.outcome = Policy(d.call)
    /\ d.candidate <=> d.outcome = "ENTER_CANDIDATE"
    /\ d.direction = IF d.candidate THEN d.call.trio["chart"].decision ELSE "NONE"

\* A fresh decision obeys.
LEMMA FreshDecision ==
    ASSUME NEW c \in Calls
    PROVE  DecisionFor(c) \in DecisionType /\ Obeys(DecisionFor(c), "check")
<1>1. c \in Call /\ Ladder(c) = Policy(c)
    BY GateAssumption, LadderIsPolicy
<1>2. Policy(c) \in Outcome
    BY DEF Policy, Outcome
<1>3. Policy(c) = "ENTER_CANDIDATE" => c.trio["chart"].decision \in {"BUY", "SELL"}
    BY DEF Policy, Agreed
<1>4. Rank(Policy(c)) <= Rank(Policy(c))
    BY <1>2 DEF Rank, Outcome
<1> QED BY <1>1, <1>2, <1>3, <1>4 DEF DecisionFor, Direction, DecisionType, Obeys

\* A reviewed decision obeys.
LEMMA ReviewedDecision ==
    ASSUME NEW d \in DecisionType, NEW target \in {"WAIT", "BLOCK"},
           Obeys(d, "decided"), Rank(target) < Rank(d.outcome)
    PROVE  Downgraded(d, target) \in DecisionType /\ Obeys(Downgraded(d, target), "decided")
<1>1. Rank(target) \in Nat /\ Rank(d.outcome) \in Nat /\ Rank(Policy(d.call)) \in Nat
    BY DEF Rank
<1> QED BY <1>1 DEF Downgraded, DecisionType, Outcome, Obeys

\* The inductive invariant.
HeldObeys ==
    /\ Held
    /\ \A t \in Thread : pc[t] # "idle" => Obeys(decision[t], pc[t])

\* Thread t goes to `where' with the decision d.
Moves(t, where, d) ==
    /\ pc' = [pc EXCEPT ![t] = where]
    /\ decision' = [u \in DOMAIN decision \cup {t} |-> IF u = t THEN d ELSE decision[u]]

Busy == {"check", "touch", "insert", "evict", "pop", "decided"}

\* A thread that changes its own pc and decision, and nobody else's, keeps the invariant.
LEMMA OneMoves ==
    ASSUME HeldObeys, NEW t \in Thread, NEW where \in Busy, NEW d \in DecisionType,
           Obeys(d, where), Moves(t, where, d)
    PROVE  HeldObeys'
<1>1. Held'
    BY DEF HeldObeys, Held, Moves, Busy
<1>2. ASSUME NEW u \in Thread, pc'[u] # "idle"
      PROVE  Obeys(decision'[u], pc'[u])
  <2>1. CASE u = t
    BY <2>1, <1>2 DEF HeldObeys, Held, Moves
  <2>2. CASE u # t
    <3>1. pc'[u] = pc[u] /\ decision'[u] = decision[u]
      BY <2>2, <1>2 DEF HeldObeys, Held, Moves
    <3> QED BY <3>1, <1>2 DEF HeldObeys
  <2> QED BY <2>1, <2>2
<1>3. (\A u \in Thread : pc[u] # "idle" => Obeys(decision[u], pc[u]))'
    BY <1>2 DEF Obeys, Rank, Policy
<1> QED BY <1>1, <1>3 DEF HeldObeys

\* So does one that only moves on.
LEMMA OneMovesOn ==
    ASSUME HeldObeys, NEW t \in Thread, NEW where \in Busy, pc[t] \notin {"idle", "decided"},
           pc' = [pc EXCEPT ![t] = where], UNCHANGED decision
    PROVE  HeldObeys'
<1>1. t \in DOMAIN decision /\ decision[t] \in DecisionType
    BY DEF HeldObeys, Held
<1>2. Obeys(decision[t], where)
  <2>1. Obeys(decision[t], "check")
    BY DEF HeldObeys, Obeys
  <2> QED BY <2>1 DEF Obeys
<1>3. Moves(t, where, decision[t])
    BY <1>1 DEF HeldObeys, Held, Moves
<1> QED BY <1>1, <1>2, <1>3, OneMoves

LEMMA HeldObeysInit == Init => HeldObeys
BY DEF Init, HeldObeys, Held

LEMMA HeldObeysNext == HeldObeys /\ [Next]_vars => HeldObeys'
<1> SUFFICES ASSUME HeldObeys, [Next]_vars PROVE HeldObeys'
    OBVIOUS
<1>1. ASSUME NEW t \in Thread, NEW c \in Calls, Evaluate(t, c) PROVE HeldObeys'
  <2>1. PICK where \in Busy : pc' = [pc EXCEPT ![t] = where]
    BY <1>1 DEF Evaluate, Goto, Busy
  <2>2. DecisionFor(c) \in DecisionType /\ Obeys(DecisionFor(c), where)
    BY FreshDecision DEF Obeys
  <2>3. Moves(t, where, DecisionFor(c))
    BY <1>1, <2>1 DEF Evaluate, Put, Moves
  <2> QED BY <2>2, <2>3, OneMoves
<1>2. ASSUME NEW t \in Thread, Check(t) \/ Touch(t) \/ Insert(t) \/ Evict(t) \/ Pop(t)
      PROVE  HeldObeys'
  <2>1. pc[t] \notin {"idle", "decided"} /\ UNCHANGED decision
    BY <1>2 DEF Check, Touch, Insert, Evict, Pop
  <2>2. PICK where \in Busy : pc' = [pc EXCEPT ![t] = where]
    BY <1>2 DEF Check, Touch, Insert, Evict, Pop, Goto, Busy
  <2> QED BY <2>1, <2>2, OneMovesOn, Zenon
<1>3. ASSUME NEW t \in Thread, NEW target \in {"WAIT", "BLOCK"}, Review(t, target)
      PROVE  HeldObeys'
  <2> DEFINE r == Downgraded(decision[t], target)
  <2>1. t \in DOMAIN decision /\ decision[t] \in DecisionType /\ Obeys(decision[t], "decided")
    BY <1>3 DEF Review, HeldObeys, Held
  <2>2. r \in DecisionType /\ Obeys(r, "decided")
    BY <1>3, <2>1, ReviewedDecision DEF Review
  <2> HIDE DEF r
  <2>3. Moves(t, "decided", r)
    BY <1>3, <2>1 DEF Review, HeldObeys, Held, Moves, r
  <2>4. "decided" \in Busy
    BY DEF Busy
  <2> QED BY <2>2, <2>3, <2>4, OneMoves
<1>4. ASSUME NEW t \in Thread, Done(t) PROVE HeldObeys'
  <2>1. Held'
    BY <1>4 DEF Done, Goto, Without, HeldObeys, Held
  <2>2. ASSUME NEW u \in Thread, pc'[u] # "idle"
        PROVE  Obeys(decision[u], pc[u]) /\ pc'[u] = pc[u] /\ decision'[u] = decision[u]
    BY <1>4, <2>2 DEF Done, Goto, Without, HeldObeys, Held
  <2>3. (\A u \in Thread : pc[u] # "idle" => Obeys(decision[u], pc[u]))'
    BY <2>2 DEF Obeys, Rank, Policy
  <2> QED BY <2>1, <2>3 DEF HeldObeys
<1>5. ASSUME NEW t \in Thread, NEW c \in Calls, FailClosed(t, c) PROVE HeldObeys'
  <2>1. PICK d : d = Downgraded(DecisionFor(c), "BLOCK")
    OBVIOUS
  <2>2. DecisionFor(c) \in DecisionType /\ d \in DecisionType /\ d.call = c
    <3>1. DecisionFor(c) \in DecisionType
      BY FreshDecision
    <3>2. DecisionFor(c).call = c /\ c \in Calls
      BY DEF DecisionFor
    <3>3. d = [call |-> c, outcome |-> "BLOCK", direction |-> "NONE", candidate |-> FALSE]
      BY <2>1, <3>2 DEF Downgraded
    <3> QED BY <3>1, <3>2, <3>3 DEF DecisionType, Outcome
  <2>3. Obeys(d, "decided")
    <3>1. d.outcome = "BLOCK" /\ d.direction = "NONE" /\ d.candidate = FALSE
      BY <2>1, <2>2 DEF Downgraded, DecisionType
    <3>2. Rank("BLOCK") <= Rank(Policy(c))
      BY DEF Rank
    <3> QED BY <2>2, <3>1, <3>2 DEF Obeys
  <2>4. Moves(t, "decided", d) /\ "decided" \in Busy
    BY <1>5, <2>1 DEF FailClosed, Goto, Put, Moves, Busy
  <2> QED BY <2>2, <2>3, <2>4, OneMoves
<1>6. CASE UNCHANGED vars
  <2>1. UNCHANGED <<pc, decision>>
    BY <1>6 DEF vars
  <2> QED BY <2>1 DEF HeldObeys, Held, Obeys, Rank, Policy
<1> QED BY <1>1, <1>2, <1>3, <1>4, <1>5, <1>6 DEF Next

\* In every reachable state a thread's decision lets through no more than the policy does for
\* the call it was asked about, and exactly that until it is reviewed.
THEOREM PolicyKept == Spec => []PolicyObeyed
<1>1. HeldObeys => PolicyObeyed
    BY DEF HeldObeys, Held, Obeys, PolicyObeyed
<1> QED BY <1>1, HeldObeysInit, HeldObeysNext, PTL DEF Spec

-----------------------------------------------------------------------------
(***************************************************************************)
(* The audit store.                                                        *)
(***************************************************************************)
Entry == [id : {AuditId(c) : c \in Calls}, call : Calls, outcome : Outcome]

\* No two snapshots share an id, and each can be replayed to its outcome.
Dict(s) ==
    /\ s \in Seq(Entry)
    /\ \A i, j \in 1..Len(s) : s[i].id = s[j].id => i = j
    /\ \A i \in 1..Len(s) : s[i].outcome = Policy(s[i].call)

\* The threads that have yet to leave _evict_if_over_cap.
Evicting == {t \in Thread : pc[t] \in {"evict", "pop"}}

StoreInv ==
    /\ Dict(store)
    /\ IsFiniteSet(Evicting)
    /\ Len(store) <= MaxAudit + Cardinality(Evicting)

\* move_to_end.
Moved(s, i) == Append(RemoveAt(s, i), s[i])

\* RemoveAt: the entries behind the i-th move up by one.
LEMMA RemoveAtProperties ==
    ASSUME NEW S, NEW s \in Seq(S), NEW i \in 1..Len(s)
    PROVE  /\ RemoveAt(s, i) \in Seq(S) /\ Len(RemoveAt(s, i)) = Len(s) - 1
           /\ \A j \in 1..(i - 1) : RemoveAt(s, i)[j] = s[j]
           /\ \A j \in i..(Len(s) - 1) : RemoveAt(s, i)[j] = s[j + 1]
<1> DEFINE front == SubSeq(s, 1, i - 1)
           back == SubSeq(s, i + 1, Len(s))
<1>1. PICK p \in Nat, q \in Nat : p = i - 1 /\ q = Len(s) - i
    OBVIOUS
<1>2. front \in Seq(S) /\ Len(front) = p /\ \A j \in 1..p : front[j] = s[j]
    BY <1>1, SubSeqProperties
<1>3. back \in Seq(S) /\ Len(back) = q /\ \A j \in 1..q : back[j] = s[i + j]
    BY <1>1, SubSeqProperties
<1>4. RemoveAt(s, i) = front \o back
    BY DEF RemoveAt
<1> HIDE DEF front, back
<1>5. PICK fb : fb = RemoveAt(s, i)
    OBVIOUS
<1>6. /\ fb \in Seq(S) /\ Len(fb) = p + q
      /\ \A j \in 1..p + q : fb[j] = IF j <= p THEN front[j] ELSE back[j - p]
  <2>1. /\ front \o back \in Seq(S) /\ Len(front \o back) = Len(front) + Len(back)
        /\ \A j \in 1..Len(front) + Len(back) :
              (front \o back)[j] = IF j <= Len(front) THEN front[j] ELSE back[j - Len(front)]
    BY <1>2, <1>3, ConcatProperties, Zenon
  <2>2. fb = front \o back /\ Len(front) = p /\ Len(back) = q
    BY <1>2, <1>3, <1>4, <1>5
  <2> QED BY <2>1, <2>2, Zenon
<1>7. \A j \in 1..p : fb[j] = s[j]
    BY <1>2, <1>6
<1>8. ASSUME NEW j \in i..(Len(s) - 1) PROVE fb[j] = s[j + 1]
  <2>1. j \in 1..p + q /\ ~(j <= p) /\ j - p \in 1..q /\ i + (j - p) = j + 1
    BY <1>1
  <2>2. fb[j] = back[j - p] /\ back[j - p] = s[i + (j - p)]
    BY <1>3, <1>6, <2>1, Zenon
  <2> QED BY <2>1, <2>2
<1>9. p + q = Len(s) - 1
    BY <1>1
<1> QED BY <1>1, <1>5, <1>6, <1>7, <1>8, <1>9

\* What move_to_end leaves where.
LEMMA MovedProperties ==
    ASSUME NEW S, NEW s \in Seq(S), NEW i \in 1..Len(s)
    PROVE  /\ Moved(s, i) \in Seq(S) /\ Len(Moved(s, i)) = Len(s)
           /\ \A j \in 1..(i - 1) : Moved(s, i)[j] = s[j]
           /\ \A j \in i..(Len(s) - 1) : Moved(s, i)[j] = s[j + 1]
           /\ Moved(s, i)[Len(s)] = s[i]
<1>1. PICK r : r = RemoveAt(s, i)
    OBVIOUS
<1>2. /\ r \in Seq(S) /\ Len(r) = Len(s) - 1
      /\ \A j \in 1..(i - 1) : r[j] = s[j]
      /\ \A j \in i..(Len(s) - 1) : r[j] = s[j + 1]
    BY <1>1, RemoveAtProperties, Zenon
<1>3. Moved(s, i) = Append(r, s[i]) /\ s[i] \in S
    BY <1>1 DEF Moved
<1> QED BY <1>2, <1>3

\* Moving an entry to the end leaves a dict.
LEMMA TouchDict ==
    ASSUME NEW s, Dict(s), NEW i \in 1..Len(s)
    PROVE  Dict(Moved(s, i)) /\ Len(Moved(s, i)) = Len(s)
<1>1. PICK m : m = Moved(s, i)
    OBVIOUS
<1>2. /\ m \in Seq(Entry) /\ Len(m) = Len(s) /\ Len(s) \in Nat
      /\ \A j \in 1..Len(s) :
            m[j] = IF j < i THEN s[j] ELSE IF j < Len(s) THEN s[j + 1] ELSE s[i]
  <2>1. s \in Seq(Entry)
    BY DEF Dict
  <2>2. Len(s) \in Nat
    BY <2>1
  <2>3. /\ m \in Seq(Entry) /\ Len(m) = Len(s)
        /\ \A j \in 1..(i - 1) : m[j] = s[j]
        /\ \A j \in i..(Len(s) - 1) : m[j] = s[j + 1]
        /\ m[Len(s)] = s[i]
    BY <1>1, <2>1, MovedProperties, Zenon
  <2> QED BY <2>2, <2>3
<1> DEFINE from(j) == IF j < i THEN j ELSE IF j < Len(s) THEN j + 1 ELSE i
<1>3. \A j \in 1..Len(s) : from(j) \in 1..Len(s) /\ m[j] = s[from(j)]
    BY <1>2
<1>4. \A j, k \in 1..Len(s) : from(j) = from(k) => j = k
    BY <1>2
<1> HIDE DEF from
<1>5. ASSUME NEW j \in 1..Len(s), NEW k \in 1..Len(s), m[j].id = m[k].id
      PROVE  j = k
  <2>1. PICK p \in 1..Len(s), q \in 1..Len(s) : p = from(j) /\ q = from(k)
    BY <1>3
  <2>2. m[j] = s[p] /\ m[k] = s[q]
    BY <1>3, <2>1
  <2>3. p = q
    BY <1>5, <2>2 DEF Dict
  <2> QED BY <1>4, <2>1, <2>3
<1>6. \A j \in 1..Len(s) : m[j].outcome = Policy(m[j].call)
    BY <1>3 DEF Dict
<1>7. Dict(m)
    BY <1>2, <1>5, <1>6 DEF Dict
<1> QED BY <1>1, <1>2, <1>7

\* Writing an entry under an id that the dict has, at its place, leaves a dict.
LEMMA ReplaceDict ==
    ASSUME NEW s, Dict(s), NEW i \in 1..Len(s), NEW e \in Entry, e.id = s[i].id,
           e.outcome = Policy(e.call)
    PROVE  Dict(ReplaceAt(s, i, e)) /\ Len(ReplaceAt(s, i, e)) = Len(s)
<1>1. PICK m : m = [s EXCEPT ![i] = e]
    OBVIOUS
<1>2. /\ m \in Seq(Entry) /\ Len(m) = Len(s)
      /\ \A j \in 1..Len(s) : m[j] = IF j = i THEN e ELSE s[j]
    BY <1>1 DEF Dict
<1>3. \A j \in 1..Len(s) : m[j].id = s[j].id /\ m[j].outcome = Policy(m[j].call)
    BY <1>2 DEF Dict
<1>4. Dict(m)
    BY <1>2, <1>3 DEF Dict
<1> QED BY <1>1, <1>2, <1>4 DEF ReplaceAt

\* Writing one under an id that it has not, at the end, leaves a dict.
LEMMA AppendDict ==
    ASSUME NEW s, Dict(s), NEW e \in Entry, \A i \in 1..Len(s) : s[i].id # e.id,
           e.outcome = Policy(e.call)
    PROVE  Dict(Append(s, e)) /\ Len(Append(s, e)) = Len(s) + 1
<1>1. PICK m : m = Append(s, e)
    OBVIOUS
<1>2. /\ m \in Seq(Entry) /\ Len(m) = Len(s) + 1 /\ Len(s) \in Nat
      /\ \A j \in 1..Len(s) : m[j] = s[j]
      /\ m[Len(s) + 1] = e
    BY <1>1 DEF Dict
<1>3. \A i, j \in 1..Len(m) : m[i].id = m[j].id => i = j
    BY <1>2 DEF Dict
<1>4. \A i \in 1..Len(m) : m[i].outcome = Policy(m[i].call)
    BY <1>2 DEF Dict
<1>5. Dict(m)
    BY <1>2, <1>3, <1>4 DEF Dict
<1> QED BY <1>1, <1>2, <1>5

\* popitem leaves a dict, one shorter.
LEMMA PopDict ==
    ASSUME NEW s, Dict(s), s # << >>
    PROVE  Dict(Tail(s)) /\ Len(Tail(s)) = Len(s) - 1
<1>1. PICK m : m = Tail(s)
    OBVIOUS
<1>2. /\ m \in Seq(Entry) /\ Len(m) = Len(s) - 1 /\ Len(s) \in Nat
      /\ \A j \in 1..Len(m) : m[j] = s[j + 1]
    BY <1>1 DEF Dict
<1>3. \A j \in 1..Len(m) : j + 1 \in 1..Len(s)
    BY <1>2
<1>4. ASSUME NEW j \in 1..Len(m), NEW k \in 1..Len(m), m[j].id = m[k].id
      PROVE  j = k
  <2>1. j + 1 = k + 1
    BY <1>2, <1>3, <1>4 DEF Dict
  <2> QED BY <1>2, <2>1
<1>5. \A j \in 1..Len(m) : m[j].outcome = Policy(m[j].call)
    BY <1>2, <1>3 DEF Dict
<1>6. Dict(m)
    BY <1>2, <1>4, <1>5 DEF Dict
<1> QED BY <1>1, <1>2, <1>6

\* The position of an id that is stored.
LEMMA PositionOf ==
    ASSUME StoreInv, NEW id \in Stored
    PROVE  Position(id) \in 1..Len(store) /\ store[Position(id)].id = id
<1>1. \E i \in 1..Len(store) : store[i].id = id
    BY DEF Stored
<1> QED BY <1>1 DEF Position

\* Dict speaks of nothing but its argument.
LEMMA DictNext == ASSUME Dict(store') PROVE Dict(store)'
BY DEF Dict, Policy, Clear, Agreed

\* A step that takes no thread into or out of the eviction, and no entry into the store.
LEMMA StoreFrame ==
    ASSUME StoreInv, Dict(store'), Len(store') <= Len(store),
           \A t \in Thread : pc'[t] \in {"evict", "pop"} <=> pc[t] \in {"evict", "pop"}
    PROVE  StoreInv'
<1>1. Evicting' = Evicting
    BY DEF Evicting
<1>2. Len(store) \in Nat /\ Len(store') \in Nat /\ Cardinality(Evicting) \in Nat
    BY FS_CardinalityType DEF StoreInv, Dict
<1>3. Dict(store)'
    BY DictNext
<1> QED BY <1>1, <1>2, <1>3, GateAssumption DEF StoreInv

\* A thread that leaves the eviction does so where the store is within its cap.
LEMMA StoreLeave ==
    ASSUME StoreInv, NEW t \in Thread, Len(store) <= MaxAudit, UNCHANGED store,
           Evicting' = Evicting \ {t}
    PROVE  StoreInv'
<1>1. Len(store) \in Nat /\ Dict(store') /\ Dict(store)'
  <2>1. Len(store) \in Nat /\ Dict(store')
    BY DEF StoreInv, Dict
  <2> QED BY <2>1, DictNext
<1>2. IsFiniteSet(Evicting \ {t}) /\ Cardinality(Evicting \ {t}) \in Nat
    BY FS_RemoveElement, FS_CardinalityType DEF StoreInv
<1> QED BY <1>1, <1>2, GateAssumption DEF StoreInv

\* The races of check, move_to_end, assignment and eviction keep the store sound.
LEMMA StoreStep ==
    ASSUME HeldObeys, StoreInv, [Next]_vars
    PROVE  StoreInv'
<1>0. /\ Dict(store) /\ Len(store) \in Nat
      /\ pc \in [Thread -> {"idle", "check", "touch", "insert", "evict", "pop", "decided"}]
    BY DEF HeldObeys, Held, StoreInv, Dict
<1>1. ASSUME NEW t \in Thread, NEW c \in Calls, Evaluate(t, c) \/ FailClosed(t, c)
      PROVE  StoreInv'
  <2>1. UNCHANGED store /\ pc[t] = "idle"
    BY <1>1 DEF Evaluate, FailClosed
  <2>2. /\ pc'[t] \in {"check", "decided"}
        /\ \A u \in Thread : u # t => pc'[u] = pc[u]
    BY <1>0, <1>1 DEF Evaluate, FailClosed, Goto
  <2> QED BY <1>0, <2>1, <2>2, StoreFrame
<1>2. ASSUME NEW t \in Thread, Check(t) \/ Done(t)
      PROVE  StoreInv'
  <2>1. UNCHANGED store /\ pc[t] \in {"check", "decided"}
    BY <1>2 DEF Check, Done
  <2>2. /\ pc'[t] \in {"touch", "insert", "idle"}
        /\ \A u \in Thread : u # t => pc'[u] = pc[u]
    BY <1>0, <1>2 DEF Check, Done, Goto
  <2> QED BY <1>0, <2>1, <2>2, StoreFrame
<1>3. ASSUME NEW t \in Thread, NEW target \in {"WAIT", "BLOCK"}, Review(t, target)
      PROVE  StoreInv'
  <2>1. UNCHANGED <<store, pc>>
    BY <1>3 DEF Review
  <2> QED BY <1>0, <2>1, StoreFrame
<1>4. ASSUME NEW t \in Thread, Touch(t)
      PROVE  StoreInv'
  <2>1. /\ pc[t] = "touch" /\ pc'[t] \in {"insert", "decided"}
        /\ \A u \in Thread : u # t => pc'[u] = pc[u]
    BY <1>0, <1>4 DEF Touch, Goto
  <2>2. Dict(store') /\ Len(store') = Len(store)
    <3>1. CASE Mine(t) \in Stored
      <4>1. PICK i \in 1..Len(store) : store' = Moved(store, i)
        BY <1>4, <3>1, PositionOf DEF Touch, Moved
      <4> QED BY <1>0, <4>1, TouchDict
    <3>2. CASE Mine(t) \notin Stored
      BY <1>0, <1>4, <3>2 DEF Touch
    <3> QED BY <3>1, <3>2
  <2> QED BY <1>0, <2>1, <2>2, StoreFrame
<1>5. ASSUME NEW t \in Thread, Insert(t)
      PROVE  StoreInv'
  <2>1. /\ pc[t] = "insert" /\ pc'[t] = "evict"
        /\ \A u \in Thread : u # t => pc'[u] = pc[u]
    BY <1>0, <1>5 DEF Insert, Goto
  <2>2. PICK e : e = Snapshot(decision[t])
    OBVIOUS
  <2>3. e \in Entry /\ e.id = Mine(t) /\ e.outcome = Policy(e.call)
    <3>1. decision[t] \in DecisionType /\ decision[t].outcome = Policy(decision[t].call)
      BY <2>1 DEF HeldObeys, Held, Obeys
    <3>2. /\ e.id = AuditId(decision[t].call) /\ e.call = decision[t].call
          /\ e.outcome = decision[t].outcome
      BY <2>2 DEF Snapshot
    <3>3. e \in Entry
      BY <2>2, <3>1 DEF Snapshot, Entry, DecisionType
    <3> QED BY <3>1, <3>2, <3>3 DEF Mine
  <2>4. Dict(store') /\ Len(store') <= Len(store) + 1
    <3>1. CASE Mine(t) \in Stored
      <4>1. PICK i \in 1..Len(store) :
               store[i].id = Mine(t) /\ store' = ReplaceAt(store, i, e)
        BY <1>5, <2>2, <3>1, PositionOf DEF Insert
      <4>2. Dict(store') /\ Len(store') = Len(store)
        BY <1>0, <2>3, <4>1, ReplaceDict
      <4> QED BY <1>0, <4>2
    <3>2. CASE Mine(t) \notin Stored
      <4>1. store' = Append(store, e) /\ \A i \in 1..Len(store) : store[i].id # e.id
        BY <1>5, <2>2, <2>3, <3>2 DEF Insert, Stored
      <4>2. Dict(store') /\ Len(store') = Len(store) + 1
        BY <1>0, <2>3, <4>1, AppendDict
      <4> QED BY <1>0, <4>2
    <3> QED BY <3>1, <3>2
  <2>5. Evicting' = Evicting \cup {t} /\ t \notin Evicting
    BY <2>1 DEF Evicting
  <2>6. /\ IsFiniteSet(Evicting') /\ Cardinality(Evicting) \in Nat
        /\ Cardinality(Evicting') = Cardinality(Evicting) + 1
    BY <2>5, FS_AddElement, FS_CardinalityType DEF StoreInv
  <2>7. Len(store') \in Nat /\ Dict(store)'
    <3>1. Len(store') \in Nat
      BY <2>4 DEF Dict
    <3> QED BY <2>4, <3>1, DictNext
  <2> QED BY <1>0, <2>4, <2>6, <2>7, GateAssumption DEF StoreInv
<1>6. ASSUME NEW t \in Thread, Evict(t)
      PROVE  StoreInv'
  <2>1. UNCHANGED store /\ pc[t] = "evict" /\ \A u \in Thread : u # t => pc'[u] = pc[u]
    BY <1>0, <1>6 DEF Evict, Goto
  <2>2. CASE Len(store) > MaxAudit
    <3>1. pc'[t] = "pop"
      BY <1>0, <1>6, <2>2 DEF Evict, Goto
    <3> QED BY <1>0, <2>1, <3>1, StoreFrame
  <2>3. CASE ~(Len(store) > MaxAudit)
    <3>1. pc'[t] = "decided"
      BY <1>0, <1>6, <2>3 DEF Evict, Goto
    <3>2. Evicting' = Evicting \ {t}
      BY <2>1, <3>1 DEF Evicting
    <3>3. Len(store) <= MaxAudit
      BY <1>0, <2>3, GateAssumption
    <3> QED BY <2>1, <3>2, <3>3, StoreLeave
  <2> QED BY <2>2, <2>3
<1>7. ASSUME NEW t \in Thread, Pop(t)
      PROVE  StoreInv'
  <2>1. pc[t] = "pop" /\ \A u \in Thread : u # t => pc'[u] = pc[u]
    BY <1>0, <1>7 DEF Pop, Goto
  <2>2. CASE store = << >>
    <3>1. pc'[t] = "decided" /\ UNCHANGED store
      BY <1>0, <1>7, <2>2 DEF Pop, Goto
    <3>2. Evicting' = Evicting \ {t}
      BY <2>1, <3>1 DEF Evicting
    <3>3. Len(store) <= MaxAudit
      BY <2>2, GateAssumption
    <3> QED BY <3>1, <3>2, <3>3, StoreLeave
  <2>3. CASE store # << >>
    <3>1. pc'[t] = "evict" /\ store' = Tail(store)
      BY <1>0, <1>7, <2>3 DEF Pop, Goto
    <3>2. Dict(store') /\ Len(store') = Len(store) - 1
      BY <1>0, <2>3, <3>1, PopDict
    <3>3. Len(store') <= Len(store)
      BY <1>0, <3>2
    <3> QED BY <2>1, <3>1, <3>2, <3>3, StoreFrame
  <2> QED BY <2>2, <2>3
<1>8. CASE UNCHANGED vars
  <2>1. UNCHANGED <<store, pc>>
    BY <1>8 DEF vars
  <2> QED BY <1>0, <2>1, StoreFrame
<1> QED BY <1>1, <1>2, <1>3, <1>4, <1>5, <1>6, <1>7, <1>8 DEF Next

\* Both invariants hold in every reachable state.
LEMMA GateInductive == Spec => [](HeldObeys /\ StoreInv)
<1>1. Init => StoreInv
  <2> SUFFICES ASSUME Init PROVE StoreInv
    OBVIOUS
  <2>1. Evicting = {} /\ store = << >>
    BY DEF Init, Evicting
  <2>2. Dict(store)
    BY <2>1 DEF Dict
  <2> QED BY <2>1, <2>2, FS_EmptySet, GateAssumption DEF StoreInv
<1>2. HeldObeys /\ StoreInv /\ [Next]_vars => (HeldObeys /\ StoreInv)'
    BY HeldObeysNext, StoreStep
<1> QED BY <1>1, <1>2, HeldObeysInit, PTL DEF Spec

\* However many threads evaluate and review, a thread holds a decision exactly while it is in
\* a call, and every decision and snapshot has its type.
THEOREM GateTypes == Spec => []TypeOK
<1>1. HeldObeys /\ StoreInv => TypeOK
  <2> SUFFICES ASSUME HeldObeys, StoreInv PROVE TypeOK
    OBVIOUS
  <2>1. \A i \in 1..Len(store) : store[i].call \in Calls /\ store[i].outcome \in Outcome
    <3>1. \A i \in 1..Len(store) : store[i] \in Entry
      BY DEF StoreInv, Dict
    <3> QED BY <3>1 DEF Entry
  <2>2. /\ DOMAIN decision = {t \in Thread : pc[t] # "idle"}
        /\ \A t \in DOMAIN decision : decision[t] \in DecisionType
    BY DEF HeldObeys, Held
  <2> QED BY <2>1, <2>2 DEF HeldObeys, Held, TypeOK, DecisionType
<1> QED BY <1>1, GateInductive, PTL

\* The unlocked audit store, for any number of threads and any cap: its ids stay distinct, its
\* snapshots replay to the outcome they hold, and it exceeds MAX_AUDIT_ENTRIES by no more
\* than the threads that are about to evict.
THEOREM StoreSafe == Spec => []StoreSound
<1>1. StoreInv => StoreSound
    BY DEF StoreInv, Dict, StoreSound, Evicting
<1> QED BY <1>1, GateInductive, PTL

-----------------------------------------------------------------------------
(***************************************************************************)
(* The brains before the gate (BrainChain): outputs that keep their        *)
(* contract, and what an entry rests on.                                   *)
(***************************************************************************)
Top == {"A+", "A"}
Harmless(b) == b.flags \subseteq {"warning"}

\* Of a good NewsMind output whose flags pass the gate, what there was to know.
NewsInv ==
    outputs["news"].grade \in Top /\ Harmless(outputs["news"]) =>
        basis.quiet /\ (mode = "live" => basis.answered /\ basis.confirmed /\ basis.fresh)

MarketInv == outputs["market"].grade # "BLOCK" => ~OffSession

\* A chart of grade A stands on two brains of grade A and is not against the trend.
ChartInv ==
    outputs["chart"].grade \in Top =>
        /\ outputs["news"].grade \in Top /\ outputs["market"].grade \in Top
        /\ outputs["chart"].decision = "BUY" => Leaning # "short"
        /\ outputs["chart"].decision = "SELL" => Leaning # "long"

\* Which brains have spoken.
SpokenInv ==
    /\ stage \in {"market", "chart", "gate"} => NewsInv
    /\ stage \in {"chart", "gate"} => MarketInv
    /\ stage = "gate" => ChartInv

ChainInv ==
    /\ SpokenInv /\ EnterEarned
    /\ stage # "idle" => verdict = "PASS"
    /\ stage \in {"news", "market"} => outputs["market"] = None
    /\ stage \in {"news", "market", "chart"} => outputs["chart"] = None

\* BrainOutput's checks, on what a brain builds.
LEMMA MadeProperties ==
    ASSUME NEW d \in Decision, NEW g \in Grade, NEW good \in BOOLEAN, NEW flags \in SUBSET FlagClass,
           NEW b, b = Made(d, g, good, flags), g \in Top => good, g = "BLOCK" => d = "BLOCK"
    PROVE  /\ b \in Output /\ Sound(b)
           /\ b.grade = g /\ b.decision = d /\ b.flags = flags
<1>1. (g = "BLOCK") \in BOOLEAN
  OBVIOUS
<1>2. b \in Output
  BY <1>1 DEF Made, Output
<1> QED BY <1>2 DEF Made, Sound, Top

LEMMA ClosedProperties ==
    ClosedOutput \in Output /\ Sound(ClosedOutput) /\ ClosedOutput.grade = "BLOCK"
<1>1. "BLOCK" \in Decision /\ "BLOCK" \in Grade /\ FALSE \in BOOLEAN
      /\ {"unknown"} \in SUBSET FlagClass /\ "BLOCK" \notin Top
  BY DEF Decision, Grade, FlagClass, Top
<1>2. PICK flags \in SUBSET FlagClass, q \in BOOLEAN : flags = {"unknown"} /\ q = FALSE
  BY <1>1, Zenon
<1>3. ClosedOutput = Made("BLOCK", "BLOCK", q, flags)
  BY <1>2, Zenon DEF ClosedOutput
<1> QED BY <1>1, <1>3, MadeProperties

LEMMA UnlistedFlags == \A raised : Unlisted(raised) \in SUBSET FlagClass
BY DEF Unlisted, FlagClass

\* The order of the grades.
LEMMA RankValues ==
    /\ GradeRank("BLOCK") = 1 /\ GradeRank("C") = 2 /\ GradeRank("B") = 3
    /\ GradeRank("A") = 4 /\ GradeRank("A+") = 5
<1>1. /\ Ladder5[1] = "BLOCK" /\ Ladder5[2] = "C" /\ Ladder5[3] = "B" /\ Ladder5[4] = "A"
      /\ Ladder5[5] = "A+"
  BY DEF Ladder5
<1>2. \A i \in 1..5 : i = 1 \/ i = 2 \/ i = 3 \/ i = 4 \/ i = 5
  BY SMT
<1>3. 1 \in 1..5 /\ 2 \in 1..5 /\ 3 \in 1..5 /\ 4 \in 1..5 /\ 5 \in 1..5
  BY SMT
<1> QED BY <1>1, <1>2, <1>3 DEF GradeRank

\* _cap gives the lowest of the grade and its caps.
LEMMA CappedProperties ==
    ASSUME NEW g \in Grade, NEW caps \in SUBSET Grade
    PROVE  /\ Capped(g, caps) \in caps \cup {g} /\ Capped(g, caps) \in Grade
           /\ Capped(g, caps) \in Top => g \in Top /\ caps \subseteq Top
<1> DEFINE S == caps \cup {g}
           Lowest(x) == \A h \in S : GradeRank(x) <= GradeRank(h)
<1>1. S \subseteq Grade /\ g \in S
  OBVIOUS
<1>2. \A h \in S : h = "BLOCK" \/ h = "C" \/ h = "B" \/ h = "A" \/ h = "A+"
  BY <1>1 DEF Grade
<1>3. \E x \in S : Lowest(x)
  <2>1. "BLOCK" \in S => Lowest("BLOCK")
    BY <1>2, RankValues
  <2>2. "BLOCK" \notin S /\ "C" \in S => Lowest("C")
    BY <1>2, RankValues
  <2>3. "BLOCK" \notin S /\ "C" \notin S /\ "B" \in S => Lowest("B")
    BY <1>2, RankValues
  <2>4. "BLOCK" \notin S /\ "C" \notin S /\ "B" \notin S /\ "A" \in S => Lowest("A")
    BY <1>2, RankValues
  <2>5. "BLOCK" \notin S /\ "C" \notin S /\ "B" \notin S /\ "A" \notin S => Lowest("A+")
    BY <1>2, RankValues
  <2> HIDE DEF S, Lowest
  <2>6. g = "BLOCK" \/ g = "C" \/ g = "B" \/ g = "A" \/ g = "A+"
    BY <1>1, <1>2
  <2> QED BY <1>1, <2>1, <2>2, <2>3, <2>4, <2>5, <2>6, Zenon
<1>4. Capped(g, caps) \in S /\ Lowest(Capped(g, caps))
  BY <1>3, Zenon DEF Capped
<1>5. Capped(g, caps) \in Top => \A h \in S : h \in Top
  <2>1. PICK x : x = Capped(g, caps)
    OBVIOUS
  <2>2. x \in Top => GradeRank(x) >= 4
    BY RankValues DEF Top
  <2>3. \A h \in S : h \notin Top => GradeRank(h) <= 3
    BY <1>2, RankValues DEF Top
  <2>4. \A h \in S : GradeRank(x) <= GradeRank(h)
    BY <1>4, <2>1
  <2>5. \A h \in S : GradeRank(h) \in Nat
    BY <1>2, RankValues
  <2> QED BY <1>4, <2>1, <2>2, <2>3, <2>4, <2>5
<1> QED BY <1>1, <1>4, <1>5

LEMMA SteppedGrade == \A n \in Nat : SteppedDown(n) \in {"A+", "A", "B", "C"}
<1> SUFFICES ASSUME NEW n \in Nat PROVE SteppedDown(n) \in {"A+", "A", "B", "C"}
  OBVIOUS
<1>1. n >= 3 \/ n = 0 \/ n = 1 \/ n = 2
  OBVIOUS
<1>2. /\ Ladder5[5] = "A+" /\ Ladder5[4] = "A" /\ Ladder5[3] = "B"
  BY DEF Ladder5
<1>3. CASE n >= 3
  BY <1>3 DEF SteppedDown
<1>4. CASE n = 0 \/ n = 1 \/ n = 2
  <2>1. ~(n >= 3) /\ (5 - n = 5 \/ 5 - n = 4 \/ 5 - n = 3)
    BY <1>4
  <2> QED BY <1>2, <2>1 DEF SteppedDown
<1> QED BY <1>1, <1>3, <1>4

\* A direction is called with an A only, and a BLOCK with a BLOCK.
LEMMA DirectionProperties ==
    ASSUME NEW g \in Grade, NEW up, NEW down
    PROVE  /\ DirectionFor(g, up, down) \in Decision
           /\ g = "BLOCK" => DirectionFor(g, up, down) = "BLOCK"
           /\ DirectionFor(g, up, down) = "BUY" => up
           /\ DirectionFor(g, up, down) = "SELL" => down
BY DEF DirectionFor, Decision, Grade

-----------------------------------------------------------------------------
\* A NewsMind that read the feeds: a good grade with harmless flags needs every source.
LEMMA NewsProperties ==
    ASSUME NEW heard \in [Source -> Response], NEW active \in BOOLEAN, NEW lead \in Leads(heard),
           NEW rumour \in BOOLEAN
    PROVE  LET o == NewsOutput(heard, active, lead, rumour) IN
           /\ o \in Output /\ Sound(o)
           /\ o.grade \in Top /\ Harmless(o) =>
                 /\ ~active /\ OkSources(heard) = Source /\ Confirmations(heard) >= 2
                 /\ \E i \in Relevant(heard) : i.age <= FreshAge
<1> DEFINE o == NewsOutput(heard, active, lead, rumour)
           quality == NewsQuality(heard)
           chase == \E i \in lead : Chase(heard, i, rumour)
           dubious == chase \/ \E i \in lead : i.source \in Unverified
           flags == NewsFlags(heard, active, dubious)
           g == NewsGrade(heard, lead, chase)
           raised == \E s \in Source : heard[s].status = "raises"
<1>1. o = IF raised THEN ClosedOutput
          ELSE IF quality = "missing" \/ active
               THEN Made("BLOCK", "BLOCK", quality = "good", flags)
          ELSE IF quality # "good" THEN Made("WAIT", "C", FALSE, flags)
          ELSE Made("WAIT", g, TRUE, flags)
  BY DEF NewsOutput
<1>2. /\ flags \in SUBSET FlagClass
      /\ flags \subseteq {"warning"} => OkSources(heard) = Source
  BY DEF NewsFlags, Unlisted, FlagClass
<1>3. /\ g \in {"A", "B", "C"}
      /\ g \in Top => Confirmations(heard) >= 2 /\ \E i \in lead : i.age <= FreshAge
  <2>1. Confirmations(heard) \in Nat
    <3>1. IsFiniteSet({s \in Source : SourceType[s] \in StrongType
                                       /\ \E i \in Relevant(heard) : i.source = s})
      BY ChainAssumption, FS_Subset
    <3> QED BY <3>1, FS_CardinalityType DEF Confirmations
  <2> QED BY <2>1 DEF NewsGrade, Top
<1>4. lead \subseteq Relevant(heard)
  BY DEF Leads
<1>5. /\ (quality = "good") \in BOOLEAN /\ g \in Grade
      /\ "BLOCK" \in Decision /\ "WAIT" \in Decision /\ "BLOCK" \in Grade /\ "C" \in Grade
      /\ "BLOCK" \notin Top /\ "C" \notin Top /\ g # "BLOCK"
  BY <1>3 DEF Decision, Grade, Top
<1> HIDE DEF o, quality, flags, g, raised
<1>6. CASE raised
  <2>1. o = ClosedOutput
    BY <1>1, <1>6
  <2> QED BY <1>5, <2>1, ClosedProperties DEF o
<1>7. CASE ~raised /\ (quality = "missing" \/ active)
  <2>1. PICK q \in BOOLEAN : q = (quality = "good")
    BY <1>5, Zenon
  <2>2. o = Made("BLOCK", "BLOCK", q, flags)
    BY <1>1, <1>7, <2>1, Zenon
  <2>3. o \in Output /\ Sound(o) /\ o.grade = "BLOCK"
    BY <1>2, <1>5, <2>2, MadeProperties
  <2> QED BY <1>5, <2>3 DEF o
<1>8. CASE ~raised /\ ~(quality = "missing" \/ active)
  <2>1. PICK d \in Decision, k \in Grade, q \in BOOLEAN :
            d = "WAIT" /\ k = (IF quality # "good" THEN "C" ELSE g) /\ q = (quality = "good")
    BY <1>5, Zenon
  <2>2. o = Made(d, k, q, flags)
    BY <1>1, <1>8, <2>1, Zenon
  <2>3. k # "BLOCK" /\ (k \in Top => q /\ k = g)
    BY <1>5, <2>1
  <2>4. o \in Output /\ Sound(o) /\ o.grade = k /\ o.flags = flags
    BY <1>2, <2>2, <2>3, MadeProperties
  <2>5. k \in Top /\ Harmless(o) =>
            /\ OkSources(heard) = Source /\ Confirmations(heard) >= 2
            /\ \E i \in Relevant(heard) : i.age <= FreshAge
    BY <1>2, <1>3, <1>4, <2>3, <2>4 DEF Harmless
  <2> QED BY <1>8, <2>4, <2>5 DEF o
<1> QED BY <1>6, <1>7, <1>8

LEMMA BasisProperties ==
    ASSUME NEW heard, NEW active \in BOOLEAN
    PROVE  /\ BasisOf(heard, active) \in Basis /\ NoBasis \in Basis
           /\ BasisOf(heard, active).answered <=> OkSources(heard) = Source
           /\ BasisOf(heard, active).confirmed <=> Confirmations(heard) >= 2
           /\ BasisOf(heard, active).fresh <=> \E i \in Relevant(heard) : i.age <= FreshAge
           /\ BasisOf(heard, active).quiet <=> ~active
<1>1. PICK a \in BOOLEAN : a = (OkSources(heard) = Source)
  BY Zenon
<1>2. PICK c \in BOOLEAN : c = (Confirmations(heard) >= 2)
  <2>1. (Confirmations(heard) >= 2) \in BOOLEAN
    OBVIOUS
  <2> QED BY <2>1, Zenon
<1>3. PICK f \in BOOLEAN : f = (\E i \in Relevant(heard) : i.age <= FreshAge)
  BY Zenon
<1>4. PICK q \in BOOLEAN : q = (~active)
  BY Zenon
<1>5. BasisOf(heard, active) = [answered |-> a, confirmed |-> c, fresh |-> f, quiet |-> q]
  BY <1>1, <1>2, <1>3, <1>4, Zenon DEF BasisOf
<1>6. /\ BasisOf(heard, active) \in Basis
      /\ BasisOf(heard, active).answered = a /\ BasisOf(heard, active).confirmed = c
      /\ BasisOf(heard, active).fresh = f /\ BasisOf(heard, active).quiet = q
  BY <1>5 DEF Basis
<1>7. NoBasis \in Basis
  BY DEF NoBasis, Basis
<1> QED BY <1>1, <1>2, <1>3, <1>4, <1>6, <1>7, Zenon

\* MarketMind: a grade that does not block was given inside its hours; an A on good data only.
LEMMA MarketProperties ==
    ASSUME NEW r \in MarketReading, NEW news \in Output
    PROVE  LET o == MarketOutput(r, news) IN
           /\ o \in Output /\ Sound(o)
           /\ o.grade # "BLOCK" => ~OffSession
<1> DEFINE context == NewsContext(news)
           g == MarketGrade(r, context)
           d == DirectionFor(g, r.trend = "strong_up", r.trend = "strong_down")
           flags == Unlisted(\/ r.quality # "good" \/ r.contradiction # "none" \/ r.dangerous
                             \/ OffSession \/ context # "aligned")
           steps == r.slips + (IF r.trend \in {"strong_up", "strong_down"} THEN 0 ELSE 1)
                            + (IF context = "warning" THEN 1 ELSE 0)
           caps == MarketCaps(r, context)
<1>1. MarketOutput(r, news) = Made(d, g, r.quality = "good", flags)
  BY DEF MarketOutput
<1>2. caps \in SUBSET Grade /\ (r.quality # "good" => "B" \in caps) /\ "BLOCK" \notin caps
  BY DEF MarketCaps, Grade
<1>3. steps \in Nat
  BY DEF MarketReading
<1>4. SteppedDown(steps) \in Grade /\ SteppedDown(steps) # "BLOCK"
  BY <1>3, SteppedGrade DEF Grade
<1>5. \/ g = "BLOCK"
      \/ g = Capped(SteppedDown(steps), caps) /\ ~OffSession
  BY DEF MarketGrade
<1> HIDE DEF caps, steps
<1>6. /\ g \in Grade /\ (g # "BLOCK" => ~OffSession)
      /\ (g \in Top => r.quality = "good")
  <2>1. CASE g = "BLOCK"
    BY <2>1 DEF Grade, Top
  <2>2. CASE g = Capped(SteppedDown(steps), caps) /\ ~OffSession
    <3>1. g \in Grade /\ (g \in Top => caps \subseteq Top)
      BY <1>2, <1>4, <2>2, CappedProperties
    <3>2. "B" \notin Top
      BY DEF Top
    <3> QED BY <1>2, <2>2, <3>1, <3>2
  <2> QED BY <1>5, <2>1, <2>2
<1>7. d \in Decision /\ (g = "BLOCK" => d = "BLOCK")
  BY <1>6, DirectionProperties
<1>8. flags \in SUBSET FlagClass /\ (r.quality = "good") \in BOOLEAN
  BY UnlistedFlags
<1> HIDE DEF g, d, flags
<1>9. PICK q \in BOOLEAN : q = (r.quality = "good")
  BY <1>8, Zenon
<1>10. MarketOutput(r, news) = Made(d, g, q, flags)
  BY <1>1, <1>9, Zenon
<1>11. /\ MarketOutput(r, news) \in Output /\ Sound(MarketOutput(r, news))
       /\ MarketOutput(r, news).grade = g
  <2>1. g \in Top => q
    BY <1>6, <1>9
  <2> QED BY <1>6, <1>7, <1>8, <1>10, <2>1, MadeProperties
<1> QED BY <1>6, <1>11

\* ChartMind: an A stands on two brains of grade A, on good data, and not against the trend.
LEMMA ChartProperties ==
    ASSUME NEW r \in ChartReading, outputs \in Trio, r.quality # "bad"
    PROVE  LET o == ChartOutput(r) IN
           /\ o \in Output /\ Sound(o)
           /\ o.grade \in Top =>
                 /\ outputs["news"].grade \in Top /\ outputs["market"].grade \in Top
                 /\ o.decision = "BUY" => Leaning # "short"
                 /\ o.decision = "SELL" => Leaning # "long"
<1>0. CASE r.promoted
  <2>1. ChartOutput(r) = ClosedOutput
    BY <1>0 DEF ChartOutput
  <2>2. "BLOCK" \notin Top
    BY DEF Top
  <2> QED BY <2>1, <2>2, ClosedProperties
<1> SUFFICES ASSUME ~r.promoted
             PROVE  LET o == ChartOutput(r) IN
                    /\ o \in Output /\ Sound(o)
                    /\ o.grade \in Top =>
                          /\ outputs["news"].grade \in Top /\ outputs["market"].grade \in Top
                          /\ o.decision = "BUY" => Leaning # "short"
                          /\ o.decision = "SELL" => Leaning # "long"
  BY <1>0
<1> DEFINE blocked == IsBlocking(outputs["news"]) \/ IsBlocking(outputs["market"])
           g == ChartGrade(r, blocked)
           d == DirectionFor(g, r.side = "long", r.side = "short")
           waits == r.flat /\ d \in {"BUY", "SELL"}
           flags == Unlisted(\/ r.quality # "good" \/ r.swept \/ r.dangerous \/ blocked
                             \/ UpstreamCaps(r.side) # {})
           caps == UpstreamCaps(r.side) \cup (IF r.quality = "stale" THEN {"B"} ELSE {})
           rung == Rung(r.score + (IF r.side # "none" /\ r.side = Leaning THEN 1 ELSE 0))
           g1 == IF waits THEN "B" ELSE g
           d1 == IF waits THEN "WAIT" ELSE d
<1>1. ChartOutput(r) = Made(d1, g1, r.quality = "good", flags)
  BY DEF ChartOutput
<1>2. /\ outputs["news"] \in Output /\ outputs["market"] \in Output
      /\ outputs["news"].grade \in Grade /\ outputs["market"].grade \in Grade
  BY DEF Trio, Role, Output
<1>3. /\ caps \in SUBSET Grade
      /\ r.quality # "good" => "B" \in caps
      /\ outputs["news"].grade \in {"B", "C"} => "B" \in caps
      /\ outputs["market"].grade \in {"B", "C"} => outputs["market"].grade \in caps
      /\ Opposed(r.side) => "B" \in caps
  BY DEF UpstreamCaps, Grade, ChartReading
<1>4. rung \in Grade
  BY DEF Rung, Grade
<1>5. g = IF blocked THEN "BLOCK" ELSE Capped(rung, caps)
  BY DEF ChartGrade
<1>6. blocked <=> \/ outputs["news"].block \/ outputs["news"].grade = "BLOCK"
                  \/ outputs["news"].decision = "BLOCK"
                  \/ outputs["market"].block \/ outputs["market"].grade = "BLOCK"
                  \/ outputs["market"].decision = "BLOCK"
  BY DEF IsBlocking
<1>7. Leaning = "short" /\ r.side = "long" => Opposed(r.side)
  BY DEF Opposed
<1>8. Leaning = "long" /\ r.side = "short" => Opposed(r.side)
  BY DEF Opposed
<1>9. flags \in SUBSET FlagClass /\ (r.quality = "good") \in BOOLEAN
  BY UnlistedFlags
<1> HIDE DEF blocked, caps, rung, flags
<1>10. /\ g \in Grade
       /\ g \in Top => ~blocked /\ caps \subseteq Top
  BY <1>3, <1>4, <1>5, CappedProperties DEF Grade, Top
<1> HIDE DEF g
<1>11. /\ d \in Decision /\ (g = "BLOCK" => d = "BLOCK")
       /\ d = "BUY" => r.side = "long"
       /\ d = "SELL" => r.side = "short"
  BY <1>10, DirectionProperties
<1> HIDE DEF d
<1>12. "B" \notin Top /\ "C" \notin Top /\ "B" \in Grade /\ "WAIT" \in Decision
  BY DEF Top, Grade, Decision
<1>13. /\ d1 \in Decision /\ g1 \in Grade /\ (g1 = "BLOCK" => d1 = "BLOCK")
       /\ g1 \in Top => g1 = g /\ d1 = d
  BY <1>10, <1>11, <1>12
<1> HIDE DEF d1, g1
<1>14. g1 \in Top => r.quality = "good"
  BY <1>3, <1>10, <1>12, <1>13
<1>15. /\ ChartOutput(r) \in Output /\ Sound(ChartOutput(r))
       /\ ChartOutput(r).grade = g1 /\ ChartOutput(r).decision = d1
  <2>1. PICK q \in BOOLEAN : q = (r.quality = "good")
    BY <1>9, Zenon
  <2>2. ChartOutput(r) = Made(d1, g1, q, flags)
    BY <1>1, <2>1, Zenon
  <2>3. g1 \in Top => q
    BY <1>14, <2>1
  <2> QED BY <1>9, <1>13, <2>2, <2>3, MadeProperties
<1>16. g1 \in Top => outputs["news"].grade \in Top /\ outputs["market"].grade \in Top
  BY <1>2, <1>3, <1>6, <1>10, <1>12, <1>13 DEF Grade, Top
<1>17. g1 \in Top => /\ d1 = "BUY" => Leaning # "short"
                     /\ d1 = "SELL" => Leaning # "long"
  BY <1>3, <1>7, <1>8, <1>10, <1>11, <1>12, <1>13
<1> QED BY <1>15, <1>16, <1>17

-----------------------------------------------------------------------------
\* A turn replaces one brain's output.
LEMMA TurnProperties ==
    ASSUME outputs \in Trio, NEW r \in Role, NEW o \in Output, outputs' = [outputs EXCEPT ![r] = o]
    PROVE  /\ outputs' \in Trio /\ outputs'[r] = o
           /\ \A q \in Role : q # r => outputs'[q] = outputs[q]
BY DEF Trio

LEMMA NoneProperties == None \in Output
BY DEF None, Output, Decision, Grade, FlagClass

LEMMA ChainStart == ChainInit => ContractKept /\ ChainInv
<1> SUFFICES ASSUME ChainInit PROVE ContractKept /\ ChainInv
  OBVIOUS
<1>1. outputs \in Trio /\ \A r \in Role : outputs[r] = None
  BY NoneProperties DEF ChainInit, Trio
<1>2. call \in [now : Moment, symbol : Symbol]
  BY DEF ChainInit, NoCall, Moment, Symbol
<1>3. ContractKept
  BY <1>1, <1>2, BasisProperties DEF ChainInit, ContractKept, Trend, Answer
<1> QED BY <1>3 DEF ChainInit, ChainInv, SpokenInv, EnterEarned

LEMMA BeginStep == ContractKept /\ ChainInv /\ Begin => (ContractKept /\ ChainInv)'
<1> SUFFICES ASSUME ContractKept, ChainInv, Begin PROVE (ContractKept /\ ChainInv)'
  OBVIOUS
<1>1. outputs' \in Trio /\ \A r \in Role : outputs'[r] = None
  BY NoneProperties DEF Begin, Trio
<1>2. call' \in [now : Moment, symbol : Symbol]
  BY ChainAssumption DEF Begin
<1>3. ContractKept'
  BY <1>1, <1>2, BasisProperties DEF Begin, ContractKept, Trend, Answer
<1>4. (outputs["market"] = None)' /\ (outputs["chart"] = None)'
  BY <1>1 DEF Role
<1> QED BY <1>3, <1>4 DEF Begin, ChainInv, SpokenInv, EnterEarned

\* What both NewsMinds owe: a sound output whose good grade has its basis.
LEMMA NewsTurn ==
    ASSUME ContractKept, ChainInv, stage = "news", NEW o \in Output, Sound(o),
           outputs' = [outputs EXCEPT !["news"] = o], basis' \in Basis,
           stage' = "market", UNCHANGED <<mode, call, trend, verdict>>,
           o.grade \in Top /\ Harmless(o) =>
               /\ basis'.quiet
               /\ mode = "live" => basis'.answered /\ basis'.confirmed /\ basis'.fresh
    PROVE  (ContractKept /\ ChainInv)'
<1>1. /\ outputs' \in Trio /\ outputs'["news"] = o
      /\ outputs'["market"] = None /\ outputs'["chart"] = None
      /\ \A r \in Role : r # "news" => outputs'[r] = outputs[r]
  BY TurnProperties DEF ContractKept, ChainInv, Role
<1>2. ContractKept'
  BY <1>1 DEF ContractKept
<1>3. NewsInv'
  BY <1>1 DEF NewsInv, Harmless
<1> QED BY <1>1, <1>2, <1>3 DEF ChainInv, SpokenInv, EnterEarned

LEMMA LiveNewsStep == ContractKept /\ ChainInv /\ LiveNews => (ContractKept /\ ChainInv)'
<1> SUFFICES ASSUME ContractKept, ChainInv, LiveNews PROVE (ContractKept /\ ChainInv)'
  OBVIOUS
<1>1. PICK heard \in [Source -> Response], active \in Scheduled, rumour \in BOOLEAN :
          /\ \E lead \in Leads(heard) :
                outputs' = [outputs EXCEPT !["news"] = NewsOutput(heard, active, lead, rumour)]
          /\ basis' = BasisOf(heard, active)
  BY DEF LiveNews
<1>2. PICK lead \in Leads(heard) :
          outputs' = [outputs EXCEPT !["news"] = NewsOutput(heard, active, lead, rumour)]
  BY <1>1
<1>3. active \in BOOLEAN
  BY ChainAssumption
<1>4. PICK o : o = NewsOutput(heard, active, lead, rumour)
  OBVIOUS
<1>5. /\ o \in Output /\ Sound(o)
      /\ o.grade \in Top /\ Harmless(o) =>
            /\ ~active /\ OkSources(heard) = Source /\ Confirmations(heard) >= 2
            /\ \E i \in Relevant(heard) : i.age <= FreshAge
  BY <1>3, <1>4, NewsProperties
<1>6. /\ basis' \in Basis
      /\ o.grade \in Top /\ Harmless(o) =>
            basis'.quiet /\ basis'.answered /\ basis'.confirmed /\ basis'.fresh
  BY <1>1, <1>3, <1>5, BasisProperties
<1> QED BY <1>2, <1>4, <1>5, <1>6, NewsTurn DEF LiveNews

LEMMA ReplayNewsStep == ContractKept /\ ChainInv /\ ReplayNews => (ContractKept /\ ChainInv)'
<1> SUFFICES ASSUME ContractKept, ChainInv, ReplayNews PROVE (ContractKept /\ ChainInv)'
  OBVIOUS
<1>1. PICK active \in BOOLEAN :
          /\ outputs' = [outputs EXCEPT !["news"] =
                          IF active THEN Made("BLOCK", "BLOCK", TRUE, {"kill"})
                          ELSE Made("WAIT", "A", TRUE, {})]
          /\ basis' = [NoBasis EXCEPT !.quiet = ~active]
  BY DEF ReplayNews
<1>2. PICK d \in Decision, g \in Grade, good \in BOOLEAN, flags \in SUBSET FlagClass :
          /\ d = IF active THEN "BLOCK" ELSE "WAIT"
          /\ g = IF active THEN "BLOCK" ELSE "A"
          /\ flags = IF active THEN {"kill"} ELSE {}
          /\ good = TRUE
  <2>1. /\ (IF active THEN "BLOCK" ELSE "WAIT") \in Decision
        /\ (IF active THEN "BLOCK" ELSE "A") \in Grade
        /\ (IF active THEN {"kill"} ELSE {}) \in SUBSET FlagClass
        /\ TRUE \in BOOLEAN
    BY DEF Decision, Grade, FlagClass
  <2> QED BY <2>1, Zenon
<1>3. PICK o : o = Made(d, g, good, flags)
  OBVIOUS
<1>4. outputs' = [outputs EXCEPT !["news"] = o]
  BY <1>1, <1>2, <1>3, Zenon
<1>5. o \in Output /\ Sound(o) /\ o.grade = g
  <2>1. (g \in Top => good) /\ (g = "BLOCK" => d = "BLOCK")
    BY <1>2 DEF Top
  <2> QED BY <1>3, <2>1, MadeProperties
<1>6. PICK quiet \in BOOLEAN : quiet = ~active
  BY Zenon
<1>7. basis' = [NoBasis EXCEPT !.quiet = quiet]
  BY <1>1, <1>6, Zenon
<1>8. basis' \in Basis /\ basis'.quiet = quiet
  BY <1>7 DEF NoBasis, Basis
<1>9. g \in Top => quiet
  BY <1>2, <1>6 DEF Top
<1> QED BY <1>4, <1>5, <1>8, <1>9, NewsTurn DEF ReplayNews

LEMMA MarketStep == ContractKept /\ ChainInv /\ MarketMind => (ContractKept /\ ChainInv)'
<1> SUFFICES ASSUME ContractKept, ChainInv, MarketMind PROVE (ContractKept /\ ChainInv)'
  OBVIOUS
<1>1. outputs \in Trio /\ outputs["news"] \in Output
  BY DEF ContractKept, Trio, Role
<1>2. PICK r \in MarketReading :
          /\ outputs' = [outputs EXCEPT !["market"] =
                          IF r.raises THEN ClosedOutput ELSE MarketOutput(r, outputs["news"])]
          /\ trend' = IF r.raises THEN "none" ELSE r.trend
  BY DEF MarketMind
<1>3. PICK o : o = IF r.raises THEN ClosedOutput ELSE MarketOutput(r, outputs["news"])
  OBVIOUS
<1>4. o \in Output /\ Sound(o) /\ (o.grade # "BLOCK" => ~OffSession)
  BY <1>1, <1>3, ClosedProperties, MarketProperties
<1>5. /\ outputs' \in Trio /\ outputs'["market"] = o
      /\ outputs'["news"] = outputs["news"] /\ outputs'["chart"] = outputs["chart"]
      /\ \A q \in Role : q # "market" => outputs'[q] = outputs[q]
  BY <1>1, <1>2, <1>3, <1>4, TurnProperties DEF Role
<1>6. trend' \in Trend
  BY <1>2 DEF MarketReading, Trend
<1>7. ContractKept'
  BY <1>4, <1>5, <1>6 DEF MarketMind, ContractKept
<1>8. NewsInv' /\ MarketInv'
  BY <1>4, <1>5 DEF MarketMind, ChainInv, SpokenInv, NewsInv, MarketInv, Harmless, OffSession
<1> QED BY <1>5, <1>7, <1>8 DEF MarketMind, ChainInv, SpokenInv, EnterEarned

LEMMA ChartStep == ContractKept /\ ChainInv /\ ChartMind => (ContractKept /\ ChainInv)'
<1> SUFFICES ASSUME ContractKept, ChainInv, ChartMind PROVE (ContractKept /\ ChainInv)'
  OBVIOUS
<1>1. outputs \in Trio
  BY DEF ContractKept
<1>2. PICK r \in ChartReading :
          outputs' = [outputs EXCEPT !["chart"] =
                        IF r.raises \/ r.quality = "bad" THEN ClosedOutput ELSE ChartOutput(r)]
  BY DEF ChartMind
<1>3. PICK o : o = IF r.raises \/ r.quality = "bad" THEN ClosedOutput ELSE ChartOutput(r)
  OBVIOUS
<1>4. /\ o \in Output /\ Sound(o)
      /\ o.grade \in Top =>
            /\ outputs["news"].grade \in Top /\ outputs["market"].grade \in Top
            /\ o.decision = "BUY" => Leaning # "short"
            /\ o.decision = "SELL" => Leaning # "long"
  <2>1. "BLOCK" \notin Top
    BY DEF Top
  <2> QED BY <1>1, <1>3, <2>1, ClosedProperties, ChartProperties
<1>5. /\ outputs' \in Trio /\ outputs'["chart"] = o
      /\ outputs'["news"] = outputs["news"] /\ outputs'["market"] = outputs["market"]
      /\ \A q \in Role : q # "chart" => outputs'[q] = outputs[q]
  BY <1>1, <1>2, <1>3, <1>4, TurnProperties DEF Role
<1>6. ContractKept'
  BY <1>4, <1>5 DEF ChartMind, ContractKept
<1>7. NewsInv' /\ MarketInv'
  BY <1>5 DEF ChartMind, ChainInv, SpokenInv, NewsInv, MarketInv, Harmless, OffSession
<1>8. ChartInv'
  BY <1>4, <1>5 DEF ChartMind, ChartInv, Leaning
<1> QED BY <1>6, <1>7, <1>8 DEF ChartMind, ChainInv, SpokenInv, EnterEarned

\* The gate: by LadderIsPolicy an entry is Clear and Agreed, and the brains vouch for the rest.
LEMMA GateStep == ContractKept /\ ChainInv /\ Gate => (ContractKept /\ ChainInv)'
<1> SUFFICES ASSUME ContractKept, ChainInv, Gate PROVE (ContractKept /\ ChainInv)'
  OBVIOUS
<1> DEFINE c == [trio |-> outputs, now |-> call.now, symbol |-> call.symbol]
<1>1. c \in Call /\ c.trio = outputs
  BY DEF ContractKept, Call
<1> HIDE DEF c
<1>2. verdict' = Policy(c)
  BY <1>1, LadderIsPolicy DEF Gate, c
<1>3. verdict' \in Answer /\ (verdict' = "ENTER_CANDIDATE" => Clear(c))
  BY <1>2 DEF Policy, Answer
<1>4. ContractKept'
  BY <1>3 DEF Gate, ContractKept
<1>5. EnterEarned'
  <2> SUFFICES ASSUME verdict' = "ENTER_CANDIDATE"
               PROVE  /\ \A r \in Role : outputs[r].grade \in {"A+", "A"} /\ outputs[r].good
                      /\ basis.quiet /\ ~OffSession
                      /\ outputs["chart"].decision = "BUY" => Leaning # "short"
                      /\ outputs["chart"].decision = "SELL" => Leaning # "long"
                      /\ mode = "live" => basis.answered /\ basis.confirmed /\ basis.fresh
    BY DEF Gate, EnterEarned, OffSession, Leaning
  <2>1. /\ \A r \in Role : Sound(outputs[r]) /\ outputs[r].flags \subseteq {"warning"}
        /\ outputs["chart"].grade \in Top
    BY <1>1, <1>3 DEF Clear, Top
  <2>2. NewsInv /\ MarketInv /\ ChartInv
    BY DEF Gate, ChainInv, SpokenInv
  <2>3. outputs["news"].grade \in Top /\ outputs["market"].grade \in Top
    BY <2>1, <2>2 DEF ChartInv
  <2>4. \A r \in Role : outputs[r].grade \in {"A+", "A"} /\ outputs[r].good
    BY <2>1, <2>3 DEF Role, Top, Sound
  <2>5. basis.quiet /\ (mode = "live" => basis.answered /\ basis.confirmed /\ basis.fresh)
    BY <2>1, <2>2, <2>3 DEF NewsInv, Harmless, Role
  <2>6. ~OffSession
    BY <2>2, <2>3 DEF MarketInv, Top
  <2> QED BY <2>1, <2>2, <2>4, <2>5, <2>6 DEF ChartInv
<1> QED BY <1>4, <1>5 DEF Gate, ChainInv, SpokenInv

\* The chain's inductive invariant: what each brain's output is worth, from its turn until
\* the next cycle.
THEOREM ChainInductive == ChainSpec => [](ContractKept /\ ChainInv)
<1>1. ContractKept /\ ChainInv /\ [ChainNext]_chainVars => (ContractKept /\ ChainInv)'
  <2> SUFFICES ASSUME ContractKept, ChainInv, [ChainNext]_chainVars
               PROVE  (ContractKept /\ ChainInv)'
    OBVIOUS
  <2>1. CASE Begin
    BY <2>1, BeginStep
  <2>2. CASE LiveNews
    BY <2>2, LiveNewsStep
  <2>3. CASE ReplayNews
    BY <2>3, ReplayNewsStep
  <2>4. CASE MarketMind
    BY <2>4, MarketStep
  <2>5. CASE ChartMind
    BY <2>5, ChartStep
  <2>6. CASE Gate
    BY <2>6, GateStep
  <2>7. CASE UNCHANGED chainVars
    BY <2>7 DEF chainVars, ContractKept, ChainInv, SpokenInv, EnterEarned, NewsInv, MarketInv,
                ChartInv, Harmless, OffSession, Leaning
  <2> QED BY <2>1, <2>2, <2>3, <2>4, <2>5, <2>6, <2>7 DEF ChainNext
<1> QED BY <1>1, ChainStart, PTL DEF ChainSpec

\* For any sources, ages and schedules, what a brain computes passes BrainOutput's own checks;
\* a promoted setup, which ChartAssessment's refuse, has been refused before (ChartOutput).
THEOREM ContractSafe == ChainSpec => []ContractKept
<1> QED BY ChainInductive, PTL

\* For any sources, ages and schedules, an entry stands on the whole chain: three A grades on
\* good data, a quiet calendar, MarketMind's hours, no trend against the chart and, live,
\* every source heard.
THEOREM EarnedSafe == ChainSpec => []EnterEarned
<1>1. ChainInv => EnterEarned
    BY DEF ChainInv
<1> QED BY <1>1, ChainInductive, PTL
=============================================================================
