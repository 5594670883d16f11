-------------------------------- MODULE GateMind --------------------------------
(***************************************************************************)
(* GateMindV4.evaluate as several threads run it, its process-wide audit   *)
(* store (an OrderedDict used as an LRU cache, with no lock), and          *)
(* apply_llm_review, which may be applied to a decision any number of      *)
(* times.  The interpreter can switch threads between any two operations   *)
(* on the store.                                                           *)
(***************************************************************************)
EXTENDS GateLadder, FiniteSets, SequencesExt

CONSTANTS
    Thread,       \* threads that evaluate
    Calls,        \* the arguments they use
    MaxAudit      \* MAX_AUDIT_ENTRIES

ASSUME GateAssumption ==
    /\ Calls \subseteq Call
    /\ MaxAudit \in Nat \ {0}

VARIABLES
    store,        \* _AUDIT_STORE: snapshots, the oldest first
    pc,           \* where each thread is
    decision      \* the GateDecision of each thread that has one, with its arguments

vars == <<store, pc, decision>>

Outcome == {"ENTER_CANDIDATE", "WAIT", "BLOCK"}

\* The fingerprint has each brain's decision and grade (and confidence, which the model leaves
\* out), and none of the other fields; outputs that fail R1_schema have none.
AuditId(c) ==
    <<c.now, c.symbol,
      [r \in Role |-> IF R1_schema(c) = "PASS" THEN <<c.trio[r].decision, c.trio[r].grade>>
                      ELSE <<"failclosed">>]>>

\* candidate: the decision carries a TradeCandidate.
DecisionFor(c) ==
    [call |-> c, outcome |-> Ladder(c), direction |-> Direction(c),
     candidate |-> Ladder(c) = "ENTER_CANDIDATE"]

\* What record_audit keeps of a call and its decision.
Snapshot(d) == [id |-> AuditId(d.call), call |-> d.call, outcome |-> d.outcome]

Stored == {store[i].id : i \in 1..Len(store)}

Position(id) == CHOOSE i \in 1..Len(store) : store[i].id = id

Mine(t) == AuditId(decision[t].call)

Put(dict, k, v) == [x \in DOMAIN dict \cup {k} |-> IF x = k THEN v ELSE dict[x]]

Without(dict, k) == [x \in DOMAIN dict \ {k} |-> dict[x]]

Goto(t, where) == pc' = [pc EXCEPT ![t] = where]

-----------------------------------------------------------------------------
\* The ladder is walked.  A snapshot of something that is no BrainOutput at all cannot be
\* taken: the exception is logged and the decision stands.
Evaluate(t, c) ==
    /\ pc[t] = "idle"
    /\ decision' = Put(decision, t, DecisionFor(c))
    /\ \/ Goto(t, "check")
       \/ /\ \E r \in Role : ~c.trio[r].present
          /\ Goto(t, "decided")
    /\ UNCHANGED store

\* record_audit: is the id there already?
Check(t) ==
    /\ pc[t] = "check"
    /\ Goto(t, IF Mine(t) \in Stored THEN "touch" ELSE "insert")
    /\ UNCHANGED <<store, decision>>

\* move_to_end; if another thread has evicted the entry, a KeyError that is logged.
Touch(t) ==
    /\ pc[t] = "touch"
    /\ IF Mine(t) \in Stored
       THEN /\ LET i == Position(Mine(t))
               IN  store' = Append(RemoveAt(store, i), store[i])
            /\ Goto(t, "insert")
       ELSE /\ Goto(t, "decided")
            /\ UNCHANGED store
    /\ UNCHANGED decision

\* Mutant of Insert: the snapshot goes to the end even if the id is there.
InsertAgain(t) ==
    /\ pc[t] = "insert"
    /\ store' = Append(store, Snapshot(decision[t]))
    /\ Goto(t, "evict")
    /\ UNCHANGED decision

\* The snapshot is stored, in the place of the one with the same id or at the end.
Insert(t) ==
    /\ pc[t] = "insert"
    /\ store' = IF Mine(t) \in Stored
                THEN ReplaceAt(store, Position(Mine(t)), Snapshot(decision[t]))
                ELSE Append(store, Snapshot(decision[t]))
    /\ Goto(t, "evict")
    /\ UNCHANGED decision

\* _evict_if_over_cap: the loop's condition ...
Evict(t) ==
    /\ pc[t] = "evict"
    /\ Goto(t, IF Len(store) > MaxAudit THEN "pop" ELSE "decided")
    /\ UNCHANGED <<store, decision>>

\* ... and its body.  popitem raises on an empty store.
Pop(t) ==
    /\ pc[t] = "pop"
    /\ store' = IF store = << >> THEN store ELSE Tail(store)
    /\ Goto(t, IF store = << >> THEN "decided" ELSE "evict")
    /\ UNCHANGED decision

Rank(outcome) ==
    CASE outcome = "ENTER_CANDIDATE" -> 2 [] outcome = "WAIT" -> 1 [] OTHER -> 0

\* The copy that dataclasses.replace makes; _fail_closed builds the same.
Downgraded(d, target) ==
    [call |-> d.call, outcome |-> target, direction |-> "NONE", candidate |-> FALSE]

\* now_utc is naive, or the ladder raises: a BLOCK of which no snapshot is taken.
FailClosed(t, c) ==
    /\ pc[t] = "idle"
    /\ decision' = Put(decision, t, Downgraded(DecisionFor(c), "BLOCK"))
    /\ Goto(t, "decided")
    /\ UNCHANGED store

\* apply_llm_review with a DOWNGRADE_TO_ override: anything but a downgrade is refused.
Review(t, target) ==
    /\ pc[t] = "decided"
    /\ Rank(target) < Rank(decision[t].outcome)
    /\ decision' = [decision EXCEPT ![t] = Downgraded(@, target)]
    /\ UNCHANGED <<store, pc>>

\* The caller is done with the decision.
Done(t) ==
    /\ pc[t] = "decided"
    /\ decision' = Without(decision, t)
    /\ Goto(t, "idle")
    /\ UNCHANGED store

Init ==
    /\ store = << >>
    /\ pc = [t \in Thread |-> "idle"]
    /\ decision = << >>

Next == \E t \in Thread :
    \/ \E c \in Calls : Evaluate(t, c) \/ FailClosed(t, c)
    \/ Check(t) \/ Touch(t) \/ Insert(t) \/ Evict(t) \/ Pop(t)
    \/ \E target \in {"WAIT", "BLOCK"} : Review(t, target)
    \/ Done(t)

Spec == Init /\ [][Next]_vars

-----------------------------------------------------------------------------
\* Types of the variables.
TypeOK ==
    /\ \A i \in 1..Len(store) :
          store[i].call \in Calls /\ store[i].outcome \in Outcome
    /\ pc \in [Thread -> {"idle", "check", "touch", "insert", "evict", "pop", "decided"}]
    /\ DOMAIN decision = {t \in Thread : pc[t] # "idle"}
    /\ \A t \in DOMAIN decision :
          /\ decision[t].call \in Calls
          /\ decision[t].outcome \in Outcome
          /\ decision[t].direction \in {"BUY", "SELL", "NONE"}
          /\ decision[t].candidate \in BOOLEAN

\* The walk of the ladder and any number of reviews never let through more than the policy
\* does, before the first review they say exactly what it says, and a candidate to trade is
\* carried only where the policy enters, in the chart's direction.
PolicyObeyed ==
    \A t \in DOMAIN decision : LET d == decision[t] IN
        /\ Rank(d.outcome) <= Rank(Policy(d.call))
        /\ pc[t] # "decided" => d.outcome = Policy(d.call)
        /\ d.candidate <=> d.outcome = "ENTER_CANDIDATE"
        /\ d.direction = IF d.candidate THEN d.call.trio["chart"].decision ELSE "NONE"

\* The store is a dict, its snapshots can be replayed to the outcome they hold, and no race
\* lets it outgrow its cap by more than the threads that have yet to evict.
StoreSound ==
    /\ \A i, j \in 1..Len(store) : store[i].id = store[j].id => i = j
    /\ \A i \in 1..Len(store) : store[i].outcome = Policy(store[i].call)
    /\ Len(store) <= MaxAudit + Cardinality({t \in Thread : pc[t] \in {"evict", "pop"}})
================================================================================
