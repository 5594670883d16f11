# Verification of HYDRA

HYDRA V4 is a Python system that decides, per currency pair and fifteen-minute cycle, whether to
enter a trade. Three "brains" (news, market, chart) answer in a fixed order, a gate judges their
answers with a ladder of rules, and every decision goes to an append-only ledger that a later
replay learns from. Around it the tree has a data download, a replay, simulators and HYDRA V3, the
generation before: an engine with day counters that trades, and a back-test. This directory holds TLA+ models of the parts whose correctness is a matter of
order, interleaving and failure, TLC configurations that check them on small instances, and TLAPS
proofs of what matters most for every instance. `src/` below is the root of the repository.

## 1. Inventory

| Component | State it keeps | Operations | Talks to |
|---|---|---|---|
| Ledger: `smartnotebook/v4/storage.py`, `chain_hash.py`, `time_integrity.py` | one JSONL file per UTC day, a SQLite index over all, two caches (last hash, last timestamp per day), a lock, a process-wide sequence counter | append, rebuild, verify, queries | called by the facade |
| Notebook facade: `SmartNoteBookV4.py` | none of its own | `record_*`, lesson calls; each builds a tentative hash, then appends | ledger (calls) |
| Lessons: `lesson_engine.py`, facade 528-711 | LESSON rows of the ledger | propose, activate, retire, load for a replay clock | ledger |
| Orchestrator: `orchestrator/v4/HydraOrchestratorV4.py` | `_notebook_lock`; a cycle's locals | `run_cycle` | brains and gate (calls), facade under its lock |
| GateMind: `gatemind/v4/*` | `_AUDIT_STORE`, an LRU dict shared by the process | `evaluate`, `record_audit`, `apply_llm_review` | called by the orchestrator |
| NewsMind, MarketMind, ChartMind | source feeds, calendar, an indicator cache | `evaluate` | called by the orchestrator |
| Brain contract: `contracts/brain_output.py` | none | constructor checks, `fail_closed` | all brains, the gate's schema rule |
| Live loop: `live/*.py` | counters of the day, KILL file, approval token | loop, sixteen guards | orchestrator, OANDA |
| Live data: `live_data/*.py` | pages and merged files on disk | page plan, fetch with retries, atomic write, merge, judgement | OANDA, replay |
| Replay: `replay/*.py`, `run_live_replay.py` | clock, cursor over bars, counts | download, stepping, leakage guard, cycles | orchestrator, ledger |
| Simulation: `replay/pnl_simulator.py` | a trade under way | open, walk a bar, close | called by the back-test drivers |
| HYDRA V3 engine: `HYDRA V3/engine`, `gatemind`, `smartnotebook` | day counters in memory and in `engine_state`, a bounded queue with a writer thread | decide and trade, report a close, stop | broker, notebook |
| HYDRA V3 back-test: `HYDRA V3/Backtest/*` | pending signal, open position, risk state, day counters, date of resumption | one bar after another | ChartMind V3, its notebook |
| V11, Anthropic bridge, scripts | – | offline computation, an external call | – |

What is hard about it:

* **Ledger.** Three stores (file, index, caches) change in sequence, with failures and crashes
  between; the facade reads and writes a cache outside the lock; a rebuild takes no lock. Correct
  means: day chains do not fork, times do not go back, nothing acknowledged is lost, the index
  never knows more than the file, a refused record leaves nothing behind, every call returns.
* **Orchestrator.** Threads share one notebook; a brain may raise or return nonsense in four
  places; either of two appends may fail after the verdict. Correct means: an ENTER is on record
  with its audit, failures never make an answer more permissive, errors can be found, cycles end.
* **GateMind.** The meaning of a rule depends on those before it; the audit store is shared
  without a lock; reviews come after the decision. Correct means: no decision lets through more
  than the stated policy, and the store stays what a replay can use.
* **Lessons.** Read, number and append interleave; the current state is decided by sequence ids
  that survive restarts through the index. Correct means: lineages are rooted, a later decision
  overrules an earlier one, retirement sticks, a replay sees no lesson of its future.
* **Brains.** Three answers are built one on the other, with feeds that fail, items of any age and
  caps that lower a grade in several places. Correct means: no brain breaks the contract that the
  gate relies on, and an ENTER has live evidence behind it.
* **Download and replay.** Pages of several runs lie side by side, requests fail and are retried,
  the process dies, the ledger outlives it. Correct means: an accepted window has no hole, what is
  counted is on file, every bar is evaluated, no cycle sees the future.
* **V3 engine.** Counters that must outlive a process and be reset at midnight; an order and its
  counter are two steps; events wait in a queue for another thread. Correct means: the day's limits
  hold across restarts, losses stop entries, nothing accepted is left behind.
* **Simulation and V3 back-test.** A stop moves on the same bar that may hit it; a signal of one bar
  is filled on the next; a halt may come twice. Correct means: losses are bounded, nothing is held
  that the limits refuse, a pause is served.

`PROJECT.json` lists each hazard at its line, with the properties that cover it or the reason none
does. The per-mind `V3` directories, `HYDRA_Setup` (a second copy of HYDRA V3), `HYDRA V5` and
`archive` are left out, as are data, reports and launchers.

## 2. Modules

| Module | Models |
|---|---|
| `AppendOnlyLedger` | the promise: per day a log that only grows at its end, linked and monotone; acknowledgement only of what it holds |
| `LedgerStorage` | the write path of `Storage` with the facade's unlocked look at the cache, faults of the host, rebuild, restart |
| `LedgerInductive` | the inductive invariants: under every fault, of the index, of the sheltered deployments |
| `LedgerProofs` | types; what holds under every fault; the index; no fork and no going back; the refinement of `AppendOnlyLedger` |
| `DecisionCycle` | `run_cycle` of several threads, with the notebook appends as single steps |
| `CycleProofs` | an ENTER is on record, pairs stay together, nothing is upgraded, errors are marked, the watermark is bounded, for every instance |
| `GateLadder` | rules R1 to R8 and the order-free policy they should amount to; operators only |
| `GateMind` | `evaluate`, the audit store step by step, `apply_llm_review`; uses `GateLadder` |
| `GateProofs` | the ladder is the policy; decisions keep to it through reviews; the audit store under its races; the brains keep their contract and an entry is earned |
| `LessonLifecycle` | propose, activate, retire as read / number / append, crashes, the replay's view |
| `LessonProofs` | the lesson properties for every instance |
| `BrainChain` | NewsMind (live and replay), MarketMind, ChartMind and the gate's ladder (`GateLadder`) in one cycle; the brain contract |
| `DataDownload` | `run_live_replay.main`'s download: pages, retries, merge, judgement, crashes |
| `LiveReplay` | extends `DataDownload` with the replay over a ledger that outlives the process |
| `ReplayProofs` | the accepted window has no hole, accepted candidates are on record, a finished replay covers its timeline |
| `PnLSimulator`, `PnLProofs` | one simulated trade; its bounds for every bar |
| `AsyncWriter` | the queue and the thread of V3's notebook |
| `GateV3` | the decision of V3's gate as operators |
| `EngineV3` | extends both: V3's engine with counters, midnight, faults, crashes and restarts |
| `EngineProofs` | the day's orders are bounded, losses halt, a finished shutdown has journalled everything |
| `BacktestRunner`, `BacktestProofs` | the bar loop of V3's back-test with its risk manager; exposure and pauses for every data |
| `MC*` | constants and symmetry for TLC |

How they compose: `DecisionCycle` takes the ledger's append as one step. That is justified by
`LedgerStorage`, where the lock is held from the read of the caches to the last store, and by
`Serialized`, which is exactly the orchestrator's `_notebook_lock`: with it the unlocked look of
the facade is inside the outer lock as well. `DecisionCycle!Verdicts` abstracts the gate to "a
BLOCK from any brain blocks, otherwise any verdict", which is theorem `BlockStands` of
`GateProofs`. `LessonLifecycle` also appends in one step, but not under `_notebook_lock`, which the
lesson calls do not take; other record types' use of the counter and the watermark is left out.
`BrainChain` is what is behind `DecisionCycle!Brain`, and its `Gate` is `GateLadder!Ladder`, the
operator that `GateMind` uses. A cycle of `LiveReplay` is what `DecisionCycle` promises of
`run_cycle`: the record and its audit, or a BLOCK.

### State and code

`LedgerStorage`: `lines`, `partial`, `garbled` are the day files (decodable lines, a torn end,
undecodable bytes), `rows` and `rebuild` the SQLite table, `hashCache` and `tsCache` the two
dicts, `lock` is `Storage._lock`, `outer` the orchestrator's. `pc` follows the numbered steps of
`append_record` (4, 5: `Chain` or `Reject`; 6: `Write`, `WriteFails`, `FsyncFails`, `TornWrite`; 7:
`Mirror`, `MirrorFails`; 8: `Commit`), with `Refuse` for the exceptions of steps 1 to 3. A digest is the
sequence of record ids it was computed from, so there are no collisions. `outcome` is what each
caller was told.

`DecisionCycle`: `pc` is the line of `run_cycle` a thread is at, `job` its cycle id and `now_utc`,
`cycles` what the properties need of results (verdict, final status, whether a brain blocked,
whether the ids are linked). `Brain`, `Gate`, `Raises` and `WrongType` are the ways a call can go;
`RecordCycle`, `RecordAudit`, `RecordFails`, `RecordError`, `RecordErrorFails` the notebook's.

`GateLadder`: a brain output keeps presence, decision, grade, whether there is evidence, whether
data is good, `should_block` and the classes of its risk flags. `GateMind`: `store` is the
OrderedDict as a sequence of entries, oldest first; `Check`, `Touch`, `Insert`, `Evict` and `Pop`
are the steps between which the interpreter may switch threads. `FailClosed` is the answer to a
naive `now_utc` or to an exception in the ladder: a BLOCK without a snapshot. The policy that
decisions are held against (`Policy`) has a calendar of its own, the hours of each symbol and the
weekend cut out of the hours of the week (`Hours`, `Tradable`), not the ladder's windows and days.

`LessonLifecycle`: `rows` are LESSON rows, `newest` and `seen` the watermark in the file and in
the cache, `call` the calls under way. `after` is a history field: the ids of the lesson's records
whose calls had returned when this one was made; it is not in the record.

`BrainChain`: `outputs` are the three answers as each brain computed them, before the contract's
checks (`Made` is the constructor of `BrainOutput`, which raises into `fail_closed`); `basis`
remembers what NewsMind's verdict rested on. ChartMind's answer is first made as a
`ChartAssessment`, whose check C4 refuses the five promoted setups: a reading that promotes one ends
in `fail_closed` (`ChartOutput`). Bars are readings: a trend, a data quality, a score of evidence.

`DataDownload`: `pages` are the page files of a pair with the candles in them, `merged` the merged
file, `cur` the beginning of the page in hand, `attempt` the requests made for it, `body` the
answer. `LiveReplay`: `left` is what the loop has still to walk, `counts` the result's counters,
`lines` the DECISION_CYCLE records, with the start of main (`run`) that wrote each.

`EngineV3`: `mem` and `disk` are the counters and their row; `orders`, `late` and `open` are the
broker's side: the orders that a UTC day received from cycles begun on it, those it received from a
cycle begun before midnight, and the open positions. `late` is an observer. `reported` is an observer of the losses reported since the day's first cycle. A batch of `AsyncWriter`
is a length, since events are alike. `GateV3` keeps of a brain's summary what the gate reads.

`PnLSimulator` and `BacktestRunner` count in pips from the side of the trade, so that a short is a
long over mirrored prices; `pc` of the latter is the phase of a bar (roll and halt, fill and manage,
emit), `haltDay` an observer.

## 3. Runs

| Run | Instance | What it shows |
|---|---|---|
| `ledger_orchestrated` | 2 facade threads under the outer lock, 3 records, 2 days, 3 instants; failing writes, crashes | types, `ChainIntact`, `TimesMonotone`, `IndexGapExplained`, `IndexSeqUnique`; `ImplementsLedger` (refinement); `Answered` (liveness) |
| `ledger_faults` | 2 direct callers, 3 records, every fault and rebuild | `NoSilentLoss`, `IndexNeverAhead`, `ChainIsTree` |
| `ledger_preread` | 2 facade threads, no outer lock | `ChainIntact` is violated: the unlocked look overwrites a newer hash |
| `cycle_recording` | 2 threads, 2 cycles, clock to 2, tolerance 1, every fault | `EnterIsOnRecord`, `AuditFollowsCycle`, `NeverUpgraded`, `ErrorsMarked`, `PoisonBounded`, `CycleEnds` |
| `gate_decisions` | 2 threads, 12 calls that each reach another rule, a store of one | `PolicyObeyed`, `StoreSound` |
| `lesson_lifecycle` | 2 threads, 2 lessons, 2 days, 3 ids, every fault; symmetric | `LineageRooted`, `LaterCallWins`, `RetirementSticks` |
| `brain_chain` | 3 sources of different standing, 2 items, 3 moments, 2 symbols, live and replay | `ContractKept`, `EnterEarned` |
| `live_replay` | 2 pairs, a window of 3, pages of 2, 2 attempts, 2 starts of main, a fault | `WindowComplete`, `EntersOnRecord`, `ReplayCovered` |
| `replay_hindsight` | 2 pairs, a replay of 2 bars, a fault allowed | `NoHindsight` is violated: the bar that is forming is shown |
| `engine_day` | a queue and a batch of 2, limits of 2, 2 days, a fault | `TradesPerDay`, `ShutdownComplete`, `LossesHalt`; `JournalSettles` (liveness) |
| `pnl_trades` | every bar in 11 prices, references on both sides of the entry, 3 bars | `LossBounded`, `ArmedNeverLoses` |
| `backtest_bars` | 6 bars of 4 shapes, 3 plans, gaps of up to 2 days, kill, pause and off | `ExposureAllowed`, `PauseServed` |

The two violations are disagreements between the code and a sentence of its own documentation.
`PROJECT.json` quotes the sentence for each, and lists further disagreements that were met while
modelling and need no run: each is visible in the lines it names.

**Bounds.** Two threads are enough for every interleaving hazard here: each is a race of one
actor's read with one other's write. Three records let one thread be overtaken between two of
another's, and let a record come after a failed or crashed one. Two days, one of them with two
instants, allow a day to be returned to and a timestamp to be refused. The audit store holds one
entry, so eviction races with every insert. `MaxSeq = 3` allows propose, activate, retire, and a
restart at any point. Clocks, ids and sequence numbers are the only unbounded quantities; their
bounds are `MaxTime`, `Cycle`, `RecordId` and `MaxSeq`, and reaching one is why deadlock is not
checked in the runs that say so: a system in which all calls have been made has stopped. In
`live_replay` main may end with no start left, in `backtest_bars` the data do.

Two pairs let one pair's cycle follow the other's at one instant, and two starts of main leave pages
of an older window beside the new ones; an attempt more than one tells a retry from a refusal. Two
days and a limit of two orders make a restart after midnight, and one before it, differ. Six bars
are a signal, its fill, a losing close, the pause and the next signal; capital and risk are chosen so
that one or two losses reach the drawdown cap and the day's. Sources number three since a quorum of
one in two and of one in three differ. `MaxTime`, `MaxRuns`, `MaxDay`, `MaxEvents`, `MaxFaults`,
`MaxBars` and `MaxGap` are the bounds.

**Fairness.** Only `ledger_orchestrated`, `cycle_recording` and `engine_day` assume any: weak fairness of
each thread's own steps (in `engine_day` of the notebook's writer thread only), that is, the operating system schedules a runnable thread, and brains, files
and SQLite return or raise. No call has to be made and no fault has to happen. Weak fairness is
enough for a lock here because calls are finitely many; with endless contention Python's lock
promises no more than that.

**Mutants.** Each property of a passing run has a mutant of the code it is about (operators
commented "Mutant of"), for instance a lock that leaks on the error path, a cache that is updated
before the write, a counter that restarts at zero; TLC finds the property violated under it.

## 4. Proofs

Every safety invariant that a passing run checks, and its action properties `LossesHalt` and
`ImplementsLedger`, are theorems over arbitrary constants that satisfy the named assumptions of the
modules (`LedgerAssumption`, `CycleAssumption`, `GateAssumption`, `ChainAssumption`,
`LessonAssumption`, `DownloadAssumption`, `ReplayAssumption`, `LimitAssumption`, `WriterAssumption`,
`EngineAssumption`, `SimulatorAssumption`, `BacktestAssumption`). These ask for distinct null
values, types and numeric bounds. Three go further: a download has at least one pair
(`DownloadAssumption`), NewsMind has at least one source (`ChainAssumption`), and the day-loss cap
of the back-test is above zero (`BacktestAssumption`), since with a cap of zero a new day would
refuse the position that a winning day had allowed. Where a property needs more than that of the
deployment, the theorem says so in an `ASSUME` of its own.

| Theorems of | prove | with the inductive invariant | when |
|---|---|---|---|
| `LedgerProofs` | `TypeOK`, `NoSilentLoss`, `IndexNeverAhead`, `ChainIsTree` | `FaultInvs` | always |
| | `IndexGapExplained` | `ControlInv`, `GapInv` | `WholeAppends` |
| | `IndexSeqUnique` | `SeqInv` | no rebuild among the faults |
| | `ChainIntact`, `TimesMonotone`, `ImplementsLedger` | `IInv` | `Sheltered` |
| `CycleProofs` | the types and five properties of `cycle_recording` | `CInv` | always |
| `GateProofs` | `TypeOK`, `PolicyObeyed`, `StoreSound` | `HeldObeys`, `StoreInv` | always |
| | `ContractKept`, `EnterEarned` | `ChainInv` | always |
| `LessonProofs` | `TypeOK`, `LineageRooted`, `LaterCallWins`, `RetirementSticks` | `LInv` | always |
| `ReplayProofs` | `TypeOK`, `WindowComplete`, `EntersOnRecord`, `ReplayCovered` | `ReplayInv` | always |
| `EngineProofs` | `TypeOK`, `TradesPerDay`, `ShutdownComplete`, `LossesHalt` | `EngineInv` | always |
| `PnLProofs` | `TypeOK`, `LossBounded`, `ArmedNeverLoses`, `StopOnlyTightens` | `PInv` | always |
| `BacktestProofs` | `ExposureAllowed`, `PauseServed` | `BInv` | always |

* **Ledger, under every fault.** `NoSilentLoss`, `IndexNeverAhead` and `ChainIsTree` are about
  stores that no single step keeps together. `FaultInvs` adds what is left when anything may fail:
  a thread past its write has its line in the file, a thread about to write or to fill the cache
  carries a hash of the day's file (`CarriedInv`), and so does the cache, however stale it is
  (`CacheOnFile`). Staleness costs the chain, never the tree: a stale hash is still the hash of an
  earlier line. All of it is conditional on no line being garbled, as the properties are.
* **Ledger, the index.** A row may be missing only for a call that has not returned or a crash.
  That needs `WholeAppends` (only failing writes and crashes): a failing fsync or insert leaves the
  line on file, without a row, and returns an error, and a torn line makes the next append
  unreadable. `GapInv` is proved together with `ControlInv` (who holds the
  lock, distinct ids in flight, no fault but those). `IndexSeqUnique` allows every fault but a rebuild:
  `SeqInv` says that ids in flight are distinct, not in the index yet and at most the counter; a
  rebuild puts back lines that the index had lost, whose ids the counter, reseeded from the index
  at a restart, may have given again.
* **Ledger, sheltered.** `ChainIntact` is not inductive: the file is extended from a cache, and the
  cache from a file, at different steps. `IInv` adds that exactly the thread inside holds the lock
  (`LockInv`), that ids in flight are distinct (`IdInv`), that a cached value equals what a scan
  would find except while a line is being committed (`CacheCoherent`), and that what the thread
  inside carries is still current (`CarryInv`). It is preserved under `Sheltered`: callers are
  serialized or nobody uses the unlocked look, and only failing writes and crashes happen.
  `ledger_preread` drops the first half and the chain forks; an insert that fails after its line
  was written (`storage.py:374`) is why the second is there. `ChainSafe` and `TimesSafe` follow,
  and `Refinement`: every step is one `Extend`, one `Acknowledge` or a stutter of
  `AppendOnlyLedger`.
* **Cycle.** `CInv` says what a call has at its line of `run_cycle`: nobody but the thread inside
  `_notebook_lock` is between the appends, calls have distinct cycles, a cycle has a verdict
  exactly when the gate has run, and between the two appends the cycle's own record is the last
  line (`CallFine`), so that the audit can only land beside it. `LedgerFine` and `CycleFine` say
  how lines and answers relate. The five properties follow from it, for every fault the module has.
* **Gate.** `SessionIsCalendar` shows that the ladder's windows and weekend are the policy's
  calendar, for every symbol and instant; `LadderIsPolicy` unfolds the eight rules for every three outputs, instant and symbol.
  `PolicyKept` carries it through evaluations and reviews. For `StoreSafe`, `StoreInv` counts the
  threads that have inserted and not yet left `_evict_if_over_cap` (`Evicting`): each accounts for
  one entry over the cap, and lemmas about `RemoveAt` and `move_to_end` keep the store a dict.
* **Brain chain.** `ContractKept` is about the checks of `BrainOutput`, the contract that the gate
  reads: no answer that a brain computes is refused by them. It says nothing of ChartMind's own
  `ChartAssessment`, whose C4 does refuse setups that the brain promotes (`chartmind/v4/models.py:90`;
  the findings quote the comment that denies it); that only makes an answer a BLOCK. `ContractKept` comes from one lemma about the constructor (`MadeProperties`) and
  one for each brain: a grade of A or better implies good data, because `_cap` gives the lowest of
  its caps (`CappedProperties`) and data that is not good caps at B. `ChainInv` is what each output
  is worth from its turn to the gate's: NewsMind's good grade without a flag has its basis
  (`NewsInv`), a MarketMind that does not block is inside its hours (`MarketInv`), a chart of grade
  A stands on two brains of grade A and not against the trend (`ChartInv`). The gate alone lets a
  B of NewsMind pass; that an entry has three A grades is the caps' doing, and the proof shows it by
  `LadderIsPolicy` and `ChartInv`.
* **Lessons.** `LineageRooted` and `LaterCallWins` need what is true of a call before its record is
  on file: its parent is on record and at least as new as all the call knew (`Descends`), its id is
  above both (`Above`), and ids of calls about to append are distinct from each other and from
  those on file. `LInv` says so and is inductive through crashes because the counter is reseeded
  from the same rows that parents come from. `RetirementSafe` follows from the order of ids.
* **Download and replay.** `WindowComplete` follows from what a page holds: a sound file has every
  traded candle between its bounds (`PageSound`), a pair's pages written or kept so far cover the
  window up to `cur` (`PairWalked`), and a merge loses none of them; no plan of pages has to be
  summed up. `ReplayCovered` is the harder one, since a cycle that the ledger refuses, because an
  earlier start wrote a later record, is taken for granted by the loop. `DenseInv` says why that is
  harmless without faults: a record on file has no holes before it back to the beginning of the
  window; `CoverInv` carries that along the timeline. `EntersOnRecord` needs neither.
* **V3 engine.** `TradesPerDay` speaks of the broker's orders, the limit of a counter that is
  written to a table after the order and read back after a crash. A day is bounded by its limit for
  the cycles begun on it, and by one order more for a cycle that midnight overtook, since the counters
  that let that order pass are the day before's (`EngineV3.py:237`, `:440`). `LateInv` is why there is
  no second one: after a late order the engine's next cycle is of the new day. `CountInv` bounds the orders of a
  day by the counter in memory, by the row, or by nothing if the row is of an earlier day, plus one
  for each fault and the order not yet counted. `LossInv` says that without a fault the table is
  what memory is and both know every loss. `WriterInv` is the journal's arithmetic: handled, queued
  and batched events add up to those submitted, and the thread is dead only when the queue is empty.
* **Simulated trade.** `LossBounded` speaks of closed trades only. `TradeInv` says what an open one
  keeps: the stop is no further off than the risk, at the entry or better once break-even is armed,
  and every close so far was above it, because a bar that touches the stop ends the trade. The last
  part is what bounds a timeout.
* **Back-test.** `ExposureAllowed` survives a new day because `on_new_day` clears what it compares
  (`NewDayAllows`). For `PauseServed`, `HaltInv` adds that a date of resumption exists during a halt
  only and lies the whole pause after it; a kept date would let the next halt end at once.

Checked by TLC only: the liveness properties `Answered`, `CycleEnds` and `JournalSettles`, since
fairness and `ENABLED` are beyond the prover, and the two violations. What a definition by recursion
over arbitrary data computes is not proved either; no theorem here needs it, since sequences are
reasoned about by their entries.

## 5. Not modelled, and why

* Payloads, reasons, redaction, formatting: no property tells them apart.
* In the gate: confidence values; beyond the schema rule they matter to the audit id only.
* The position sizer's arithmetic: `PositionValid` and `overRiskCap` are what is left of it.
* In the ledger: readers' exceptions on torn lines, and queries other than by type.
* In the lessons: an index rebuild under way (see `LedgerStorage`).
* Indicators, detectors and feed parsing of the brains: in `BrainChain` they are readings.
* The live loop: it imports `live_data.oanda_read_only`, which does not exist in the tree, and
  returns 3 before its first cycle. The guards are called from nowhere else, and could not all
  clear if they were (see the findings).
* The Anthropic bridge: its answer reaches nothing.
* V11, reports, lesson extraction: computation over data that are already fixed.
* In the replay: validation of single candles. In V3's engine: the brains, the database. In V3's
  back-test: the filters before the risk check, which are one choice to emit nothing, and lots that
  are not whole in the model's units.

## 6. Plan

Done: the ledger with its refinement; the orchestrator's cycle; the gate; the lessons; the brain
chain; download and replay; the simulated trade; V3's engine and back-test; proofs of all safety
invariants that the runs check. Next, in order of weight:

1. An abstract specification of the orchestrator (an answer, then nothing more permissive) that
   `DecisionCycle` implements, with its refinement proved as the ledger's is.
2. What an acknowledged record is worth when a line was garbled: which records a torn line swallows.
3. V11's trade windows, and the live loop once its client exists.
