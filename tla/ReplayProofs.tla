----------------------------- MODULE ReplayProofs -----------------------------
(***************************************************************************)
(* The download and the replay of V4, for any pairs, market hours, window, *)
(* page size, retries and number of starts: the candles that a replay has, *)
(* the candidates that it counts, and the decisions that it leaves behind. *)
(***************************************************************************)
EXTENDS LiveReplay, SequenceTheorems, FiniteSetTheorems, TLAPS

(***************************************************************************)
(* The inductive invariant of the download.                                *)
(***************************************************************************)
Window == {t \in Traded : end - Length <= t /\ t < end}

\* A page file holds candles of its own range only, and all that had closed by its end.
PageSound(f) ==
    /\ \A t \in f.times : f.from <= t /\ t < now
    /\ \A t \in Traded : f.from <= t /\ t < f.to => t \in f.times

\* The pages that the pair has on file cover its window as far as the download has come.
PairWalked ==
    \A t \in Window : t < cur => \E f \in pages[pair] : t \in f.times

\* What is on file, of this download and of those before it.
FilesInv ==
    /\ end <= now
    /\ \A p \in PairSet : \A f \in pages[p] : PageSound(f)
    /\ \A p \in PairSet : \A t \in merged[p] : t < now
    /\ pc # "off" => Length <= end

\* How far the download has come.
ProgressInv ==
    /\ pc \in {"page", "request", "write"} => cur <= end /\ PairWalked
    /\ pc \in {"request", "write"} => cur < end
    /\ pc = "write" => /\ \A t \in body.times : cur <= t /\ t < now
                       /\ \A t \in Traded : cur <= t /\ t < PageEnd => t \in body.times
    /\ pc = "check" => Window \subseteq merged[pair]
    /\ pc \in {"page", "request", "write", "check"} =>
           \A i \in 1..(turn - 1) : Window \subseteq merged[Pairs[i]]
    /\ WindowComplete

DownloadInv == FilesInv /\ ProgressInv

(***************************************************************************)
(* The inductive invariant of the replay.                                  *)
(***************************************************************************)
Replaying == pc \in {"advance", "cycle"}
InWindow(t) == ReplayStart <= t /\ t <= end
Recorded(p, t) == \E i \in DOMAIN lines : lines[i].pair = p /\ lines[i].time = t

\* The replay walks forward, over candles of its window.
WalkInv ==
    Replaying =>
        /\ \A t \in left : t \in Times /\ InWindow(t) /\ clock <= t
        /\ pc = "cycle" => /\ clock \in Traded /\ clock \in Times /\ InWindow(clock)
                           /\ \A t \in left : clock < t

\* A record on file has no holes before it, back to the beginning of the window: this is what
\* a record that the ledger refuses rests on.
DenseInv ==
    faults = 0 =>
        \A i \in DOMAIN lines : \A p \in PairSet : \A t \in Traded :
            ReplayStart <= t /\ t < lines[i].time => Recorded(p, t)

\* What the replay has passed is on file, but for the pairs whose turn at this instant comes.
CoverInv ==
    Replaying /\ faults = 0 =>
        \A p \in PairSet : \A t \in merged[p] :
            InWindow(t) => \/ t \in left
                           \/ Recorded(p, t)
                           \/ pc = "cycle" /\ t = clock /\ \E i \in turn..Len(Pairs) : Pairs[i] = p

ReplayInv == DownloadInv /\ WalkInv /\ DenseInv /\ CoverInv /\ EntersOnRecord

-----------------------------------------------------------------------------
(***************************************************************************)
(* The download.                                                           *)
(***************************************************************************)
LEMMA PairTypes ==
    ASSUME TypeOK
    PROVE  /\ Len(Pairs) \in Nat \ {0} /\ DOMAIN Pairs = 1..Len(Pairs)
           /\ turn \in 1..Len(Pairs) /\ pair \in PairSet
           /\ \A i \in 1..Len(Pairs) : Pairs[i] \in PairSet
           /\ \A p \in PairSet : \E i \in 1..Len(Pairs) : Pairs[i] = p
<1>1. Pairs \in Seq(PairSet) /\ Pairs # <<>>
  BY DownloadAssumption
<1>2. Len(Pairs) \in Nat \ {0} /\ DOMAIN Pairs = 1..Len(Pairs)
  BY <1>1
<1>3. turn \in 1..Len(Pairs)
  BY DEF TypeOK, DownloadTypeOK
<1>4. /\ \A i \in 1..Len(Pairs) : Pairs[i] \in PairSet
      /\ \A p \in PairSet : \E i \in 1..Len(Pairs) : Pairs[i] = p
  BY <1>2 DEF PairSet
<1> QED BY <1>2, <1>3, <1>4 DEF pair

LEMMA NumberTypes ==
    ASSUME TypeOK
    PROVE  /\ now \in Nat /\ now <= MaxTime /\ end \in Nat /\ cur \in Int /\ MaxTime \in Nat
           /\ Length \in Nat \ {0} /\ Span \in Nat \ {0} /\ ReplayLength \in 1..Length
           /\ \A t \in Traded : t \in Nat
BY DownloadAssumption, ReplayAssumption DEF TypeOK, DownloadTypeOK, Times

LEMMA PageEndBounds ==
    ASSUME TypeOK
    PROVE  /\ PageEnd \in Int /\ PageEnd <= end
           /\ cur < end => cur < PageEnd
BY NumberTypes DEF PageEnd

\* Files that nobody touches stay as good as they are.
LEMMA FilesFrame ==
    ASSUME TypeOK, FilesInv, UNCHANGED <<pages, merged, end>>, now' \in Nat, now' >= now,
           pc' # "off" => pc # "off"
    PROVE  FilesInv'
<1>1. \A t \in Traded : t < now => t < now'
  BY NumberTypes
<1>2. \A p \in PairSet : merged[p] \subseteq Traded /\ \A f \in pages[p] : f.times \subseteq Traded
  BY DEF TypeOK, DownloadTypeOK, Pages
<1>3. end <= now'
  BY NumberTypes DEF FilesInv
<1>4. \A p \in PairSet : \A t \in merged[p] : t < now'
  BY <1>1, <1>2 DEF FilesInv
<1>5. \A p \in PairSet : \A f \in pages[p] : PageSound(f)'
  BY <1>1, <1>2 DEF FilesInv, PageSound
<1> QED BY <1>3, <1>4, <1>5 DEF FilesInv

\* A page that is on file, or that is given up, needs no request.
LEMMA PageStepKeeps ==
    ASSUME TypeOK, DownloadInv, SkipPage \/ FetchPage
    PROVE  DownloadTypeOK' /\ DownloadInv'
<1> USE DEF DownloadInv
<1>1. UNCHANGED <<now, pages, merged, turn, end, body>> /\ pc = "page" /\ cur < end
  BY DEF SkipPage, FetchPage, PagesLeft
<1>2. FilesInv'
  BY <1>1, FilesFrame, NumberTypes DEF SkipPage, FetchPage
<1>3. CASE SkipPage
  <2>1. UNCHANGED <<pc, attempt>> /\ cur' = PageEnd /\ PageExists
    BY <1>3 DEF SkipPage
  <2>2. DownloadTypeOK'
    BY <1>1, <2>1, PageEndBounds DEF TypeOK, DownloadTypeOK
  <2>3. PICK f \in pages[pair] : f.from = cur /\ f.to = PageEnd
    BY <2>1 DEF PageExists
  <2>4. PageSound(f)
    BY <2>3, PairTypes DEF FilesInv
  <2>5. ASSUME NEW t \in Window, t < PageEnd
        PROVE  \E g \in pages[pair] : t \in g.times
    <3>1. CASE t < cur
      BY <1>1, <3>1 DEF ProgressInv, PairWalked
    <3>2. CASE cur <= t
      BY <2>3, <2>4, <2>5, <3>2 DEF PageSound, Window
    <3> QED BY <3>1, <3>2, NumberTypes DEF Window
  <2>6. PairWalked'
    BY <1>1, <2>1, <2>5 DEF PairWalked, Window, pair
  <2>7. ProgressInv'
    BY <1>1, <2>1, <2>6, PageEndBounds DEF ProgressInv, WindowComplete, Window, pair
  <2> QED BY <1>2, <2>2, <2>7
<1>4. CASE FetchPage
  <2>1. pc' = "request" /\ attempt' = 0 /\ cur' = cur
    BY <1>4 DEF FetchPage
  <2>2. DownloadTypeOK'
    BY <1>1, <2>1, DownloadAssumption DEF TypeOK, DownloadTypeOK, Steps
  <2>3. ProgressInv'
    BY <1>1, <2>1 DEF ProgressInv, PairWalked, WindowComplete, Window, pair
  <2> QED BY <1>2, <2>2, <2>3
<1> QED BY <1>3, <1>4

\* An answer holds all candles of the page that have closed.
LEMMA AnsweredKeeps ==
    ASSUME TypeOK, DownloadInv, Answered
    PROVE  DownloadTypeOK' /\ DownloadInv'
<1> USE DEF DownloadInv
<1>1. /\ UNCHANGED <<now, pages, merged, turn, end, cur, attempt>>
      /\ pc = "request" /\ pc' = "write"
  BY DEF Answered
<1>2. PICK sound \in BOOLEAN : body' = [times |-> {t \in Opened : t < now}, sound |-> sound]
  BY DEF Answered
<1>3. FilesInv'
  BY <1>1, FilesFrame, NumberTypes
<1>4. body'.times = {t \in Opened : t < now} /\ body' \in [times : SUBSET Traded, sound : BOOLEAN]
  BY <1>2 DEF Opened
<1>5. DownloadTypeOK'
  BY <1>1, <1>4 DEF TypeOK, DownloadTypeOK, Steps
<1>6. cur < end /\ end <= now
  BY <1>1 DEF ProgressInv, FilesInv
<1>7. \A t \in body'.times : cur <= t /\ t < now
  BY <1>4 DEF Opened
<1>8. ASSUME NEW t \in Traded, cur <= t, t < PageEnd
      PROVE  t \in body'.times
  <2>1. t < now /\ t <= now /\ t <= PageEnd
    BY <1>6, <1>8, NumberTypes, PageEndBounds
  <2> QED BY <1>4, <1>8, <2>1 DEF Opened
<1>9. ProgressInv'
  BY <1>1, <1>6, <1>7, <1>8 DEF ProgressInv, PairWalked, WindowComplete, Window, pair, PageEnd
<1> QED BY <1>3, <1>5, <1>9

\* A failed request is repeated, or the program ends; so it does when a page cannot be written.
LEMMA RequestKeeps ==
    ASSUME TypeOK, DownloadInv, Retry \/ RequestFails \/ WriteFails
    PROVE  DownloadTypeOK' /\ DownloadInv'
<1> USE DEF DownloadInv
<1>1. UNCHANGED <<now, pages, merged, turn, end, cur, body>>
  BY DEF Retry, RequestFails, WriteFails
<1>2. CASE Retry
  <2>1. pc = "request" /\ pc' = pc /\ attempt < MaxAttempts - 1 /\ attempt' = attempt + 1
    BY <1>2 DEF Retry
  <2>2. FilesInv'
    BY <1>1, <2>1, FilesFrame, NumberTypes
  <2>3. attempt' \in 0..(MaxAttempts - 1)
    BY <2>1, DownloadAssumption DEF TypeOK, DownloadTypeOK
  <2>4. DownloadTypeOK'
    BY <1>1, <2>1, <2>3 DEF TypeOK, DownloadTypeOK
  <2>5. ProgressInv'
    BY <1>1, <2>1 DEF ProgressInv, PairWalked, WindowComplete, Window, pair
  <2> QED BY <2>2, <2>4, <2>5
<1>3. CASE RequestFails \/ WriteFails
  <2>1. pc' = "off" /\ attempt' = attempt
    BY <1>3 DEF RequestFails, WriteFails, Raise
  <2>2. FilesInv'
    BY <1>1, <2>1, FilesFrame, NumberTypes
  <2>3. DownloadTypeOK'
    BY <1>1, <2>1 DEF TypeOK, DownloadTypeOK, Steps
  <2>4. ProgressInv'
    BY <2>1 DEF ProgressInv, WindowComplete
  <2> QED BY <2>2, <2>3, <2>4
<1> QED BY <1>2, <1>3

\* A page is written: it takes the place of the file of its name, and of no other.
LEMMA WritePageKeeps ==
    ASSUME TypeOK, DownloadInv, WritePage
    PROVE  DownloadTypeOK' /\ DownloadInv'
<1> USE DEF DownloadInv
<1> DEFINE old == {f \in pages[pair] : f.from = cur /\ f.to = PageEnd}
           new == [from |-> cur, to |-> PageEnd, times |-> body.times, sound |-> body.sound]
<1>1. /\ UNCHANGED <<now, merged, turn, end, attempt>>
      /\ pc = "write" /\ pc' = "page" /\ cur' = PageEnd /\ body' = NoBody
      /\ pages' = [pages EXCEPT ![pair] = (pages[pair] \ old) \cup {new}]
  BY DEF WritePage
<1>2. /\ cur < end /\ end <= now /\ Length <= end
      /\ \A t \in body.times : cur <= t /\ t < now
      /\ \A t \in Traded : cur <= t /\ t < PageEnd => t \in body.times
  BY <1>1 DEF ProgressInv, FilesInv
<1>3. /\ new \in Pages /\ new.from = cur /\ new.to = PageEnd /\ new.times = body.times
      /\ \A p \in PairSet : pages[p] \in SUBSET Pages
      /\ pages[pair] \subseteq Pages /\ DOMAIN pages = PairSet
  BY PairTypes, NumberTypes, PageEndBounds DEF TypeOK, DownloadTypeOK, Pages
<1> HIDE DEF new
<1>4. /\ pages' \in [PairSet -> SUBSET Pages]
      /\ pages'[pair] = (pages[pair] \ old) \cup {new}
      /\ \A p \in PairSet : p # pair => pages'[p] = pages[p]
  BY <1>1, <1>3, PairTypes DEF TypeOK, DownloadTypeOK
<1>5. NoBody \in [times : SUBSET Traded, sound : BOOLEAN]
  BY DEF NoBody
<1>6. DownloadTypeOK'
  BY <1>1, <1>4, <1>5, PageEndBounds DEF TypeOK, DownloadTypeOK, Steps
<1>7. PageSound(new)
  BY <1>2, <1>3 DEF PageSound
<1>8. \A p \in PairSet : \A f \in pages'[p] : PageSound(f)
  BY <1>4, <1>7 DEF FilesInv
<1>9. FilesInv'
  BY <1>1, <1>2, <1>8 DEF FilesInv, PageSound
<1>10. ASSUME NEW t \in Window, t < PageEnd
       PROVE  \E g \in pages'[pair] : t \in g.times
  <2>1. CASE t < cur
    <3>1. PICK g \in pages[pair] : t \in g.times
      BY <1>1, <2>1 DEF ProgressInv, PairWalked
    <3>2. PageSound(g)
      BY <3>1, PairTypes DEF FilesInv
    <3>3. g.from <= t /\ t \in Nat /\ g \in Pages
      BY <1>3, <3>1, <3>2, NumberTypes DEF PageSound, Window
    <3>4. g \notin old
      BY <2>1, <3>3, NumberTypes DEF Pages
    <3> QED BY <1>4, <3>1, <3>4
  <2>2. CASE cur <= t
    BY <1>2, <1>3, <1>4, <1>10, <2>2 DEF Window
  <2> QED BY <2>1, <2>2, NumberTypes DEF Window
<1>11. PairWalked'
  BY <1>1, <1>10 DEF PairWalked, Window, pair
<1>12. ProgressInv'
  BY <1>1, <1>11, PageEndBounds DEF ProgressInv, WindowComplete, Window, pair
<1> QED BY <1>6, <1>9, <1>12

\* The pages of a pair are merged, all of them, or one of them raises.
LEMMA MergeKeeps ==
    ASSUME TypeOK, DownloadInv, Merge
    PROVE  DownloadTypeOK' /\ DownloadInv'
<1> USE DEF DownloadInv
<1>1. /\ UNCHANGED <<now, pages, turn, end, cur, attempt, body>>
      /\ pc = "page" /\ ~(cur < end)
  BY DEF Merge, PagesLeft
<1>2. CASE pc' = "off" /\ UNCHANGED merged
  <2>1. FilesInv'
    BY <1>1, <1>2, FilesFrame, NumberTypes
  <2>2. DownloadTypeOK'
    BY <1>1, <1>2 DEF TypeOK, DownloadTypeOK, Steps
  <2>3. ProgressInv'
    BY <1>2 DEF ProgressInv, WindowComplete
  <2> QED BY <2>1, <2>2, <2>3
<1>3. CASE /\ merged' = [merged EXCEPT ![pair] = UNION {f.times : f \in pages[pair]}]
           /\ pc' = "check"
  <2> DEFINE all == UNION {f.times : f \in pages[pair]}
  <2>1. all \subseteq Traded /\ \A t \in all : t < now
    <3>1. ASSUME NEW t \in all PROVE t \in Traded /\ t < now
      <4>1. PICK f \in pages[pair] : t \in f.times
        OBVIOUS
      <4>2. PageSound(f) /\ f \in Pages
        BY <4>1, PairTypes DEF FilesInv, TypeOK, DownloadTypeOK
      <4> QED BY <4>1, <4>2 DEF PageSound, Pages
    <3> QED BY <3>1
  <2>2. Window \subseteq all
    <3>1. ASSUME NEW t \in Window PROVE t \in all
      <4>1. t < cur
        BY <1>1, NumberTypes DEF Window
      <4>2. PICK f \in pages[pair] : t \in f.times
        BY <1>1, <4>1 DEF ProgressInv, PairWalked
      <4> QED BY <4>2
    <3> QED BY <3>1
  <2> HIDE DEF all
  <2>3. merged' = [merged EXCEPT ![pair] = all]
    BY <1>3 DEF all
  <2>4. /\ merged' \in [PairSet -> SUBSET Traded] /\ merged'[pair] = all
        /\ \A p \in PairSet : p # pair => merged'[p] = merged[p]
    BY <2>1, <2>3, PairTypes DEF TypeOK, DownloadTypeOK
  <2>5. DownloadTypeOK'
    BY <1>1, <1>3, <2>4 DEF TypeOK, DownloadTypeOK, Steps
  <2>6. \A p \in PairSet : \A t \in merged'[p] : t < now
    BY <2>1, <2>4 DEF FilesInv
  <2>7. FilesInv'
    BY <1>1, <2>6 DEF FilesInv, PageSound
  <2>8. \A i \in 1..(turn - 1) : Window \subseteq merged'[Pairs[i]]
    <3>1. ASSUME NEW i \in 1..(turn - 1) PROVE Window \subseteq merged'[Pairs[i]]
      <4>1. Pairs[i] \in PairSet /\ Window \subseteq merged[Pairs[i]]
        BY <1>1, PairTypes DEF ProgressInv
      <4> QED BY <2>2, <2>4, <4>1
    <3> QED BY <3>1
  <2>9. ProgressInv'
    BY <1>1, <1>3, <2>2, <2>4, <2>8 DEF ProgressInv, WindowComplete, Window, pair
  <2> QED BY <2>5, <2>7, <2>9
<1> QED BY <1>2, <1>3 DEF Merge, Raise

\* The next pair begins where this one ends; with the last one the data are there.
LEMMA JudgeKeeps ==
    ASSUME TypeOK, DownloadInv, Judge
    PROVE  DownloadTypeOK' /\ DownloadInv'
<1> USE DEF DownloadInv
<1>1. UNCHANGED <<now, pages, merged, end, attempt, body>> /\ pc = "check"
  BY DEF Judge
<1>2. FilesInv'
  BY <1>1, FilesFrame, NumberTypes
<1>3. \A i \in 1..turn : Window \subseteq merged[Pairs[i]]
  <2>1. ASSUME NEW i \in 1..turn PROVE Window \subseteq merged[Pairs[i]]
    <3>1. CASE i = turn
      BY <1>1, <3>1 DEF ProgressInv, pair
    <3>2. CASE i \in 1..(turn - 1)
      BY <1>1, <3>2 DEF ProgressInv
    <3> QED BY <3>1, <3>2, PairTypes
  <2> QED BY <2>1
<1>4. CASE pc' = "off" /\ UNCHANGED <<turn, cur>>
  <2>1. DownloadTypeOK'
    BY <1>1, <1>4 DEF TypeOK, DownloadTypeOK, Steps
  <2>2. ProgressInv'
    BY <1>4 DEF ProgressInv, WindowComplete
  <2> QED BY <1>2, <2>1, <2>2
<1>5. CASE turn < Len(Pairs) /\ pc' = "page" /\ turn' = turn + 1 /\ cur' = end - Length
  <2>1. turn' \in 1..Len(Pairs) /\ cur' \in Int /\ cur' <= end /\ turn' - 1 = turn
    <3>1. PICK n \in Nat : n = Len(Pairs)
      BY PairTypes
    <3>2. turn \in 1..n /\ turn < n
      BY <1>5, <3>1, PairTypes
    <3>3. turn + 1 \in 1..n /\ turn + 1 - 1 = turn
      BY <3>2
    <3>4. end - Length \in Int /\ end - Length <= end
      BY NumberTypes
    <3>5. turn' \in 1..Len(Pairs)
      BY <1>5, <3>1, <3>3, Zenon
    <3>6. turn' - 1 = turn
      <4>1. turn \in Int
        BY <3>2
      <4> QED BY <1>5, <4>1
    <3>7. cur' \in Int /\ cur' <= end
      BY <1>5, <3>4, Zenon
    <3> QED BY <3>5, <3>6, <3>7, Zenon
  <2>2. DownloadTypeOK'
    BY <1>1, <1>5, <2>1 DEF TypeOK, DownloadTypeOK, Steps
  <2>3. PairWalked'
    BY <1>1, <1>5, NumberTypes DEF PairWalked, Window
  <2>4. ProgressInv'
    BY <1>1, <1>3, <1>5, <2>1, <2>3 DEF ProgressInv, WindowComplete, Window
  <2> QED BY <1>2, <2>2, <2>4
<1>6. CASE ~(turn < Len(Pairs)) /\ pc' = "ready" /\ UNCHANGED <<turn, cur>>
  <2>1. DownloadTypeOK'
    BY <1>1, <1>6 DEF TypeOK, DownloadTypeOK, Steps
  <2>2. turn = Len(Pairs)
    BY <1>6, PairTypes
  <2>3. \A p \in PairSet : Window \subseteq merged[p]
    BY <1>3, <2>2, PairTypes
  <2>4. WindowComplete'
    BY <1>1, <2>3 DEF WindowComplete, Window
  <2>5. ProgressInv'
    BY <1>6, <2>4 DEF ProgressInv
  <2> QED BY <1>2, <2>1, <2>5
<1> QED BY <1>4, <1>5, <1>6 DEF Judge

LEMMA DownloadKeeps ==
    ASSUME TypeOK, DownloadInv, DownloadStep
    PROVE  DownloadTypeOK' /\ DownloadInv'
BY PageStepKeeps, AnsweredKeeps, RequestKeeps, WritePageKeeps, MergeKeeps, JudgeKeeps
   DEF DownloadStep

-----------------------------------------------------------------------------
(***************************************************************************)
(* Around the replay.                                                      *)
(***************************************************************************)
\* A step that is no part of a replay and leaves the ledger alone.
LEMMA OutsideKeeps ==
    ASSUME TypeOK, ReplayInv, DownloadTypeOK', DownloadInv',
           UNCHANGED <<replayVars, end>>, pc' \notin {"advance", "cycle"}
    PROVE  TypeOK' /\ ReplayInv'
<1>1. TypeOK'
  BY DEF TypeOK, replayVars
<1>2. WalkInv' /\ CoverInv' /\ EntersOnRecord'
  BY DEF WalkInv, CoverInv, EntersOnRecord, Replaying
<1>3. DenseInv'
  BY DEF ReplayInv, DenseInv, Recorded, ReplayStart, replayVars
<1> QED BY <1>1, <1>2, <1>3 DEF ReplayInv

LEMMA DownloadStepKeeps ==
    ASSUME TypeOK, ReplayInv, Download
    PROVE  TypeOK' /\ ReplayInv'
<1>1. DownloadTypeOK' /\ DownloadInv'
  BY DownloadKeeps DEF Download, ReplayInv
<1>2. UNCHANGED <<replayVars, end>> /\ pc' \notin {"advance", "cycle"}
  BY DEF Download, DownloadStep, SkipPage, FetchPage, Answered, Retry, RequestFails, WritePage,
         WriteFails, Merge, Judge, Raise
<1> QED BY <1>1, <1>2, OutsideKeeps

LEMMA EndsKeep ==
    ASSUME TypeOK, ReplayInv, FinishReplay \/ (Crash /\ UNCHANGED replayVars)
    PROVE  TypeOK' /\ ReplayInv'
<1>1. /\ pc # "off" /\ pc' = "off"
      /\ UNCHANGED <<now, pages, merged, turn, end, cur, attempt, body, replayVars>>
  BY DEF FinishReplay, Crash
<1>2. DownloadTypeOK'
  BY <1>1 DEF TypeOK, DownloadTypeOK, Steps
<1>3. FilesInv'
  BY <1>1, FilesFrame, NumberTypes DEF ReplayInv, DownloadInv
<1>4. ProgressInv'
  BY <1>1 DEF ProgressInv, WindowComplete
<1> QED BY <1>1, <1>2, <1>3, <1>4, OutsideKeeps DEF DownloadInv

LEMMA TickKeeps ==
    ASSUME TypeOK, ReplayInv, Tick, UNCHANGED replayVars
    PROVE  TypeOK' /\ ReplayInv'
<1>1. /\ now < MaxTime /\ now' = now + 1
      /\ UNCHANGED <<pages, merged, pc, turn, end, cur, attempt, body, replayVars>>
  BY DEF Tick
<1>2. now' \in Nat /\ now' >= now /\ now' \in Times
  BY <1>1, NumberTypes DEF Times
<1>3. DownloadTypeOK'
  BY <1>1, <1>2 DEF TypeOK, DownloadTypeOK
<1>4. FilesInv'
  BY <1>1, <1>2, FilesFrame DEF ReplayInv, DownloadInv
<1>5. pc = "write" => \A t \in body.times : cur <= t /\ t < now'
  <2>1. body.times \subseteq Traded
    BY DEF TypeOK, DownloadTypeOK
  <2> QED BY <1>2, <2>1, NumberTypes DEF ReplayInv, DownloadInv, ProgressInv
<1>6. ProgressInv'
  BY <1>1, <1>5
     DEF ReplayInv, DownloadInv, ProgressInv, PairWalked, WindowComplete, Window, pair, PageEnd
<1>7. TypeOK'
  BY <1>1, <1>3 DEF TypeOK, replayVars
<1>8. WalkInv' /\ DenseInv' /\ CoverInv' /\ EntersOnRecord'
  BY <1>1 DEF ReplayInv, WalkInv, DenseInv, CoverInv, EntersOnRecord, Replaying, InWindow,
              Recorded, ReplayStart, replayVars
<1> QED BY <1>4, <1>6, <1>7, <1>8 DEF ReplayInv, DownloadInv

\* A new start of main moves the window forward, never back.
LEMMA MainKeeps ==
    ASSUME TypeOK, ReplayInv, Main
    PROVE  TypeOK' /\ ReplayInv'
<1>1. /\ run < MaxRuns /\ run' = run + 1 /\ now >= Length
      /\ pc' = "page" /\ end' = now /\ cur' = now - Length /\ turn' = 1
      /\ attempt' = 0 /\ body' = NoBody
      /\ UNCHANGED <<now, pages, merged, clock, left, counts, lines, faults>>
  BY DEF Main, Call
<1>2. end <= now
  BY DEF ReplayInv, DownloadInv, FilesInv
<1>3. turn' \in 1..Len(Pairs) /\ cur' \in Int /\ cur' <= end' /\ end' \in Times
  <2>1. PICK n \in Nat \ {0} : n = Len(Pairs)
    BY PairTypes
  <2>2. 1 \in 1..n
    BY <2>1
  <2>3. now - Length \in Int /\ now - Length <= now
    BY NumberTypes
  <2>4. now \in Times
    BY DEF TypeOK, DownloadTypeOK
  <2> QED BY <1>1, <2>1, <2>2, <2>3, <2>4
<1>4. attempt' \in 0..(MaxAttempts - 1)
  BY <1>1, DownloadAssumption
<1>5. NoBody \in [times : SUBSET Traded, sound : BOOLEAN]
  BY DEF NoBody
<1>6. DownloadTypeOK'
  BY <1>1, <1>3, <1>4, <1>5 DEF TypeOK, DownloadTypeOK, Steps
<1>7. TypeOK'
  BY <1>1, <1>6, ReplayAssumption DEF TypeOK
<1>8. FilesInv'
  BY <1>1, NumberTypes DEF ReplayInv, DownloadInv, FilesInv, PageSound
<1>9. PairWalked'
  BY <1>1, NumberTypes DEF PairWalked, Window
<1>10. ProgressInv'
  BY <1>1, <1>3, <1>9 DEF ProgressInv, WindowComplete
<1>11. WalkInv' /\ CoverInv' /\ EntersOnRecord'
  BY <1>1 DEF WalkInv, CoverInv, EntersOnRecord, Replaying
<1>12. DenseInv'
  <2>1. \A t \in Traded : now - ReplayLength <= t => end - ReplayLength <= t
    BY <1>2, NumberTypes
  <2> QED BY <1>1, <2>1 DEF ReplayInv, DenseInv, Recorded, ReplayStart
<1> QED BY <1>7, <1>8, <1>10, <1>11, <1>12 DEF ReplayInv, DownloadInv

\* The records of this run that say ENTER_CANDIDATE.
Enters == {i \in DOMAIN lines : lines[i].run = run /\ lines[i].status = "ENTER_CANDIDATE"}

LEMMA EntersFinite ==
    ASSUME TypeOK
    PROVE  /\ DOMAIN lines = 1..Len(lines) /\ Len(lines) \in Nat
           /\ IsFiniteSet(Enters) /\ Cardinality(Enters) \in Nat
<1>1. lines \in Seq(Lines)
  BY DEF TypeOK
<1>2. DOMAIN lines = 1..Len(lines) /\ Len(lines) \in Nat
  BY <1>1
<1>3. IsFiniteSet(1..Len(lines))
  BY <1>2, FS_Interval
<1>4. IsFiniteSet(Enters)
  BY <1>2, <1>3, FS_Subset DEF Enters
<1> QED BY <1>2, <1>4, FS_CardinalityType

\* The timeline is every candle of the window that was merged, of any pair.
LEMMA StartReplayKeeps ==
    ASSUME TypeOK, ReplayInv, StartReplay
    PROVE  TypeOK' /\ ReplayInv'
<1>1. /\ pc = "ready" /\ pc' = "advance" /\ clock' = ReplayStart /\ counts' = NoCounts
      /\ left' = {t \in UNION {merged[p] : p \in PairSet} : ReplayStart <= t /\ t <= end}
      /\ UNCHANGED <<now, pages, merged, turn, end, cur, attempt, body, lines, run, faults>>
  BY DEF StartReplay
<1>2. DownloadTypeOK'
  BY <1>1 DEF TypeOK, DownloadTypeOK, Steps
<1>3. \A p \in PairSet : merged[p] \subseteq Traded /\ \A t \in merged[p] : t < now
  BY DEF ReplayInv, DownloadInv, FilesInv, TypeOK, DownloadTypeOK
<1>4. left' \subseteq Traded /\ \A t \in left' : t < now /\ InWindow(t)
  BY <1>1, <1>3 DEF InWindow
<1>5. TypeOK'
  <2>1. clock' \in Int
    BY <1>1, NumberTypes DEF ReplayStart
  <2>2. NoCounts \in [total : Nat, accepted : Nat, blocks : Nat, errors : Nat]
    BY DEF NoCounts
  <2> QED BY <1>1, <1>2, <1>4, <2>1, <2>2 DEF TypeOK
<1>6. FilesInv'
  BY <1>1, FilesFrame, NumberTypes DEF ReplayInv, DownloadInv
<1>7. ProgressInv'
  BY <1>1 DEF ReplayInv, DownloadInv, ProgressInv, WindowComplete
<1>8. WalkInv'
  <2>1. \A t \in left' : t \in Times /\ InWindow(t) /\ ReplayStart <= t
    BY <1>4, NumberTypes DEF Times, InWindow
  <2> QED BY <1>1, <2>1 DEF WalkInv, InWindow, ReplayStart
<1>9. DenseInv'
  BY <1>1 DEF ReplayInv, DenseInv, Recorded, ReplayStart
<1>10. CoverInv'
  <2>1. \A p \in PairSet : \A t \in merged[p] : InWindow(t) => t \in left'
    BY <1>1 DEF InWindow
  <2> QED BY <1>1, <2>1 DEF CoverInv, InWindow, ReplayStart
<1>11. EntersOnRecord'
  <2>1. counts.accepted' = 0
    BY <1>1 DEF NoCounts
  <2>2. Cardinality(Enters) \in Nat
    BY EntersFinite
  <2>3. 0 <= Cardinality(Enters)
    BY <2>2
  <2> QED BY <1>1, <2>1, <2>3 DEF EntersOnRecord, Enters
<1> QED BY <1>5, <1>6, <1>7, <1>8, <1>9, <1>10, <1>11 DEF ReplayInv, DownloadInv

\* The clock goes to the earliest instant that is left, which is every pair's turn.
LEMMA AdvanceKeeps ==
    ASSUME TypeOK, ReplayInv, Advance
    PROVE  TypeOK' /\ ReplayInv'
<1>1. /\ pc = "advance" /\ pc' = "cycle" /\ turn' = 1
      /\ UNCHANGED <<now, pages, merged, end, cur, attempt, body, counts, lines, run, faults>>
  BY DEF Advance
<1>2. PICK t \in left : (\A u \in left : t <= u) /\ t >= clock /\ clock' = t /\ left' = left \ {t}
  BY DEF Advance
<1>3. turn' \in 1..Len(Pairs)
  <2>1. PICK n \in Nat \ {0} : n = Len(Pairs)
    BY PairTypes
  <2>2. 1 \in 1..n
    BY <2>1
  <2> QED BY <1>1, <2>1, <2>2
<1>4. DownloadTypeOK'
  BY <1>1, <1>3 DEF TypeOK, DownloadTypeOK, Steps
<1>5. /\ left \subseteq Traded /\ t \in Traded /\ t \in Int
      /\ \A u \in left : u \in Times /\ InWindow(u)
  BY <1>1, NumberTypes DEF ReplayInv, WalkInv, Replaying, TypeOK
<1>6. TypeOK'
  BY <1>1, <1>2, <1>4, <1>5 DEF TypeOK
<1>7. FilesInv'
  BY <1>1, FilesFrame, NumberTypes DEF ReplayInv, DownloadInv
<1>8. ProgressInv'
  BY <1>1 DEF ReplayInv, DownloadInv, ProgressInv, WindowComplete
<1>9. WalkInv'
  <2>1. \A u \in left' : u \in Times /\ InWindow(u) /\ t <= u /\ t < u
    BY <1>2, <1>5, NumberTypes
  <2> QED BY <1>1, <1>2, <1>5, <2>1 DEF WalkInv, InWindow, ReplayStart
<1>10. DenseInv'
  BY <1>1 DEF ReplayInv, DenseInv, Recorded, ReplayStart
<1>11. CoverInv'
  <2>1. ASSUME faults = 0, NEW p \in PairSet, NEW u \in merged[p], InWindow(u)
        PROVE  \/ u \in left'
               \/ Recorded(p, u)
               \/ u = t /\ \E i \in 1..Len(Pairs) : Pairs[i] = p
    BY <1>1, <1>2, <2>1, PairTypes DEF ReplayInv, CoverInv, Replaying
  <2> QED BY <1>1, <1>2, <2>1 DEF CoverInv, InWindow, ReplayStart, Recorded
<1>12. EntersOnRecord'
  BY <1>1 DEF ReplayInv, EntersOnRecord
<1> QED BY <1>6, <1>7, <1>8, <1>9, <1>10, <1>11, <1>12 DEF ReplayInv, DownloadInv

-----------------------------------------------------------------------------
(***************************************************************************)
(* A cycle.                                                                *)
(***************************************************************************)
\* What every cycle leaves alone.
CycleFrame ==
    /\ pc = "cycle" /\ NextPair
    /\ UNCHANGED <<now, pages, merged, end, cur, attempt, body, clock, left, run>>

LEMMA TurnGoesOn ==
    ASSUME TypeOK, CycleFrame
    PROVE  /\ turn' \in 1..Len(Pairs)
           /\ \/ pc' = "cycle" /\ turn' = turn + 1
              \/ pc' = "advance" /\ turn = Len(Pairs) /\ turn' = turn
<1>1. PICK n \in Nat : n = Len(Pairs)
  BY PairTypes
<1>2. turn \in 1..n
  BY <1>1, PairTypes
<1>3. CASE turn < n
  <2>1. turn' = turn + 1 /\ pc' = "cycle"
    BY <1>1, <1>3 DEF CycleFrame, NextPair
  <2>2. turn + 1 \in 1..n
    BY <1>2, <1>3
  <2> QED BY <1>1, <2>1, <2>2, Zenon
<1>4. CASE ~(turn < n)
  <2>1. turn' = turn /\ pc' = "advance"
    BY <1>1, <1>4 DEF CycleFrame, NextPair
  <2>2. turn = n
    BY <1>2, <1>4
  <2> QED BY <1>1, <1>2, <2>1, <2>2, Zenon
<1> QED BY <1>3, <1>4

\* The download's side and the walk of a cycle's step.
LEMMA CycleFrameKeeps ==
    ASSUME TypeOK, ReplayInv, CycleFrame
    PROVE  DownloadTypeOK' /\ DownloadInv' /\ WalkInv'
<1>1. /\ pc = "cycle" /\ pc' \in {"cycle", "advance"} /\ turn' \in 1..Len(Pairs)
      /\ UNCHANGED <<now, pages, merged, end, cur, attempt, body, clock, left, run>>
  BY TurnGoesOn DEF CycleFrame
<1>2. DownloadTypeOK'
  BY <1>1 DEF TypeOK, DownloadTypeOK, Steps
<1>3. FilesInv'
  BY <1>1, FilesFrame, NumberTypes DEF ReplayInv, DownloadInv
<1>4. ProgressInv'
  BY <1>1 DEF ReplayInv, DownloadInv, ProgressInv, WindowComplete
<1>5. WalkInv'
  BY <1>1 DEF ReplayInv, WalkInv, Replaying, InWindow, ReplayStart
<1> QED BY <1>2, <1>3, <1>4, <1>5 DEF DownloadInv

\* The ledger of n records has got one more, with the clock and the run of the cycle.
Appended(n, s) ==
    /\ n = Len(lines) /\ DOMAIN lines = 1..n /\ DOMAIN lines' = 1..(n + 1)
    /\ \A i \in 1..n : lines'[i] = lines[i]
    /\ lines'[n + 1].time = clock /\ lines'[n + 1].pair = pair
    /\ lines'[n + 1].status = s /\ lines'[n + 1].run = run

LEMMA RecordAppended ==
    ASSUME TypeOK, ReplayInv, pc = "cycle", NEW s \in Statuses, lines' = Append1(s)
    PROVE  lines' \in Seq(Lines) /\ \E n \in Nat : Appended(n, s)
<1> DEFINE e == [time |-> clock, pair |-> pair, status |-> s, run |-> run]
<1>1. e \in Lines
  <2>1. clock \in Times /\ run \in Nat
    BY ReplayAssumption DEF ReplayInv, WalkInv, Replaying, TypeOK
  <2> QED BY <2>1, PairTypes DEF Lines
<1>2. lines \in Seq(Lines) /\ lines' = Append(lines, e)
  BY DEF TypeOK, Append1
<1>3. e.time = clock /\ e.pair = pair /\ e.status = s /\ e.run = run
  OBVIOUS
<1> HIDE DEF e
<1>4. PICK n \in Nat : n = Len(lines) /\ DOMAIN lines = 1..n
  BY <1>2
<1>5. lines' \in Seq(Lines)
  BY <1>1, <1>2
<1>6. /\ DOMAIN lines' = 1..(n + 1) /\ \A i \in 1..n : lines'[i] = lines[i]
      /\ lines'[n + 1] = e
  BY <1>1, <1>2, <1>4
<1>7. /\ lines'[n + 1].time = clock /\ lines'[n + 1].pair = pair
      /\ lines'[n + 1].status = s /\ lines'[n + 1].run = run
  BY <1>3, <1>6
<1>8. Appended(n, s)
  BY <1>4, <1>6, <1>7 DEF Appended
<1> QED BY <1>5, <1>8

\* What was on file stays there, and the cycle's instant and pair are there now.
LEMMA AppendRecorded ==
    ASSUME TypeOK, ReplayInv, pc = "cycle", NEW s \in Statuses, lines' = Append1(s),
           NEW p, NEW t, Recorded(p, t) \/ (p = pair /\ t = clock)
    PROVE  Recorded(p, t)'
<1>0. PICK n \in Nat : Appended(n, s)
  BY RecordAppended
<1>1. /\ DOMAIN lines = 1..n /\ DOMAIN lines' = 1..(n + 1)
      /\ \A i \in 1..n : lines'[i] = lines[i]
      /\ lines'[n + 1].time = clock /\ lines'[n + 1].pair = pair
  BY <1>0 DEF Appended
<1>2. n + 1 \in 1..(n + 1) /\ 1..n \subseteq 1..(n + 1)
  OBVIOUS
<1>3. \E i \in DOMAIN lines' : lines'[i].pair = p /\ lines'[i].time = t
  BY <1>1, <1>2 DEF Recorded
<1> QED BY <1>3 DEF Recorded

\* While nothing failed, every pair's candle before the clock is on file.
LEMMA PassedOnFile ==
    ASSUME TypeOK, ReplayInv, pc = "cycle", faults = 0, NEW p \in PairSet, NEW t \in Traded,
           ReplayStart <= t, t < clock
    PROVE  Recorded(p, t)
<1>1. clock \in Times /\ clock <= end /\ \A u \in left : clock < u
  BY DEF ReplayInv, WalkInv, Replaying, InWindow
<1>2. t < end /\ end - Length <= t /\ t <= end /\ t # clock /\ t \in Nat /\ clock \in Nat
  BY <1>1, NumberTypes DEF ReplayStart, Times
<1>3. t \in merged[p]
  BY <1>2 DEF ReplayInv, DownloadInv, ProgressInv, WindowComplete
<1>4. t \notin left
  BY <1>1, <1>2
<1> QED BY <1>2, <1>3, <1>4 DEF ReplayInv, CoverInv, Replaying, InWindow

\* The ledger stays dense, whether the cycle leaves its record or none.
LEMMA DenseKeeps ==
    ASSUME TypeOK, ReplayInv, CycleFrame, faults' = 0 => faults = 0,
           \/ UNCHANGED lines
           \/ \E s \in Statuses : lines' = Append1(s)
    PROVE  DenseInv'
<1>1. UNCHANGED <<end>> /\ pc = "cycle"
  BY DEF CycleFrame
<1>2. CASE UNCHANGED lines
  BY <1>1, <1>2 DEF ReplayInv, DenseInv, Recorded, ReplayStart
<1>3. ASSUME NEW s \in Statuses, lines' = Append1(s), faults = 0
      PROVE  \A i \in DOMAIN lines' : \A p \in PairSet : \A t \in Traded :
                 ReplayStart <= t /\ t < lines'[i].time => Recorded(p, t)'
  <2>0. PICK n \in Nat : Appended(n, s)
    BY <1>1, <1>3, RecordAppended
  <2>1. /\ DOMAIN lines = 1..n /\ DOMAIN lines' = 1..(n + 1)
        /\ \A i \in 1..n : lines'[i] = lines[i]
        /\ lines'[n + 1].time = clock
    BY <2>0 DEF Appended
  <2>2. ASSUME NEW i \in DOMAIN lines', NEW p \in PairSet, NEW t \in Traded,
               ReplayStart <= t, t < lines'[i].time
        PROVE  Recorded(p, t)
    <3>1. i \in 1..n \/ i = n + 1
      BY <2>1, <2>2
    <3>2. CASE i \in 1..n
      BY <1>3, <2>1, <2>2, <3>2 DEF ReplayInv, DenseInv
    <3>3. CASE i = n + 1
      BY <1>1, <1>3, <2>1, <2>2, <3>3, PassedOnFile
    <3> QED BY <3>1, <3>2, <3>3
  <2>3. \A p \in PairSet, t \in Traded : Recorded(p, t) => Recorded(p, t)'
    BY <1>1, <1>3, AppendRecorded
  <2> QED BY <2>2, <2>3
<1>4. CASE \E s \in Statuses : lines' = Append1(s)
  <2>1. faults' = 0 => \A i \in DOMAIN lines' : \A p \in PairSet : \A t \in Traded :
                 ReplayStart <= t /\ t < lines'[i].time => Recorded(p, t)'
    BY <1>3, <1>4
  <2> QED BY <1>1, <2>1 DEF DenseInv, ReplayStart
<1> QED BY <1>2, <1>4

\* The pair whose turn it was needs a record; the others are as they were.
LEMMA CoverKeeps ==
    ASSUME TypeOK, ReplayInv, CycleFrame, faults' = 0 => faults = 0,
           \A p \in PairSet, t \in Traded : Recorded(p, t) => Recorded(p, t)',
           faults = 0 => \A p \in PairSet, t \in Traded :
                             p = pair /\ t = clock => Recorded(p, t)'
    PROVE  CoverInv'
<1>1. UNCHANGED <<end, merged, left, clock>> /\ pc = "cycle"
  BY DEF CycleFrame
<1>2. \A p \in PairSet : merged[p] \subseteq Traded
  BY DEF TypeOK, DownloadTypeOK
<1>3. ASSUME faults = 0, NEW p \in PairSet, NEW t \in merged[p], InWindow(t),
             t \notin left, ~Recorded(p, t)'
      PROVE  pc' = "cycle" /\ t = clock /\ \E i \in turn'..Len(Pairs) : Pairs[i] = p
  <2>1. ~Recorded(p, t) /\ ~(p = pair /\ t = clock)
    BY <1>2, <1>3
  <2>2. PICK i \in turn..Len(Pairs) : Pairs[i] = p /\ t = clock
    BY <1>1, <1>3, <2>1 DEF ReplayInv, CoverInv, Replaying
  <2>3. i # turn
    BY <2>1, <2>2 DEF pair
  <2>4. PICK n \in Nat : n = Len(Pairs)
    BY PairTypes
  <2>5. turn \in 1..n /\ i \in (turn + 1)..n
    <3>1. turn \in 1..n /\ i \in turn..n
      BY <2>2, <2>4, PairTypes
    <3> QED BY <2>3, <3>1
  <2>6. pc' = "cycle" /\ turn' = turn + 1
    <3>1. ~(turn = n)
      BY <2>5
    <3> QED BY <2>4, <3>1, TurnGoesOn
  <2> QED BY <2>2, <2>4, <2>5, <2>6
<1>4. faults' = 0 => \A p \in PairSet : \A t \in merged[p] : InWindow(t) =>
         \/ t \in left
         \/ Recorded(p, t)'
         \/ pc' = "cycle" /\ t = clock /\ \E i \in turn'..Len(Pairs) : Pairs[i] = p
  BY <1>3
<1> QED BY <1>1, <1>4 DEF CoverInv, InWindow, ReplayStart

\* _classify_cycle counts one accepted candidate, or none.
LEMMA ClassifiedProperties ==
    ASSUME TypeOK, NEW s \in Statuses
    PROVE  /\ Classified(counts, s) \in [total : Nat, accepted : Nat, blocks : Nat, errors : Nat]
           /\ Classified(counts, s).accepted = IF s = "ENTER_CANDIDATE" THEN counts.accepted + 1
                                               ELSE counts.accepted
<1> DEFINE C == [total : Nat, accepted : Nat, blocks : Nat, errors : Nat]
           a == IF s = "ENTER_CANDIDATE" THEN counts.accepted + 1 ELSE counts.accepted
           b == IF s = "BLOCK" THEN counts.blocks + 1 ELSE counts.blocks
<1>1. counts \in C /\ a \in Nat /\ b \in Nat /\ counts.total + 1 \in Nat
  BY DEF TypeOK
<1>2. PICK c1 : c1 = [counts EXCEPT !.total = counts.total + 1]
  OBVIOUS
<1>3. c1 \in C
  BY <1>1, <1>2
<1>4. PICK c2 : c2 = [c1 EXCEPT !.accepted = a]
  OBVIOUS
<1>5. c2 \in C /\ c2.accepted = a
  BY <1>1, <1>3, <1>4
<1>6. Classified(counts, s) = [c2 EXCEPT !.blocks = b]
  BY <1>2, <1>4, Zenon DEF Classified
<1> QED BY <1>1, <1>5, <1>6

\* Accepted candidates and records of the run go up together, or the records alone.
LEMMA EntersKeep ==
    ASSUME TypeOK, ReplayInv, CycleFrame, counts'.accepted \in Nat,
           \/ UNCHANGED lines /\ counts'.accepted = counts.accepted
           \/ \E s \in Statuses :
                 /\ lines' = Append1(s)
                 /\ \/ counts'.accepted = counts.accepted
                    \/ s = "ENTER_CANDIDATE" /\ counts'.accepted = counts.accepted + 1
    PROVE  EntersOnRecord'
<1>1. pc = "cycle" /\ run' = run
  BY DEF CycleFrame
<1>2. counts.accepted <= Cardinality(Enters) /\ counts.accepted \in Nat
  BY <1>1 DEF ReplayInv, EntersOnRecord, Enters, TypeOK
<1>3. CASE UNCHANGED lines /\ counts'.accepted = counts.accepted
  BY <1>1, <1>2, <1>3 DEF EntersOnRecord, Enters
<1>4. ASSUME NEW s \in Statuses, lines' = Append1(s),
             \/ counts'.accepted = counts.accepted
             \/ s = "ENTER_CANDIDATE" /\ counts'.accepted = counts.accepted + 1
      PROVE  counts'.accepted <= Cardinality(Enters')
  <2>1. PICK n \in Nat : Appended(n, s)
    BY <1>1, <1>4, RecordAppended
  <2>2. /\ DOMAIN lines = 1..n /\ DOMAIN lines' = 1..(n + 1)
        /\ \A i \in 1..n : lines'[i] = lines[i]
        /\ lines'[n + 1].status = s /\ lines'[n + 1].run = run
    BY <2>1 DEF Appended
  <2>3. n + 1 \in 1..(n + 1) /\ n + 1 \notin 1..n /\ 1..n \subseteq 1..(n + 1)
        /\ \A i \in 1..(n + 1) : i \in 1..n \/ i = n + 1
    OBVIOUS
  <2>4. IsFiniteSet(Enters) /\ Cardinality(Enters) \in Nat
    BY EntersFinite
  <2>5. CASE s = "ENTER_CANDIDATE"
    <3>1. Enters' = Enters \cup {n + 1} /\ n + 1 \notin Enters
      BY <1>1, <2>2, <2>3, <2>5 DEF Enters
    <3>2. Cardinality(Enters') = Cardinality(Enters) + 1
      BY <2>4, <3>1, FS_AddElement
    <3> QED BY <1>2, <1>4, <2>4, <3>2
  <2>6. CASE s # "ENTER_CANDIDATE"
    <3>1. Enters' = Enters
      BY <1>1, <2>2, <2>3, <2>6 DEF Enters
    <3> QED BY <1>2, <1>4, <2>6, <3>1
  <2> QED BY <2>5, <2>6
<1>5. CASE counts'.accepted <= Cardinality(Enters')
  BY <1>5 DEF EntersOnRecord, Enters
<1> QED BY <1>3, <1>4, <1>5

LEMMA CycleKeeps ==
    ASSUME TypeOK, ReplayInv, CycleRecorded \/ CycleRefused \/ RecordFails \/ CycleRaises
    PROVE  TypeOK' /\ ReplayInv'
<1>1. /\ CycleFrame /\ pc = "cycle"
      /\ UNCHANGED <<clock, left, run>>
  BY DEF CycleRecorded, CycleRefused, RecordFails, CycleRaises, CycleFrame
<1>2. DownloadTypeOK' /\ DownloadInv' /\ WalkInv'
  BY <1>1, CycleFrameKeeps
<1>3. /\ "BLOCK" \in Statuses /\ "BLOCK" # "ENTER_CANDIDATE"
      /\ faults \in 0..MaxFaults /\ faults \in Nat /\ MaxFaults \in Nat
      /\ counts \in [total : Nat, accepted : Nat, blocks : Nat, errors : Nat]
      /\ lines \in Seq(Lines)
  BY ReplayAssumption DEF Statuses, TypeOK
<1>4. CASE CycleRecorded
  <2>1. PICK s \in Statuses : lines' = Append1(s) /\ counts' = Classified(counts, s)
    BY <1>4 DEF CycleRecorded
  <2>2. UNCHANGED faults
    BY <1>4 DEF CycleRecorded
  <2>3. TypeOK'
    <3>1. lines' \in Seq(Lines)
      BY <1>1, <2>1, RecordAppended
    <3>2. counts' \in [total : Nat, accepted : Nat, blocks : Nat, errors : Nat]
      BY <2>1, ClassifiedProperties
    <3> QED BY <1>1, <1>2, <1>3, <2>2, <3>1, <3>2 DEF TypeOK
  <2>4. DenseInv'
    BY <1>1, <2>1, <2>2, DenseKeeps
  <2>5. CoverInv'
    <3>1. \A p \in PairSet, t \in Traded :
              Recorded(p, t) \/ (p = pair /\ t = clock) => Recorded(p, t)'
      BY <1>1, <2>1, AppendRecorded
    <3> QED BY <1>1, <2>2, <3>1, CoverKeeps
  <2>6. EntersOnRecord'
    <3>1. counts'.accepted \in Nat
      BY <2>3 DEF TypeOK
    <3>2. \/ counts'.accepted = counts.accepted
          \/ s = "ENTER_CANDIDATE" /\ counts'.accepted = counts.accepted + 1
      BY <2>1, ClassifiedProperties
    <3> QED BY <1>1, <2>1, <3>1, <3>2, EntersKeep
  <2> QED BY <1>2, <2>3, <2>4, <2>5, <2>6 DEF ReplayInv
<1>5. CASE CycleRefused
  <2>1. Refused /\ counts' = Classified(counts, "BLOCK") /\ UNCHANGED <<lines, faults>>
    BY <1>5 DEF CycleRefused
  <2>2. TypeOK'
    BY <1>1, <1>2, <1>3, <2>1, ClassifiedProperties DEF TypeOK
  <2>3. DenseInv'
    BY <1>1, <2>1, DenseKeeps
  <2>4. \A p \in PairSet, t \in Traded : Recorded(p, t) => Recorded(p, t)'
    BY <2>1 DEF Recorded
  <2>5. faults = 0 => \A p \in PairSet, t \in Traded : p = pair /\ t = clock => Recorded(p, t)'
    <3>1. PICK i \in DOMAIN lines : lines[i].time > clock
      BY <2>1 DEF Refused
    <3>2. ReplayStart <= clock /\ clock < lines[i].time
      <4>1. lines[i] \in Lines
        BY <1>3, <3>1
      <4>2. lines[i].time \in Nat
        BY <4>1 DEF Lines, Times
      <4>3. clock \in Nat /\ ReplayStart <= clock
        BY <1>1 DEF ReplayInv, WalkInv, Replaying, InWindow, Times
      <4> QED BY <3>1, <4>2, <4>3
    <3>3. faults = 0 => \A p \in PairSet, t \in Traded :
                            p = pair /\ t = clock => Recorded(p, t)
      BY <3>1, <3>2 DEF ReplayInv, DenseInv
    <3> QED BY <2>4, <3>3
  <2>6. CoverInv'
    BY <1>1, <2>1, <2>4, <2>5, CoverKeeps
  <2>7. EntersOnRecord'
    <3>1. counts'.accepted = counts.accepted /\ counts'.accepted \in Nat
      BY <1>3, <2>1, ClassifiedProperties
    <3> QED BY <1>1, <2>1, <3>1, EntersKeep
  <2> QED BY <1>2, <2>2, <2>3, <2>6, <2>7 DEF ReplayInv
<1>6. CASE RecordFails
  <2>1. /\ counts' = Classified(counts, "BLOCK") /\ faults' = faults + 1 /\ faults < MaxFaults
        /\ \/ UNCHANGED lines
           \/ \E s \in Statuses : lines' = Append1(s)
    BY <1>6 DEF RecordFails
  <2>2. lines' \in Seq(Lines)
    BY <1>1, <1>3, <2>1, RecordAppended
  <2>3. TypeOK'
    BY <1>1, <1>2, <1>3, <2>1, <2>2, ClassifiedProperties DEF TypeOK
  <2>4. faults' # 0
    BY <1>3, <2>1
  <2>5. DenseInv' /\ CoverInv'
    BY <2>4 DEF DenseInv, CoverInv
  <2>6. EntersOnRecord'
    <3>1. counts'.accepted = counts.accepted /\ counts'.accepted \in Nat
      BY <1>3, <2>1, ClassifiedProperties
    <3> QED BY <1>1, <2>1, <3>1, EntersKeep
  <2> QED BY <1>2, <2>3, <2>5, <2>6 DEF ReplayInv
<1>7. CASE CycleRaises
  <2>1. /\ counts' = [counts EXCEPT !.errors = counts.errors + 1] /\ UNCHANGED lines
        /\ faults' = faults + 1 /\ faults < MaxFaults
    BY <1>7 DEF CycleRaises
  <2>2. /\ counts' \in [total : Nat, accepted : Nat, blocks : Nat, errors : Nat]
        /\ counts'.accepted = counts.accepted
    BY <1>3, <2>1
  <2>3. TypeOK'
    BY <1>1, <1>2, <1>3, <2>1, <2>2 DEF TypeOK
  <2>4. faults' # 0
    BY <1>3, <2>1
  <2>5. DenseInv' /\ CoverInv'
    BY <2>4 DEF DenseInv, CoverInv
  <2>6. EntersOnRecord'
    BY <1>1, <2>1, <2>2, EntersKeep
  <2> QED BY <1>2, <2>3, <2>5, <2>6 DEF ReplayInv
<1> QED BY <1>4, <1>5, <1>6, <1>7

-----------------------------------------------------------------------------
(***************************************************************************)
(* The specification.                                                      *)
(***************************************************************************)
LEMMA ReplayInit == Init => TypeOK /\ ReplayInv
<1> SUFFICES ASSUME Init PROVE TypeOK /\ ReplayInv
  OBVIOUS
<1> USE DEF Init, DownloadInit
<1>1. Len(Pairs) \in Nat \ {0}
  BY DownloadAssumption
<1>2. turn \in 1..Len(Pairs)
  <2>1. PICK n \in Nat \ {0} : n = Len(Pairs)
    BY <1>1
  <2>2. 1 \in 1..n
    BY <2>1
  <2> QED BY <2>1, <2>2
<1>3. /\ now \in Times /\ end \in Times /\ attempt \in 0..(MaxAttempts - 1) /\ run \in 0..MaxRuns
      /\ faults \in 0..MaxFaults
  BY DownloadAssumption, ReplayAssumption DEF Times
<1>4. DownloadTypeOK
  BY <1>2, <1>3 DEF DownloadTypeOK, NoBody, Steps
<1>5. TypeOK
  <2>1. lines \in Seq(Lines)
    OBVIOUS
  <2>2. counts \in [total : Nat, accepted : Nat, blocks : Nat, errors : Nat]
    BY DEF NoCounts
  <2> QED BY <1>3, <1>4, <2>1, <2>2 DEF TypeOK
<1>6. FilesInv
  BY DEF FilesInv
<1>7. ProgressInv
  BY DEF ProgressInv, WindowComplete
<1>8. WalkInv /\ CoverInv /\ EntersOnRecord
  BY DEF WalkInv, CoverInv, EntersOnRecord, Replaying
<1>9. DenseInv
  <2>1. DOMAIN lines = {}
    OBVIOUS
  <2> QED BY <2>1 DEF DenseInv
<1> QED BY <1>5, <1>6, <1>7, <1>8, <1>9 DEF ReplayInv, DownloadInv

LEMMA ReplayStep == TypeOK /\ ReplayInv /\ [Next]_vars => TypeOK' /\ ReplayInv'
<1> SUFFICES ASSUME TypeOK, ReplayInv, [Next]_vars PROVE TypeOK' /\ ReplayInv'
  OBVIOUS
<1>1. CASE Main
  BY <1>1, MainKeeps
<1>2. CASE Download
  BY <1>2, DownloadStepKeeps
<1>3. CASE StartReplay
  BY <1>3, StartReplayKeeps
<1>4. CASE Advance
  BY <1>4, AdvanceKeeps
<1>5. CASE FinishReplay \/ (Crash /\ UNCHANGED replayVars)
  BY <1>5, EndsKeep
<1>6. CASE CycleRecorded \/ CycleRefused \/ RecordFails \/ CycleRaises
  BY <1>6, CycleKeeps
<1>7. CASE Tick /\ UNCHANGED replayVars
  BY <1>7, TickKeeps
<1>8. CASE UNCHANGED vars
  <2> USE <1>8 DEF vars, downloadVars
  <2>1. TypeOK'
    BY DEF TypeOK, DownloadTypeOK
  <2>2. DownloadInv'
    BY DEF ReplayInv, DownloadInv, FilesInv, PageSound, ProgressInv, PairWalked, WindowComplete,
           Window, pair, PageEnd
  <2>3. WalkInv' /\ DenseInv' /\ CoverInv' /\ EntersOnRecord'
    BY DEF ReplayInv, WalkInv, DenseInv, CoverInv, EntersOnRecord, Replaying, InWindow,
           Recorded, ReplayStart
  <2> QED BY <2>1, <2>2, <2>3 DEF ReplayInv
<1> QED BY <1>1, <1>2, <1>3, <1>4, <1>5, <1>6, <1>7, <1>8 DEF Next

\* The invariant holds in every reachable state of the download and the replay.
THEOREM ReplayInductive == Spec => [](TypeOK /\ ReplayInv)
BY ReplayInit, ReplayStep, PTL DEF Spec

\* The download, the cache and the replay keep their types through retries, crashes and
\* starts of main.
THEOREM ReplayTypes == Spec => []TypeOK
BY ReplayInductive, PTL

\* When main has its data, they hold every candle of the window that had closed, of every
\* pair (DataLoader.load, write_merged): crashes and pages left behind leave no hole.
THEOREM WindowSafe == Spec => []WindowComplete
BY ReplayInductive, PTL DEF ReplayInv, DownloadInv, ProgressInv

\* Every accepted candidate of the replay's result is a record that this run wrote.
THEOREM EntersSafe == Spec => []EntersOnRecord
BY ReplayInductive, PTL DEF ReplayInv

\* A replay that has walked its timeline without a failure leaves a decision for every pair
\* and candle of the window, though the ledger refused what an earlier start had written.
THEOREM CoveredSafe == Spec => []ReplayCovered
<1>1. TypeOK /\ ReplayInv => ReplayCovered
  <2> SUFFICES ASSUME TypeOK, ReplayInv, pc = "advance", left = {}, faults = 0,
                      NEW p \in PairSet, NEW t \in merged[p], t \in ReplayStart..end
               PROVE  \E i \in DOMAIN lines : lines[i].pair = p /\ lines[i].time = t
    BY DEF ReplayCovered
  <2>1. InWindow(t)
    BY NumberTypes DEF InWindow, ReplayStart
  <2> QED BY <2>1 DEF ReplayInv, CoverInv, Replaying, Recorded
<1> QED BY <1>1, ReplayInductive, PTL
=============================================================================
