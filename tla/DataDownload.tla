---------------------------- MODULE DataDownload ----------------------------
(***************************************************************************)
(* The history download of V4 (live_data/data_loader.py, data_cache.py,    *)
(* oanda_readonly_client.py, data_quality_checker.py) as the main of       *)
(* run_live_replay.py calls it: pair after pair, the window that ends now  *)
(* is walked in pages, a page that is on disk is skipped, the others are   *)
(* requested with retries and written atomically, all pages of the pair    *)
(* are validated and merged, and the merged candles judged.                *)
(*                                                                         *)
(* A candle is named by the instant at which it opens and is complete one  *)
(* unit of time later.  The server answers a window with the candles that  *)
(* have opened in it, both ends included.                                  *)
(***************************************************************************)
EXTENDS Integers, Sequences, FiniteSets

CONSTANTS Pairs,        \* the pairs, a sequence in main's order
          Traded,       \* the instants at which a candle opens
          Length,       \* of a window: two years
          Span,         \* of a page: 4500 candles
          MaxAttempts,  \* _MAX_RETRIES
          MinBars,      \* least number of candles: 1000
          MissFactor,   \* at most 1/50 of the candles may be missing
          WeekendGaps,  \* lengths of a gap that pass for a weekend
          MaxTime       \* bound of the model

PairSet == {Pairs[i] : i \in DOMAIN Pairs}

ASSUME DownloadAssumption ==
    /\ Pairs \in Seq(PairSet) /\ Pairs # <<>>
    /\ Traded \subseteq Nat /\ WeekendGaps \subseteq Nat
    /\ Length \in Nat \ {0} /\ Span \in Nat \ {0} /\ MaxAttempts \in Nat \ {0}
    /\ MinBars \in Nat /\ MissFactor \in Nat /\ MaxTime \in Nat

VARIABLES now,          \* the wall clock
          pages,        \* per pair the page files: [from, to, times, sound]
          merged,       \* per pair the candles of merged.jsonl
          pc,           \* what the process is doing; "off": there is none
          turn,         \* index of the pair
          end,          \* end_date, fixed by main
          cur,          \* from where the next page begins
          attempt,      \* requests made for the page
          body          \* the answer: [times, sound]

downloadVars == <<now, pages, merged, pc, turn, end, cur, attempt, body>>

Pages == [from : Int, to : Int, times : SUBSET Traded, sound : BOOLEAN]
NoBody == [times |-> {}, sound |-> TRUE]
Steps == {"off", "page", "request", "write", "check", "ready", "advance", "cycle"}
Times == 0..MaxTime

DownloadTypeOK ==
    /\ now \in Times /\ end \in Times /\ cur \in Int
    /\ pages \in [PairSet -> SUBSET Pages]
    /\ merged \in [PairSet -> SUBSET Traded]
    /\ pc \in Steps /\ turn \in 1..Len(Pairs)
    /\ attempt \in 0..(MaxAttempts - 1)
    /\ body \in [times : SUBSET Traded, sound : BOOLEAN]

DownloadInit ==
    /\ now = 0 /\ end = 0 /\ cur = 0 /\ attempt = 0 /\ body = NoBody
    /\ pages = [p \in PairSet |-> {}] /\ merged = [p \in PairSet |-> {}]
    /\ pc = "off" /\ turn = 1

-----------------------------------------------------------------------------
pair == Pairs[turn]

\* plan_pages: the pages tile the window, the last one may be short.
PageEnd == IF cur + Span < end THEN cur + Span ELSE end

\* The loop of plan_pages.
PagesLeft == cur < end

\* page_exists: the file is there and not empty.
PageExists ==
    \E f \in pages[pair] :
        f.from = cur /\ f.to = PageEnd /\ (f.times # {} \/ ~f.sound)

\* The candles of the page that the server knows now.
Opened == {t \in Traded : cur <= t /\ t <= PageEnd /\ t <= now}

\* An exception that main does not catch.
Raise == pc' = "off"

\* main starts: end_date is now.
Call(e) ==
    /\ pc = "off" /\ e >= Length
    /\ pc' = "page" /\ end' = e /\ cur' = e - Length /\ turn' = 1
    /\ attempt' = 0 /\ body' = NoBody
    /\ UNCHANGED <<now, pages, merged>>

SkipPage ==
    /\ pc = "page" /\ PagesLeft /\ PageExists
    /\ cur' = PageEnd
    /\ UNCHANGED <<now, pages, merged, pc, turn, end, attempt, body>>

FetchPage ==
    /\ pc = "page" /\ PagesLeft /\ ~PageExists
    /\ pc' = "request" /\ attempt' = 0
    /\ UNCHANGED <<now, pages, merged, turn, end, cur, body>>

\* _get gets a 200 and parses it; the last candle may be unfinished and is
\* dropped by its flag.  An answer that is not sound holds a candle which
\* the validation of the cache refuses, but not the barrier of write_page.
Answered ==
    /\ pc = "request"
    /\ \E sound \in BOOLEAN : body' = [times |-> {t \in Opened : t < now}, sound |-> sound]
    /\ pc' = "write"
    /\ UNCHANGED <<now, pages, merged, turn, end, cur, attempt>>

\* Mutant of Retry: it never gives up.
RetryForever ==
    /\ pc = "request"
    /\ attempt' = attempt + 1
    /\ UNCHANGED <<now, pages, merged, pc, turn, end, cur, body>>

\* 429, 5xx or URLError: back off and try again, but not after the last.
Retry ==
    /\ pc = "request" /\ attempt < MaxAttempts - 1
    /\ attempt' = attempt + 1
    /\ UNCHANGED <<now, pages, merged, pc, turn, end, cur, body>>

\* Mutant of RequestFails: the page is given up, the download goes on.
RequestFailsOver ==
    /\ pc = "request"
    /\ pc' = "page" /\ cur' = PageEnd
    /\ UNCHANGED <<now, pages, merged, turn, end, attempt, body>>

\* Retries exhausted, another HTTP error, or an error that _get lets through
\* (a timeout while reading, an answer that is not JSON).
RequestFails ==
    /\ pc = "request"
    /\ Raise
    /\ UNCHANGED <<now, pages, merged, turn, end, cur, attempt, body>>

\* write_page: a temporary file, then os.replace.
WritePage ==
    /\ pc = "write"
    /\ LET old == {f \in pages[pair] : f.from = cur /\ f.to = PageEnd} IN
       pages' = [pages EXCEPT ![pair] =
           (@ \ old) \cup {[from |-> cur, to |-> PageEnd,
                            times |-> body.times, sound |-> body.sound]}]
    /\ cur' = PageEnd /\ pc' = "page" /\ body' = NoBody
    /\ UNCHANGED <<now, merged, turn, end, attempt>>

\* A number that is not finite, or the disk: the temporary file is removed.
WriteFails ==
    /\ pc = "write"
    /\ Raise
    /\ UNCHANGED <<now, pages, merged, turn, end, cur, attempt, body>>

\* write_merged: every page of the pair, also those of other windows; one
\* record that fails validation raises.
Merge ==
    /\ pc = "page" /\ ~PagesLeft
    /\ IF \A f \in pages[pair] : f.sound
       THEN /\ merged' = [merged EXCEPT ![pair] = UNION {f.times : f \in pages[pair]}]
            /\ pc' = "check"
       ELSE Raise /\ UNCHANGED merged
    /\ UNCHANGED <<now, pages, turn, end, cur, attempt, body>>

\* check_quality: the candles missing between neighbours, weekends apart.
GapAfter(S, t) ==
    LET later == {u \in S : u > t} IN
    IF later = {} THEN 1 ELSE (CHOOSE u \in later : \A v \in later : u <= v) - t
MissingBetween(S) ==
    Cardinality({m \in 0..MaxTime : \E t \in S :
        /\ GapAfter(S, t) \notin WeekendGaps
        /\ t < m /\ m < t + GapAfter(S, t)})

\* is_acceptable; the merged file has no duplicates and no open candles.
Acceptable(S) ==
    /\ Cardinality(S) >= MinBars
    /\ MissFactor * MissingBetween(S) <= Cardinality(S)

\* main goes on to the next pair, to the replay, or returns 3.
Judge ==
    /\ pc = "check"
    /\ IF ~Acceptable(merged[pair]) THEN pc' = "off" /\ UNCHANGED <<turn, cur>>
       ELSE IF turn < Len(Pairs)
       THEN pc' = "page" /\ turn' = turn + 1 /\ cur' = end - Length
       ELSE pc' = "ready" /\ UNCHANGED <<turn, cur>>
    /\ UNCHANGED <<now, pages, merged, end, attempt, body>>

Tick ==
    /\ now < MaxTime
    /\ now' = now + 1
    /\ UNCHANGED <<pages, merged, pc, turn, end, cur, attempt, body>>

Crash ==
    /\ pc # "off"
    /\ pc' = "off"
    /\ UNCHANGED <<now, pages, merged, turn, end, cur, attempt, body>>

DownloadStep ==
    \/ SkipPage \/ FetchPage \/ Answered \/ Retry \/ RequestFails
    \/ WritePage \/ WriteFails \/ Merge \/ Judge

-----------------------------------------------------------------------------
(* When main has its data, every candle of the two-year window that had    *)
(* closed by end_date is in the merged file of each pair - whatever runs   *)
(* crashed, gave up or left pages behind before.                           *)
WindowComplete ==
    pc \in {"ready", "advance", "cycle"} =>
        \A p \in PairSet : {t \in Traded : end - Length <= t /\ t < end} \subseteq merged[p]
=============================================================================
