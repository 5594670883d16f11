---------------------------- MODULE AsyncWriter ----------------------------
(***************************************************************************)
(* The batched writer of HYDRA V3's notebook                               *)
(* (HYDRA V3/smartnotebook/v3/async_writer.py).  The caller's thread puts  *)
(* events on a bounded queue; a daemon thread moves them into a batch and  *)
(* writes the batch when it is full or the flush interval is over.  Events *)
(* are alike here, so queue and batch are their lengths.  The write itself *)
(* (Storage.write_event) catches its exceptions, so it never raises.       *)
(***************************************************************************)
EXTENDS Naturals

CONSTANTS MaxQueue,     \* Queue(maxsize=10000)
          BatchSize     \* batch_size=50
ASSUME WriterAssumption == MaxQueue \in Nat \ {0} /\ BatchSize \in Nat \ {0}

VARIABLES queued,       \* queue.qsize()
          batch,        \* len(batch), a local of the thread
          submitted, written, dropped,      \* the writer's counters
          handled,      \* observer: events this process gave to write_fn
          stopFlag,     \* _stop
          thread        \* where the daemon thread is

writerVars == <<queued, batch, submitted, written, dropped, handled, stopFlag, thread>>
Threads == {"loop", "flush", "drain", "rest", "dead"}

WriterTypeOK ==
    /\ queued \in 0..MaxQueue
    /\ batch \in 0..BatchSize
    /\ submitted \in Nat /\ written \in Nat /\ dropped \in Nat /\ handled \in Nat
    /\ stopFlag \in BOOLEAN /\ thread \in Threads

\* A new process: __init__ starts the thread with an empty queue.
FreshWriter ==
    /\ queued = 0 /\ batch = 0
    /\ submitted = 0 /\ written = 0 /\ dropped = 0 /\ handled = 0
    /\ stopFlag = FALSE /\ thread = "loop"

RestartWriter ==
    /\ queued' = 0 /\ batch' = 0
    /\ submitted' = 0 /\ written' = 0 /\ dropped' = 0 /\ handled' = 0
    /\ stopFlag' = FALSE /\ thread' = "loop"

\* put_nowait by the caller: a full queue refuses the event and counts it as
\* dropped, but not as submitted.
SubmitEvent ==
    /\ IF queued < MaxQueue
       THEN queued' = queued + 1 /\ submitted' = submitted + 1 /\ UNCHANGED dropped
       ELSE dropped' = dropped + 1 /\ UNCHANGED <<queued, submitted>>
    /\ UNCHANGED <<batch, written, handled, stopFlag, thread>>

\* Mutant of GetEvent: only the interval ends a batch.
GetEventByTime ==
    /\ thread = "loop" /\ ~stopFlag /\ queued > 0
    /\ queued' = queued - 1
    /\ batch' = batch + 1
    /\ thread' \in {"flush", "loop"}
    /\ UNCHANGED <<submitted, written, dropped, handled, stopFlag>>

\* One turn of the loop with an event.  Whether the interval is over is
\* the clock's choice.
GetEvent ==
    /\ thread = "loop" /\ ~stopFlag /\ queued > 0
    /\ queued' = queued - 1
    /\ batch' = batch + 1
    /\ \E elapsed \in BOOLEAN :
           thread' = IF elapsed \/ batch' >= BatchSize THEN "flush" ELSE "loop"
    /\ UNCHANGED <<submitted, written, dropped, handled, stopFlag>>

\* Mutant of GetTimesOut: a batch that is not full keeps waiting.
GetTimesOutFull ==
    /\ thread = "loop" /\ ~stopFlag /\ queued = 0 /\ batch >= BatchSize
    /\ thread' = "flush"
    /\ UNCHANGED <<queued, batch, submitted, written, dropped, handled, stopFlag>>

\* One turn whose get timed out: it waited for a whole interval, so a batch
\* that is not empty is flushed now.
GetTimesOut ==
    /\ thread = "loop" /\ ~stopFlag /\ queued = 0 /\ batch > 0
    /\ thread' = "flush"
    /\ UNCHANGED <<queued, batch, submitted, written, dropped, handled, stopFlag>>

\* One write of a flush; the loop goes on when the batch is written.
FlushOne ==
    /\ thread = "flush"
    /\ batch' = batch - 1
    /\ handled' = handled + 1 /\ written' = written + 1
    /\ thread' = IF batch' = 0 THEN "loop" ELSE "flush"
    /\ UNCHANGED <<queued, submitted, dropped, stopFlag>>

SeeStop ==
    /\ thread = "loop" /\ stopFlag
    /\ thread' = "drain"
    /\ UNCHANGED <<queued, batch, submitted, written, dropped, handled, stopFlag>>

\* After the loop: what is still queued is written first, the unfinished
\* batch afterwards; neither counts as written.
DrainOne ==
    /\ thread = "drain"
    /\ IF queued > 0
       THEN queued' = queued - 1 /\ handled' = handled + 1 /\ UNCHANGED thread
       ELSE thread' = "rest" /\ UNCHANGED <<queued, handled>>
    /\ UNCHANGED <<batch, submitted, written, dropped, stopFlag>>

\* Mutant of RestOne: the unfinished batch is left.
RestOneLeft ==
    /\ thread = "rest"
    /\ thread' = "dead"
    /\ UNCHANGED <<queued, batch, submitted, written, dropped, handled, stopFlag>>

RestOne ==
    /\ thread = "rest"
    /\ IF batch > 0
       THEN batch' = batch - 1 /\ handled' = handled + 1 /\ UNCHANGED thread
       ELSE thread' = "dead" /\ UNCHANGED <<batch, handled>>
    /\ UNCHANGED <<queued, submitted, written, dropped, stopFlag>>

WriterStep == GetEvent \/ GetTimesOut \/ FlushOne \/ SeeStop \/ DrainOne \/ RestOne
=============================================================================
