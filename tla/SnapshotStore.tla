---------------------------- MODULE SnapshotStore ----------------------------
(***************************************************************************)
(* The agent's status document: service.py, class SnapshotStore.  Monitors *)
(* on one asyncio loop hand it payloads; it keeps the newest payload of    *)
(* each printer in memory and rewrites status.json, coalescing writes with *)
(* one delayed flush task.                                                 *)
(*                                                                         *)
(* Nothing awaits while the asyncio lock is held, so update() and the body *)
(* of the flush task are single steps; flush() awaits the task it cancels  *)
(* and is two.  A monitor may still call update() after flush() has        *)
(* written, until asyncio.run cancels what is left and the process ends.   *)
(* A payload is its version number, 0 when there is none.  A sleeping task *)
(* wakes at its due time or later, never earlier.                          *)
(***************************************************************************)
EXTENDS Naturals

CONSTANTS
    Instances,     \* printers, one monitor coroutine each
    Interval,      \* minimum_write_interval, in clock units
    NoTask,
    MaxTime,       \* bound on the clock
    MaxVersion,    \* bound on the payloads of one printer
    MaxFailures    \* bound on writes the file system refuses

ASSUME StoreAssumption ==
    /\ Interval \in Nat \ {0}
    /\ NoTask \notin Nat
    /\ MaxTime \in Nat
    /\ MaxVersion \in Nat
    /\ MaxFailures \in Nat

VARIABLES
    now,         \* loop.time()
    instances,   \* newest payload in memory
    disk,        \* payloads in status.json
    dirty,       \* _dirty
    lastWrite,   \* _last_write_time, 0 before the first write
    flushTask,   \* when _flush_task is due, NoTask when there is none
    closing,     \* flush(): "no", "cancelling" while it awaits, "flushed";
                 \* "ended" when the process has
    failures,    \* writes that raised
    refused,     \* history: a write raised and nobody has tried again since
    flushed,     \* history: the payloads flush() returned for as saved
    olderWrites  \* history: the times of the two writes before lastWrite

vars == <<now, instances, disk, dirty, lastWrite, flushTask, closing, failures,
          refused, flushed, olderWrites>>

Init ==
    /\ now = 1
    /\ instances = [i \in Instances |-> 0]
    /\ disk = [i \in Instances |-> 0]
    /\ dirty = FALSE
    /\ lastWrite = 0
    /\ flushTask = NoTask
    /\ closing = "no"
    /\ failures = 0
    /\ refused = FALSE
    /\ flushed = [i \in Instances |-> 0]
    /\ olderWrites = <<0, 0>>

------------------------------------------------------------------------------

(* _write_locked: the whole document replaces the file *)
Write(document) ==
    /\ disk' = document
    /\ dirty' = FALSE
    /\ lastWrite' = now
    /\ olderWrites' = <<lastWrite, olderWrites[1]>>
    /\ refused' = FALSE
    /\ UNCHANGED failures

(* the same when the file system refuses: it raises before it clears dirty *)
WriteFails ==
    /\ failures < MaxFailures
    /\ failures' = failures + 1
    /\ dirty' = TRUE
    /\ refused' = TRUE
    /\ UNCHANGED <<disk, lastWrite, olderWrites>>

(* Definitions marked "defect:" are not part of the model: each is a        *)
(* variant of the definition after it with a plausible mistake in it.       *)

(* defect: an interval one unit short *)
WriteDueEarly == lastWrite = 0 \/ now - lastWrite + 1 >= Interval

WriteDue == lastWrite = 0 \/ now - lastWrite >= Interval

(* asyncio.create_task(self._flush_after(minimum_write_interval - elapsed)) *)
FlushDue == lastWrite + Interval

(* defect: a coalesced payload does not mark the document *)
CoalesceUnmarked ==
    /\ flushTask' = IF flushTask = NoTask THEN FlushDue ELSE flushTask
    /\ refused' = FALSE
    /\ UNCHANGED <<disk, dirty, lastWrite, failures, olderWrites>>

(* defect: a coalesced payload waits for the next update *)
CoalesceUnscheduled ==
    /\ dirty' = TRUE
    /\ refused' = FALSE
    /\ UNCHANGED <<disk, lastWrite, flushTask, failures, olderWrites>>

Coalesce ==
    /\ dirty' = TRUE
    /\ flushTask' = IF flushTask = NoTask THEN FlushDue ELSE flushTask
    /\ refused' = FALSE
    /\ UNCHANGED <<disk, lastWrite, failures, olderWrites>>

(* defect: the document is written before the payload is in it *)
UpdateWritesFirst(i) ==
    /\ closing # "ended"
    /\ instances[i] < MaxVersion
    /\ now + Interval <= MaxTime
    /\ instances' = [instances EXCEPT ![i] = @ + 1]
    /\ IF WriteDue
       THEN (Write(instances) \/ WriteFails) /\ UNCHANGED flushTask
       ELSE Coalesce
    /\ UNCHANGED <<now, closing, flushed>>

Update(i) ==
    LET document == [instances EXCEPT ![i] = @ + 1]
    IN  /\ closing # "ended"
        /\ instances[i] < MaxVersion
        /\ now + Interval <= MaxTime  \* a bound: its flush comes due in time
        /\ instances' = document
        /\ IF WriteDue
           THEN (Write(document) \/ WriteFails) /\ UNCHANGED flushTask
           ELSE Coalesce
        /\ UNCHANGED <<now, closing, flushed>>

(* what is not dirty is not written *)
WriteIfDirty ==
    IF dirty THEN Write(instances) \/ WriteFails
    ELSE UNCHANGED <<disk, dirty, lastWrite, failures, refused, olderWrites>>

(* _flush_after wakes up; its finally clause drops the task in any case *)
FlushTaskRuns ==
    /\ flushTask # NoTask
    /\ flushTask <= now
    /\ flushTask' = NoTask
    /\ WriteIfDirty
    /\ UNCHANGED <<now, instances, closing, flushed>>

(* flush() first takes the task away and awaits its cancellation ... *)
FlushCancels ==
    /\ closing = "no"
    /\ flushTask # NoTask
    /\ flushTask' = NoTask
    /\ closing' = "cancelling"
    /\ UNCHANGED <<now, instances, disk, dirty, lastWrite, failures, refused,
                   flushed, olderWrites>>

(* defect: flush() leaves the writing to the task *)
FlushWritesNothing ==
    /\ closing = "cancelling" \/ (closing = "no" /\ flushTask = NoTask)
    /\ closing' = "flushed"
    /\ flushed' = instances
    /\ UNCHANGED <<now, instances, disk, dirty, lastWrite, flushTask, failures,
                   refused, olderWrites>>

(* ... and then writes what is dirty, at once when there was no task *)
FlushWrites ==
    /\ closing = "cancelling" \/ (closing = "no" /\ flushTask = NoTask)
    /\ closing' = "flushed"
    /\ WriteIfDirty
    /\ flushed' = IF refused' THEN disk ELSE instances
    /\ UNCHANGED <<now, instances, flushTask>>

(* run_service has returned: asyncio.run cancels what is left, a flush task *)
(* made since then included                                                 *)
Ends ==
    /\ closing = "flushed"
    /\ closing' = "ended"
    /\ flushTask' = NoTask
    /\ UNCHANGED <<now, instances, disk, dirty, lastWrite, failures, refused,
                   flushed, olderWrites>>

Tick ==
    /\ now < MaxTime
    /\ closing # "ended"
    /\ now' = now + 1
    /\ UNCHANGED <<instances, disk, dirty, lastWrite, flushTask, closing,
                   failures, refused, flushed, olderWrites>>

Next ==
    \/ \E i \in Instances : Update(i)
    \/ FlushTaskRuns
    \/ FlushCancels
    \/ FlushWrites
    \/ Ends
    \/ Tick

Spec == Init /\ [][Next]_vars

(* The loop runs the tasks that are due, the clock moves, and a flush()     *)
(* that has begun goes on.  Nothing makes an update happen or the service   *)
(* stop.                                                                    *)
Fairness ==
    /\ WF_vars(FlushTaskRuns)
    /\ WF_vars(closing = "cancelling" /\ FlushWrites)
    /\ WF_vars(Tick)

FairSpec == Spec /\ Fairness

------------------------------------------------------------------------------

(* Every variable keeps its shape. *)
TypeOK ==
    /\ now \in Nat \ {0}
    /\ instances \in [Instances -> Nat]
    /\ disk \in [Instances -> Nat]
    /\ dirty \in BOOLEAN
    /\ lastWrite \in Nat
    /\ flushTask \in Nat \cup {NoTask}
    /\ closing \in {"no", "cancelling", "flushed", "ended"}
    /\ failures \in Nat
    /\ refused \in BOOLEAN
    /\ flushed \in [Instances -> Nat]
    /\ olderWrites \in Nat \X Nat

(* While _dirty is clear the file holds every printer's newest payload, so  *)
(* the flush task that finds it clear loses nothing by not writing.         *)
CleanMeansSaved == ~dirty => disk = instances

(* A payload that is not on disk yet has a flush task waiting for it, or    *)
(* flush() about to write it.  One whose write was refused is left alone,   *)
(* because the exception is the end of its task or of the update, but only  *)
(* until the next update, which writes or plans a task again.               *)
DirtyIsScheduled ==
    dirty /\ ~refused =>
        flushTask # NoTask \/ closing \in {"cancelling", "ended"}

(* README.md:97 promises one write per second.  A flush task that wakes late *)
(* and an update that finds the interval over may write twice within it;    *)
(* what the coalescing does ensure is that of any three consecutive writes  *)
(* before shutdown the first and the last are an interval apart, so no      *)
(* interval ever sees more than two.                                        *)
TwoWritesPerInterval ==
    closing = "no" /\ olderWrites[2] > 0 =>
        lastWrite - olderWrites[2] >= Interval

(* Every payload reaches the disk, itself or in a newer version, unless a   *)
(* write is refused, or it came after flush() had written and the process   *)
(* ended before the task that was to save it.                               *)
EventuallySaved ==
    \A i \in Instances, v \in 1..MaxVersion :
        instances[i] = v ~> \/ disk[i] >= v
                            \/ refused
                            \/ closing = "ended" /\ flushed[i] < v

(* The store is a status document: whatever the coalescing does, the file   *)
(* is only ever replaced by the whole document of that moment.              *)
Document == INSTANCE StatusDocument WITH
    memory <- instances,
    Payloads <- 1..MaxVersion,
    NoPayload <- 0

ImplementsStatusDocument == Document!Spec

==============================================================================
