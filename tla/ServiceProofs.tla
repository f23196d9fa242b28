---------------------------- MODULE ServiceProofs ----------------------------
(* Theorems about service.py: SnapshotStore for every set of printers,      *)
(* every write interval and every bound, and the process around it,         *)
(* AgentService, for any number of printers, clients, failures and kills.   *)
EXTENDS SnapshotStore, AgentService, TLAPS

USE StoreAssumption, AgentAssumption

(* Write times never decrease and never lie ahead of the clock.             *)
TimesOrdered ==
    /\ lastWrite <= now
    /\ olderWrites[1] <= lastWrite
    /\ olderWrites[2] <= olderWrites[1]

(* A sleeping flush task was planned either from the last write or from an  *)
(* earlier one; in the second case a direct write overtook it, and that     *)
(* write kept its distance.  This is what limits writes to two an interval. *)
TaskPlanned ==
    closing = "no" /\ flushTask # NoTask /\ olderWrites[1] > 0 =>
        \/ flushTask = FlushDue
        \/ lastWrite - olderWrites[1] >= Interval

IndInv ==
    /\ TypeOK
    /\ TimesOrdered
    /\ TaskPlanned
    /\ CleanMeansSaved
    /\ DirtyIsScheduled
    /\ TwoWritesPerInterval

(* The empty directory satisfies the invariant.                             *)
LEMMA InitInd == Init => IndInv
  <1> SUFFICES ASSUME Init PROVE IndInv
    OBVIOUS
  <1>1. TypeOK
    <2>1. /\ instances \in [Instances -> Nat] /\ disk \in [Instances -> Nat]
          /\ olderWrites \in Nat \X Nat
      BY DEF Init
    <2>2. now \in Nat \ {0} /\ lastWrite \in Nat /\ failures \in Nat
      BY DEF Init
    <2>3. flushTask \in Nat \cup {NoTask}
      BY DEF Init
    <2>4. closing \in {"no", "cancelling", "flushed", "ended"}
      BY DEF Init
    <2>5. dirty \in BOOLEAN
      BY DEF Init
    <2>6. refused \in BOOLEAN /\ flushed \in [Instances -> Nat]
      BY DEF Init
    <2> QED
      BY <2>1, <2>2, <2>3, <2>4, <2>5, <2>6 DEF TypeOK
  <1>2. olderWrites[1] = 0 /\ olderWrites[2] = 0 /\ instances = disk
    BY DEF Init
  <1> QED
    BY <1>1, <1>2 DEF Init, IndInv, TimesOrdered, TaskPlanned, CleanMeansSaved,
       DirtyIsScheduled, TwoWritesPerInterval

(* What a write does to the clock part of the invariant, given that the     *)
(* last two writes before it are far enough back.                           *)
LEMMA WriteTimes ==
    ASSUME IndInv, NEW written \in [Instances -> Nat], Write(written),
           UNCHANGED now, closing' = "no" => closing = "no",
           closing = "no" /\ olderWrites[1] > 0 =>
               now - olderWrites[1] >= Interval,
           flushTask' = NoTask \/ now - lastWrite >= Interval \/ lastWrite = 0
    PROVE  TimesOrdered' /\ TwoWritesPerInterval' /\ TaskPlanned'
           /\ disk' = written /\ dirty' = FALSE /\ lastWrite' \in Nat
           /\ olderWrites' \in Nat \X Nat /\ failures' = failures
           /\ refused' = FALSE
  <1>1. /\ now \in Nat \ {0} /\ lastWrite \in Nat /\ olderWrites \in Nat \X Nat
        /\ lastWrite <= now /\ olderWrites[1] <= lastWrite
        /\ olderWrites[2] <= olderWrites[1]
    BY DEF IndInv, TypeOK, TimesOrdered
  <1>2. /\ lastWrite' = now /\ now' = now
        /\ olderWrites'[1] = lastWrite /\ olderWrites'[2] = olderWrites[1]
        /\ olderWrites' \in Nat \X Nat
    BY <1>1 DEF Write
  <1>3. TimesOrdered'
    BY <1>1, <1>2 DEF TimesOrdered
  <1>4. TwoWritesPerInterval'
    BY <1>1, <1>2 DEF TwoWritesPerInterval
  <1>5. TaskPlanned'
    BY <1>1, <1>2 DEF TaskPlanned
  <1> QED
    BY <1>1, <1>2, <1>3, <1>4, <1>5 DEF Write

(* update() preserves the invariant, written or coalesced.                  *)
LEMMA UpdateStep ==
    ASSUME IndInv, NEW i \in Instances, Update(i)
    PROVE  IndInv'
  <1>1. PICK written : written = [instances EXCEPT ![i] = @ + 1]
    OBVIOUS
  <1>2. /\ written \in [Instances -> Nat] /\ instances' = written
        /\ UNCHANGED <<now, closing, flushed>> /\ closing # "ended"
    BY <1>1 DEF Update, IndInv, TypeOK
  <1>3. CASE WriteDue /\ Write(written) /\ UNCHANGED flushTask
    <2>1. closing = "no" /\ olderWrites[1] > 0 =>
              now - olderWrites[1] >= Interval
      BY <1>3 DEF WriteDue, IndInv, TypeOK, TimesOrdered
    <2>2. /\ TimesOrdered' /\ TwoWritesPerInterval' /\ TaskPlanned'
          /\ disk' = written /\ dirty' = FALSE /\ lastWrite' \in Nat
          /\ olderWrites' \in Nat \X Nat /\ failures' = failures
          /\ refused' = FALSE
      BY <1>2, <1>3, <2>1, WriteTimes DEF WriteDue
    <2>3. TypeOK'
      BY <1>2, <1>3, <2>2 DEF IndInv, TypeOK, Write
    <2> QED
      BY <1>2, <2>2, <2>3 DEF IndInv, CleanMeansSaved, DirtyIsScheduled
  <1>4. CASE WriteDue /\ WriteFails /\ UNCHANGED flushTask
    BY <1>2, <1>4 DEF WriteFails, IndInv, TypeOK, TimesOrdered, TaskPlanned,
       FlushDue, CleanMeansSaved, DirtyIsScheduled, TwoWritesPerInterval
  <1>5. CASE ~WriteDue /\ Coalesce
    <2>1. flushTask' \in Nat /\ dirty' /\ failures' = failures
      BY <1>5 DEF Coalesce, FlushDue, IndInv, TypeOK
    <2>2. TypeOK'
      BY <1>2, <1>5, <2>1 DEF Coalesce, IndInv, TypeOK
    <2>3. TaskPlanned'
      BY <1>2, <1>5 DEF Coalesce, FlushDue, IndInv, TypeOK, TaskPlanned
    <2> QED
      BY <1>2, <1>5, <2>1, <2>2, <2>3
         DEF Coalesce, IndInv, TypeOK, TimesOrdered, CleanMeansSaved,
             DirtyIsScheduled, TwoWritesPerInterval
  <1> QED
    BY <1>1, <1>3, <1>4, <1>5 DEF Update

(* The flush task preserves the invariant, whatever it finds.               *)
LEMMA FlushTaskRunsStep ==
    ASSUME IndInv, FlushTaskRuns
    PROVE  IndInv'
  <1>1. /\ flushTask \in Nat /\ flushTask <= now /\ flushTask' = NoTask
        /\ UNCHANGED <<now, instances, closing, flushed>>
        /\ instances \in [Instances -> Nat]
    BY DEF FlushTaskRuns, IndInv, TypeOK
  <1>2. CASE dirty /\ Write(instances)
    <2>1. closing = "no" /\ olderWrites[1] > 0 =>
              now - olderWrites[1] >= Interval
      BY <1>1 DEF FlushDue, IndInv, TypeOK, TimesOrdered, TaskPlanned
    <2>2. /\ TimesOrdered' /\ TwoWritesPerInterval' /\ TaskPlanned'
          /\ disk' = instances /\ dirty' = FALSE /\ lastWrite' \in Nat
          /\ olderWrites' \in Nat \X Nat /\ failures' = failures
          /\ refused' = FALSE
      BY <1>1, <1>2, <2>1, WriteTimes
    <2> QED
      BY <1>1, <2>2 DEF IndInv, TypeOK, CleanMeansSaved, DirtyIsScheduled
  <1>3. CASE dirty /\ WriteFails
    BY <1>1, <1>3 DEF WriteFails, IndInv, TypeOK, TimesOrdered, TaskPlanned,
       CleanMeansSaved, DirtyIsScheduled, TwoWritesPerInterval
  <1>4. CASE ~dirty /\ UNCHANGED <<disk, dirty, lastWrite, failures, refused,
                                   olderWrites>>
    BY <1>1, <1>4 DEF IndInv, TypeOK, TimesOrdered, TaskPlanned,
       CleanMeansSaved, DirtyIsScheduled, TwoWritesPerInterval
  <1> QED
    BY <1>2, <1>3, <1>4 DEF FlushTaskRuns, WriteIfDirty

(* Both halves of flush() preserve the invariant, and so does the end.      *)
LEMMA FlushStep ==
    ASSUME IndInv, FlushCancels \/ FlushWrites \/ Ends
    PROVE  IndInv'
  <1>1. CASE FlushCancels
    BY <1>1 DEF FlushCancels, IndInv, TypeOK, TimesOrdered, TaskPlanned,
       CleanMeansSaved, DirtyIsScheduled, TwoWritesPerInterval
  <1>2. CASE FlushWrites
    <2>1. closing' = "flushed" /\ UNCHANGED <<now, instances, flushTask>>
      BY <1>2 DEF FlushWrites
    <2>2. TaskPlanned' /\ TwoWritesPerInterval'
      BY <2>1 DEF TaskPlanned, TwoWritesPerInterval
    <2>3. flushed' \in [Instances -> Nat]
      BY <1>2 DEF FlushWrites, IndInv, TypeOK
    <2>4. CASE dirty /\ Write(instances)
      <3>1. /\ lastWrite \in Nat /\ now \in Nat \ {0} /\ lastWrite <= now
            /\ olderWrites \in Nat \X Nat /\ olderWrites[1] <= lastWrite
        BY DEF IndInv, TypeOK, TimesOrdered
      <3>2. /\ lastWrite' = now /\ now' = now
            /\ olderWrites'[1] = lastWrite /\ olderWrites'[2] = olderWrites[1]
            /\ olderWrites' \in Nat \X Nat
        BY <2>1, <2>4, <3>1 DEF Write
      <3>3. TimesOrdered'
        BY <3>1, <3>2 DEF TimesOrdered
      <3>4. TypeOK' /\ CleanMeansSaved' /\ DirtyIsScheduled'
        BY <2>1, <2>3, <2>4, <3>1, <3>2 DEF Write, IndInv, TypeOK, CleanMeansSaved,
           DirtyIsScheduled
      <3> QED
        BY <2>2, <3>3, <3>4 DEF IndInv
    <2>5. CASE dirty /\ WriteFails
      BY <2>1, <2>2, <2>3, <2>5 DEF WriteFails, IndInv, TypeOK, TimesOrdered,
         CleanMeansSaved, DirtyIsScheduled
    <2>6. CASE ~dirty /\ UNCHANGED <<disk, dirty, lastWrite, failures, refused,
                                     olderWrites>>
      BY <2>1, <2>2, <2>3, <2>6 DEF IndInv, TypeOK, TimesOrdered,
         CleanMeansSaved, DirtyIsScheduled
    <2> QED
      BY <1>2, <2>4, <2>5, <2>6 DEF FlushWrites, WriteIfDirty
  <1>3. CASE Ends
    BY <1>3 DEF Ends, IndInv, TypeOK, TimesOrdered, TaskPlanned,
       CleanMeansSaved, DirtyIsScheduled, TwoWritesPerInterval
  <1> QED
    BY <1>1, <1>2, <1>3

(* Every step preserves the invariant.                                      *)
LEMMA NextInd == IndInv /\ [Next]_vars => IndInv'
  <1> SUFFICES ASSUME IndInv, [Next]_vars PROVE IndInv'
    OBVIOUS
  <1>1. CASE Tick
    BY <1>1 DEF Tick, IndInv, TypeOK, TimesOrdered, TaskPlanned, FlushDue,
       CleanMeansSaved, DirtyIsScheduled, TwoWritesPerInterval
  <1>2. CASE UNCHANGED vars
    BY <1>2 DEF vars, IndInv, TypeOK, TimesOrdered, TaskPlanned, FlushDue,
       CleanMeansSaved, DirtyIsScheduled, TwoWritesPerInterval
  <1> QED
    BY <1>1, <1>2, UpdateStep, FlushTaskRunsStep, FlushStep DEF Next

(* The inductive invariant holds in every reachable state.                  *)
THEOREM Invariance == Spec => []IndInv
  <1> QED
    BY InitInd, NextInd, PTL DEF Spec

(* Whatever the interval and however late its tasks run, the store writes   *)
(* at most twice in any interval before shutdown.                           *)
THEOREM TwoWritesTheorem == Spec => []TwoWritesPerInterval
  <1>1. IndInv => TwoWritesPerInterval
    BY DEF IndInv
  <1> QED
    BY <1>1, Invariance, PTL

(* A clear dirty flag means that the file is up to date, also after writes  *)
(* that failed.                                                             *)
THEOREM CleanTheorem == Spec => []CleanMeansSaved
  <1>1. IndInv => CleanMeansSaved
    BY DEF IndInv
  <1> QED
    BY <1>1, Invariance, PTL

(* The store's variables keep their types.                                  *)
THEOREM TypeTheorem == Spec => []TypeOK
  <1>1. IndInv => TypeOK
    BY DEF IndInv
  <1> QED
    BY <1>1, Invariance, PTL

(* An unsaved payload always has a task or a flush() coming for it, unless  *)
(* its write was refused and no update has come since.                      *)
THEOREM ScheduledTheorem == Spec => []DirtyIsScheduled
  <1>1. IndInv => DirtyIsScheduled
    BY DEF IndInv
  <1> QED
    BY <1>1, Invariance, PTL

(* Each step of the store is a step of the status document, or none.        *)
LEMMA DocumentStep == IndInv /\ [Next]_vars => [Document!Next]_(Document!vars)
  <1> SUFFICES ASSUME IndInv, [Next]_vars PROVE [Document!Next]_(Document!vars)
    OBVIOUS
  <1> USE DEF Document!vars
  <1>1. ASSUME NEW i \in Instances, Update(i) PROVE Document!Next
    <2>1. instances \in [Instances -> Nat]
      BY DEF IndInv, TypeOK
    <2>2. PICK payload \in 1..MaxVersion : payload = instances[i] + 1
      BY <1>1, <2>1 DEF Update
    <2>3. instances' = [instances EXCEPT ![i] = payload]
      BY <1>1, <2>2 DEF Update
    <2>4. CASE WriteDue
      <3>1. Write(instances') \/ WriteFails
        BY <1>1, <2>4 DEF Update
      <3>2. disk' = instances' \/ disk' = disk
        BY <3>1 DEF Write, WriteFails
      <3> QED
        BY <2>3, <3>2 DEF Document!Next, Document!Report, Document!PutSaved,
           Document!PutUnsaved, Document!Put
    <2>5. CASE ~WriteDue
      <3>1. disk' = disk
        BY <1>1, <2>5 DEF Update, Coalesce
      <3> QED
        BY <2>3, <3>1 DEF Document!Next, Document!Report,
           Document!PutUnsaved, Document!Put
    <2> QED
      BY <2>4, <2>5
  <1>2. ASSUME FlushTaskRuns \/ FlushWrites
        PROVE Document!Next \/ UNCHANGED <<instances, disk>>
    <2>1. UNCHANGED instances
      BY <1>2 DEF FlushTaskRuns, FlushWrites
    <2>2. disk' = instances \/ disk' = disk
      BY <1>2 DEF FlushTaskRuns, FlushWrites, WriteIfDirty, Write, WriteFails
    <2> QED
      BY <2>1, <2>2 DEF Document!Next, Document!Save
  <1>3. CASE FlushCancels \/ Ends \/ Tick \/ UNCHANGED vars
    BY <1>3 DEF FlushCancels, Ends, Tick, vars
  <1> QED
    BY <1>1, <1>2, <1>3 DEF Next

(* The store implements the status document: status.json is only ever       *)
(* replaced by the whole document of that moment.                           *)
THEOREM DocumentTheorem == Spec => ImplementsStatusDocument
  <1>1. Init => Document!Init
    BY DEF Init, Document!Init, Document!Empty
  <1> QED
    BY <1>1, DocumentStep, Invariance, PTL
    DEF Spec, ImplementsStatusDocument, Document!Spec

------------------------------------------------------------------------------
(* The process.                                                             *)

(* A process that does not serve yet has no monitors.                       *)
Stopped == phase \in {"down", "inspecting"} => monitor = AllStop

(* A process that was interrupted has cancelled its monitors: nothing is    *)
(* reported any more while it closes, flushes and ends.                     *)
Interrupted ==
    phase # "down" /\ ended.asked =>
        phase \in {"closing", "flushing", "ending"} /\ monitor = AllStop

(* What EndSaves says of the end holds from the last write on.              *)
FlushedBefore ==
    phase \in {"ending", "down"} /\ ended.how = "flushed" =>
        \A p \in Printers : saved[p] # memory[p] => p \in late /\ ~ended.asked

AgentInv ==
    /\ AgentTypeOK
    /\ Stopped
    /\ Interrupted
    /\ FlushedBefore
    /\ NoMonitorMissing

Documents == [Printers -> Payloads \cup {Nothing}]
Endings == [how : {"never", "runs", "flushed", "unsaved", "killed"},
            asked : BOOLEAN]
Counts == [failures : Nat, kills : Nat, outages : Nat]
MonitorStates ==
    [Printers -> {"none", "connecting", "streaming", "pausing", "finished"}]

(* Nothing runs yet.                                                        *)
LEMMA AgentInitInv == AgentInit => AgentInv
  <1> SUFFICES ASSUME AgentInit PROVE AgentInv
    OBVIOUS
  <1>1. /\ memory = [p \in Printers |-> Nothing] /\ saved = memory
        /\ phase = "down" /\ monitor = [p \in Printers |-> "none"]
        /\ known = {} /\ catalog = {} /\ clients = 0 /\ waits \in BOOLEAN
        /\ late = {}
        /\ moonraker \in [Printers -> {"absent", "listening"}]
    BY DEF AgentInit, Store!Init, Store!Empty
  <1>2. ended \in Endings /\ ended.how = "never" /\ bounds \in Counts
    BY DEF AgentInit, Endings, Counts
  <1>3. memory \in Documents /\ saved \in Documents
    BY <1>1 DEF Documents
  <1>4. moonraker \in [Printers -> {"absent", "dead", "listening", "mute"}]
    BY <1>1
  <1>5. clients \in 0..MaxClients
    BY <1>1
  <1>6. AgentTypeOK
    BY <1>1, <1>2, <1>3, <1>4, <1>5 DEF AgentTypeOK, Documents, Endings, Counts
  <1> QED
    BY <1>1, <1>2, <1>6 DEF AgentInv, Stopped, Interrupted, AllStop,
       FlushedBefore, NoMonitorMissing

(* A count that goes up keeps its type.                                     *)
LEMMA BoundsShape ==
    ASSUME AgentTypeOK
    PROVE  /\ bounds \in Counts
           /\ [bounds EXCEPT !.failures = @ + 1] \in Counts
           /\ [bounds EXCEPT !.kills = @ + 1] \in Counts
           /\ [bounds EXCEPT !.outages = @ + 1] \in Counts
  <1>1. bounds \in [failures : Nat, kills : Nat, outages : Nat]
    BY DEF AgentTypeOK
  <1> QED
    BY <1>1 DEF Counts

(* What a monitor puts into the document keeps its shape and leaves the     *)
(* other printers alone; what is written is the whole document.             *)
LEMMA ReportShape ==
    ASSUME memory \in Documents, saved \in Documents, NEW p \in Printers,
           NEW payload \in Payloads, Store!Report(p, payload)
    PROVE  /\ memory' \in Documents /\ saved' \in Documents
           /\ \A q \in Printers \ {p} : memory'[q] = memory[q]
           /\ saved' = memory' \/ saved' = saved
  BY DEF Documents, Store!Report, Store!PutSaved, Store!PutUnsaved, Store!Put

(* The process starts with an empty document, and serves with a monitor for *)
(* every printer it has found.                                              *)
LEMMA StartSteps ==
    ASSUME AgentInv, Start \/ Serve
    PROVE  AgentInv'
  <1>1. CASE Start
    <2>1. /\ memory' = [p \in Printers |-> Nothing] /\ saved' = saved
          /\ known' \subseteq Printers /\ catalog' = {} /\ phase' = "inspecting"
          /\ monitor' = monitor /\ late' = {}
          /\ UNCHANGED <<moonraker, clients, waits, bounds>>
      BY <1>1 DEF Start, Store!Restart, Store!Empty, Discovered
    <2>2. ended' \in Endings /\ ~ended'.asked
      BY <1>1 DEF Start, Endings
    <2>3. monitor = AllStop
      BY <1>1 DEF Start, AgentInv, Stopped
    <2>4. memory' \in Documents
      BY <2>1 DEF Documents
    <2>5. AgentTypeOK'
      BY <2>1, <2>2, <2>3, <2>4 DEF AgentInv, AgentTypeOK, Documents, Endings, AllStop
    <2> QED
      BY <2>1, <2>2, <2>3, <2>5 DEF AgentInv, Stopped, Interrupted, AllStop,
         FlushedBefore, NoMonitorMissing
  <1>2. CASE Serve
    <2>1. /\ monitor' = [p \in Printers |-> IF p \in known THEN "connecting"
                                           ELSE "none"]
          /\ catalog' \subseteq known /\ phase = "inspecting" /\ phase' = "serving"
          /\ UNCHANGED <<moonraker, known, memory, saved, clients, ended, waits,
                         late, bounds>>
      BY <1>2 DEF Serve, document
    <2>2. AgentTypeOK'
      BY <2>1 DEF AgentInv, AgentTypeOK
    <2> QED
      BY <2>1, <2>2 DEF AgentInv, AgentTypeOK, Stopped, Interrupted, FlushedBefore,
         NoMonitorMissing
  <1> QED
    BY <1>1, <1>2

(* A monitor that ends takes the API with it; any other goes on.  What one  *)
(* reports after the last write makes its printer late, and it can only     *)
(* report then because nobody interrupted the process.                      *)
LEMMA MonitorSteps ==
    ASSUME AgentInv, NEW p \in Printers, MonitorStep(p)
    PROVE  AgentInv'
  <1>1. /\ memory \in Documents /\ saved \in Documents
        /\ bounds \in Counts /\ monitor \in MonitorStates
        /\ known \subseteq Printers /\ late \subseteq Printers
    BY DEF AgentInv, AgentTypeOK, Documents, Counts, MonitorStates
  <1>2. /\ Running /\ monitor[p] # "none" /\ p \in known
        /\ UNCHANGED <<moonraker, known, catalog, clients, ended, waits>>
    BY DEF MonitorStep, Stream, Lose, StreamUnsaved, LoseUnsaved, Retry, AgentInv,
       AgentTypeOK
  <1>3. ~ended.asked
    BY <1>2 DEF AgentInv, Interrupted, Running, AllStop
  <1>4. /\ memory' \in Documents /\ saved' \in Documents
        /\ \A q \in Printers \ {p} : memory'[q] = memory[q]
        /\ saved' = memory' \/ saved' = saved
        /\ \/ Reported(p)
           \/ UNCHANGED <<memory, saved, late>>
    <2>1. \/ UNCHANGED <<memory, saved, late>>
          \/ Reported(p) /\ \E payload \in Payloads : Store!Report(p, payload)
      BY DEF MonitorStep, Stream, Lose, StreamUnsaved, LoseUnsaved, Retry, document,
         Payloads, Store!Report
    <2>2. CASE UNCHANGED <<memory, saved, late>>
      BY <1>1, <2>2
    <2>3. CASE Reported(p) /\ \E payload \in Payloads : Store!Report(p, payload)
      BY <1>1, <2>3, ReportShape
    <2> QED
      BY <2>1, <2>2, <2>3
  <1>5. late' \subseteq Printers
    BY <1>1, <1>4 DEF Reported
  <1>6. bounds' \in Counts
    <2>1. bounds' = bounds \/ bounds' = [bounds EXCEPT !.failures = @ + 1]
      BY DEF MonitorStep, Stream, Lose, StreamUnsaved, LoseUnsaved, Retry, Failed
    <2> QED
      BY <2>1, BoundsShape DEF AgentInv
  <1>7. PICK m \in {"connecting", "streaming", "pausing", "finished"} :
           /\ monitor' = [monitor EXCEPT ![p] = m]
           /\ IF m = "finished" THEN phase' = AfterMonitorFailed ELSE phase' = phase
    BY DEF MonitorStep, Stream, Lose, StreamUnsaved, LoseUnsaved, Retry
  <1>8. /\ phase' \in {"serving", "closing", "flushing", "ending"}
        /\ phase' = "serving" => phase = "serving" /\ m # "finished"
        /\ phase' = "ending" => phase = "ending"
    BY <1>2, <1>7 DEF Running, AfterMonitorFailed
  <1>9. AgentTypeOK'
    <2>1. /\ \A q \in Printers \ known : monitor'[q] = "none" /\ memory'[q] = Nothing
          /\ monitor' \in MonitorStates
      BY <1>1, <1>2, <1>4, <1>7 DEF AgentInv, AgentTypeOK, MonitorStates
    <2> QED
      BY <1>2, <1>4, <1>5, <1>6, <1>8, <2>1
         DEF AgentInv, AgentTypeOK, Documents, Counts, MonitorStates
  <1>10. FlushedBefore'
    <2> SUFFICES ASSUME phase' = "ending", ended.how = "flushed",
                        NEW q \in Printers, saved'[q] # memory'[q]
                 PROVE  q \in late' /\ ~ended.asked
      BY <1>2, <1>8 DEF FlushedBefore
    <2>1. phase = "ending" /\ (saved[q] # memory[q] => q \in late)
      BY <1>8 DEF AgentInv, FlushedBefore
    <2>2. CASE UNCHANGED <<memory, saved, late>>
      BY <1>3, <2>1, <2>2
    <2>3. CASE Reported(p)
      BY <1>3, <1>4, <2>1, <2>3 DEF Reported
    <2> QED
      BY <1>4, <2>2, <2>3
  <1>11. NoMonitorMissing'
    BY <1>1, <1>2, <1>7, <1>8 DEF AgentInv, NoMonitorMissing, MonitorStates
  <1>12. Stopped' /\ Interrupted'
    BY <1>2, <1>3, <1>8 DEF Stopped, Interrupted
  <1> QED
    BY <1>9, <1>10, <1>11, <1>12 DEF AgentInv

(* run_service returns: flush() has written the document, or could not.     *)
LEMMA ReturnSteps ==
    ASSUME AgentInv, Flush \/ FlushFails
    PROVE  AgentInv'
  <1>1. PICK how \in {"flushed", "unsaved"} :
           Returns(how) /\ (how = "flushed" => Store!Save)
    BY DEF Flush, FlushFails
  <1>2. /\ memory \in Documents /\ saved \in Documents /\ ended \in Endings
        /\ \A p \in Printers \ known : memory[p] = Nothing
        /\ phase = "flushing"
    BY DEF AgentInv, AgentTypeOK, Documents, Endings, Flush, FlushFails
  <1>3. /\ memory' = memory /\ saved' \in {saved, memory}
        /\ how = "flushed" => saved' = memory
    BY <1>1 DEF Flush, FlushFails, Store!Save, document
  <1>4. bounds' \in Counts
    <2>1. bounds' = bounds \/ bounds' = [bounds EXCEPT !.failures = @ + 1]
      BY DEF Flush, FlushFails, Failed
    <2> QED
      BY <2>1, BoundsShape DEF AgentInv
  <1>5. /\ phase' = "ending" /\ ended' \in Endings
        /\ ended'.how = how /\ ended'.asked = ended.asked
        /\ UNCHANGED <<moonraker, known, catalog, monitor, clients, waits, late>>
    BY <1>1, <1>2 DEF Returns, Endings
  <1>6. AgentTypeOK'
    BY <1>2, <1>3, <1>4, <1>5
       DEF AgentInv, AgentTypeOK, Documents, Endings, Counts
  <1>7. Interrupted' /\ FlushedBefore'
    BY <1>2, <1>3, <1>5 DEF AgentInv, Interrupted, FlushedBefore, AllStop
  <1> QED
    BY <1>5, <1>6, <1>7 DEF AgentInv, Stopped, NoMonitorMissing

(* The process is gone: asyncio.run has cancelled what was left, or it was  *)
(* killed.                                                                  *)
LEMMA DownSteps ==
    ASSUME AgentInv, Exit \/ Kill
    PROVE  AgentInv'
  <1>1. /\ Down /\ UNCHANGED <<moonraker, known, catalog, memory, saved, waits, late>>
    BY DEF Exit, Kill, document
  <1>2. /\ phase' = "down" /\ monitor' = AllStop /\ clients' = 0
    BY <1>1 DEF Down
  <1>3. /\ bounds' \in Counts /\ ended' \in Endings
        /\ (ended' = ended /\ phase = "ending") \/ ended'.how = "killed"
    <2>1. CASE Exit
      BY <2>1, BoundsShape DEF Exit, AgentInv, AgentTypeOK, Endings
    <2>2. CASE Kill
      BY <2>2, BoundsShape DEF Kill, AgentInv, Endings
    <2> QED
      BY <2>1, <2>2
  <1>4. AgentTypeOK'
    <2>1. /\ \A p \in Printers : monitor'[p] = "none"
          /\ monitor' \in MonitorStates /\ clients' \in 0..MaxClients
      BY <1>2 DEF AllStop, MonitorStates
    <2> QED
      BY <1>1, <1>2, <1>3, <2>1
         DEF AgentInv, AgentTypeOK, Endings, Counts, MonitorStates
  <1>5. FlushedBefore'
    BY <1>1, <1>3 DEF AgentInv, FlushedBefore
  <1> QED
    BY <1>2, <1>4, <1>5 DEF AgentInv, Stopped, Interrupted, AllStop, NoMonitorMissing

(* The clients, the Moonrakers, the flush task, an interrupt and the API    *)
(* that closes.                                                             *)
LEMMA OtherSteps ==
    ASSUME AgentInv,
           \/ FlushTask \/ ClientConnects \/ ClientLeaves \/ Interrupt \/ CloseApi
           \/ \E p \in Printers :
                 \/ MoonrakerStarts(p)
                 \/ \E left \in {"dead", "absent"} : MuteStops(p, left)
                 \/ \E left \in {"dead", "absent", "mute"} : MoonrakerFails(p, left)
    PROVE  AgentInv'
  <1>1. /\ ended \in Endings /\ clients \in 0..MaxClients
        /\ moonraker \in [Printers -> {"absent", "dead", "listening", "mute"}]
    BY DEF AgentInv, AgentTypeOK, Endings
  <1>2. CASE FlushTask
    <2>1. /\ saved' = memory /\ Running
          /\ UNCHANGED <<moonraker, phase, known, catalog, monitor, memory, clients,
                         ended, waits, late, bounds>>
      BY <1>2 DEF FlushTask, Store!Save
    <2> QED
      BY <2>1 DEF AgentInv, AgentTypeOK, Stopped, Interrupted, AllStop,
         FlushedBefore, NoMonitorMissing
  <1>3. CASE ClientConnects \/ ClientLeaves
    <2>1. clients' \in 0..MaxClients
      <3>1. ClientConnects => clients < MaxClients /\ clients' = clients + 1
        BY DEF ClientConnects
      <3>2. ClientLeaves => clients > 0 /\ clients' = clients - 1
        BY DEF ClientLeaves
      <3> QED
        BY <1>1, <1>3, <3>1, <3>2
    <2>2. UNCHANGED <<moonraker, phase, known, catalog, monitor, memory, saved,
                      ended, waits, late, bounds>>
      BY <1>3 DEF ClientConnects, ClientLeaves, document
    <2> QED
      BY <2>1, <2>2 DEF AgentInv, AgentTypeOK, Stopped, Interrupted, AllStop,
         FlushedBefore, NoMonitorMissing
  <1>4. CASE Interrupt
    <2>1. /\ monitor' = AllStop /\ phase' = "closing"
          /\ UNCHANGED <<moonraker, known, catalog, memory, saved, clients, waits,
                         late>>
      BY <1>4 DEF Interrupt, document
    <2>2. bounds' \in Counts /\ ended' \in Endings
      BY <1>1, <1>4, BoundsShape DEF Interrupt, AgentInv, Endings
    <2>3. AgentTypeOK'
      BY <2>1, <2>2 DEF AllStop, AgentInv, AgentTypeOK, Endings, Counts
    <2> QED
      BY <2>1, <2>3 DEF AgentInv, Stopped, Interrupted, AllStop, FlushedBefore,
         NoMonitorMissing
  <1>5. CASE CloseApi
    <2>1. /\ phase = "closing" /\ phase' = "flushing"
          /\ UNCHANGED <<moonraker, known, catalog, monitor, memory, saved, clients,
                         ended, waits, late, bounds>>
      BY <1>5 DEF CloseApi, document
    <2> QED
      BY <2>1 DEF AgentInv, AgentTypeOK, Stopped, Interrupted, AllStop,
         FlushedBefore, NoMonitorMissing
  <1>6. ASSUME NEW p \in Printers,
               \/ MoonrakerStarts(p)
               \/ \E left \in {"dead", "absent"} : MuteStops(p, left)
               \/ \E left \in {"dead", "absent", "mute"} : MoonrakerFails(p, left)
        PROVE  AgentInv'
    <2>1. /\ moonraker' \in [Printers -> {"absent", "dead", "listening", "mute"}]
          /\ UNCHANGED <<phase, known, catalog, monitor, memory, saved, clients,
                         ended, waits, late>>
      BY <1>1, <1>6 DEF MoonrakerStarts, MuteStops, MoonrakerFails, document
    <2>2. bounds' \in Counts
      BY <1>6, BoundsShape DEF MoonrakerStarts, MuteStops, MoonrakerFails, AgentInv
    <2> QED
      BY <2>1, <2>2 DEF AgentInv, AgentTypeOK, Counts, Stopped, Interrupted, AllStop,
         FlushedBefore, NoMonitorMissing
  <1> QED
    BY <1>2, <1>3, <1>4, <1>5, <1>6

(* The inductive invariant of the process holds in every reachable state.   *)
THEOREM AgentInvariance == AgentSpec => []AgentInv
  <1>1. ASSUME AgentInv, [AgentNext]_agentVars PROVE AgentInv'
    <2>1. CASE UNCHANGED agentVars
      BY <1>1, <2>1 DEF agentVars, document, AgentInv, AgentTypeOK, Stopped,
         Interrupted, AllStop, FlushedBefore, NoMonitorMissing
    <2> QED
      BY <1>1, <2>1, StartSteps, MonitorSteps, ReturnSteps, DownSteps, OtherSteps
         DEF AgentNext
  <1> QED
    BY <1>1, AgentInitInv, PTL DEF AgentSpec

(* The variables of the process keep their types, and only discovered       *)
(* printers have a monitor or a place in the document.                      *)
THEOREM AgentTypeTheorem == AgentSpec => []AgentTypeOK
  <1>1. AgentInv => AgentTypeOK
    BY DEF AgentInv
  <1> QED
    BY <1>1, AgentInvariance, PTL

(* Of a process that flushed and came to its end, the file lacks only what  *)
(* monitors reported between the last write and their cancellation, and     *)
(* after an interrupt nothing, because gather has cancelled them before.    *)
THEOREM EndSavesTheorem == AgentSpec => []EndSaves
  <1>1. AgentInv => EndSaves
    BY DEF AgentInv, FlushedBefore, EndSaves
  <1> QED
    BY <1>1, AgentInvariance, PTL

(* While the API serves, every discovered printer has a monitor at work.    *)
THEOREM MonitorsTheorem == AgentSpec => []NoMonitorMissing
  <1>1. AgentInv => NoMonitorMissing
    BY DEF AgentInv
  <1> QED
    BY <1>1, AgentInvariance, PTL

==============================================================================
