---------------------------- MODULE RelayRegistry ----------------------------
(***************************************************************************)
(* The relay's registry (relay_registry.py) and the read API over it       *)
(* (relay_receiver.py, class RelayReceiverApi): sessions publish, clients  *)
(* ask which devices are online, the receiver is restarted with an edited  *)
(* configuration, and the wall clock the registry stamps records with is   *)
(* corrected while it runs.                                                *)
(*                                                                         *)
(* Nothing awaits while the registry's lock is held, so each of its        *)
(* methods is one step.  A snapshot is its number in the order of arrival  *)
(* for its device; whole saves of the state file are justified by          *)
(* FileReplacement.                                                        *)
(***************************************************************************)
EXTENDS Integers

CONSTANTS
    DeviceIds,
    StaleAfter,   \* stale_after of the configuration
    MaxClock,     \* bound on the wall clock
    MaxAge,       \* bound on the time since the oldest record
    MaxSnapshots, MaxSessions, MaxRestarts, MaxFailures, MaxCorrections

ASSUME RegistryAssumption ==
    /\ StaleAfter \in Nat /\ MaxClock \in Nat /\ MaxAge \in Nat
    /\ MaxSnapshots \in Nat /\ MaxSessions \in Nat /\ MaxRestarts \in Nat
    /\ MaxFailures \in Nat /\ MaxCorrections \in Nat

VARIABLES
    clock,        \* time.time()
    enrolled,     \* device_ids of the running receiver
    records,      \* records, with received_epoch
    activeSessions,
    file,         \* the state file: the snapshot of each device in it
    lastWrite,    \* "none" since the start, "ok" or "failed"
    view,         \* what a client was last told of each device
    elapsed,      \* history: time that passed since each record was received
    setBack,      \* history: how far the clock was set back since then
    setAhead,     \* history: how far it was set ahead since then
    received,     \* history: snapshots ever received of each device
    bounds        \* how often each bounded event has happened

history == <<elapsed, setBack, setAhead>>
vars == <<clock, enrolled, records, activeSessions, file, lastWrite, view,
          history, received, bounds>>

NoRecord == [snapshot |-> 0, epoch |-> 0]
Recorded(d) == records[d] # NoRecord
Zero == [d \in DeviceIds |-> 0]
Unseen == [d \in DeviceIds |-> "unseen"]

Init ==
    /\ clock \in 0..MaxClock
    /\ enrolled \in SUBSET DeviceIds \ {{}}
    /\ records = [d \in DeviceIds |-> NoRecord]
    /\ activeSessions = Zero
    /\ file = Zero
    /\ lastWrite = "none"
    /\ view = Unseen
    /\ elapsed = Zero /\ setBack = Zero /\ setAhead = Zero
    /\ received = Zero
    /\ bounds = [restarts |-> 0, failures |-> 0, corrections |-> 0]

------------------------------------------------------------------------------

(* Definitions marked "defect:" are not part of the model: each is a       *)
(* variant of the definition after it with a plausible mistake in it.      *)

(* session_opened, for an agent that has authenticated *)
SessionOpened(d) ==
    /\ d \in enrolled
    /\ activeSessions[d] < MaxSessions
    /\ activeSessions' = [activeSessions EXCEPT ![d] = @ + 1]
    /\ UNCHANGED <<clock, enrolled, records, file, lastWrite, view, history,
                   received, bounds>>

SessionClosed(d) ==
    /\ activeSessions[d] > 0
    /\ activeSessions' = [activeSessions EXCEPT ![d] = @ - 1]
    /\ UNCHANGED <<clock, enrolled, records, file, lastWrite, view, history,
                   received, bounds>>

Stamp(d) == clock

Stored(d) ==
    [records EXCEPT ![d] = [snapshot |-> received[d] + 1, epoch |-> Stamp(d)]]

(* _write_locked: the snapshots of all records; epochs are left out *)
Document(recs) == [d \in DeviceIds |-> recs[d].snapshot]

(* defect: the file is written before the record is replaced *)
SaveBefore(recs) ==
    \/ /\ file' = Document(records)
       /\ lastWrite' = "ok"
       /\ UNCHANGED bounds
    \/ /\ bounds.failures < MaxFailures
       /\ bounds' = [bounds EXCEPT !.failures = @ + 1]
       /\ lastWrite' = "failed"
       /\ UNCHANGED file

Save(recs) ==
    \/ /\ file' = Document(recs)
       /\ lastWrite' = "ok"
       /\ UNCHANGED bounds
    \/ /\ bounds.failures < MaxFailures
       /\ bounds' = [bounds EXCEPT !.failures = @ + 1]
       /\ lastWrite' = "failed"
       /\ UNCHANGED file

(* publish, out of an open session; the record stays when the write fails *)
Publish(d) ==
    /\ activeSessions[d] > 0
    /\ d \in enrolled
    /\ received[d] < MaxSnapshots
    /\ received' = [received EXCEPT ![d] = @ + 1]
    /\ records' = Stored(d)
    /\ Save(records')
    /\ elapsed' = [elapsed EXCEPT ![d] = 0]
    /\ setBack' = [setBack EXCEPT ![d] = 0]
    /\ setAhead' = [setAhead EXCEPT ![d] = 0]
    /\ UNCHANGED <<clock, enrolled, activeSessions, view>>

(* defect: a device counts as online while it has a session *)
OnlineBySession(d) ==
    Recorded(d) /\ (clock - records[d].epoch <= StaleAfter \/ activeSessions[d] > 0)

(* document: a clock behind the record's epoch makes it look fresh *)
Online(d) == Recorded(d) /\ clock - records[d].epoch <= StaleAfter

(* the "devices" request (document); "health" counts the same answers *)
AskDevices ==
    /\ view' = [d \in DeviceIds |->
                  IF d \notin enrolled THEN "unlisted"
                  ELSE IF Online(d) THEN "online"
                  ELSE IF Recorded(d) THEN "offline" ELSE "never seen"]
    /\ UNCHANGED <<clock, enrolled, records, activeSessions, file, lastWrite,
                   history, received, bounds>>

(* the "snapshot" request *)
SnapshotOf(d) == records[d].snapshot

(* a new process: configuration read again, the state file not read *)
Restart(devices) ==
    /\ bounds.restarts < MaxRestarts
    /\ bounds' = [bounds EXCEPT !.restarts = @ + 1]
    /\ enrolled' = devices
    /\ records' = [d \in DeviceIds |-> NoRecord]
    /\ activeSessions' = Zero
    /\ lastWrite' = "none"
    /\ view' = Unseen
    /\ elapsed' = Zero /\ setBack' = Zero /\ setAhead' = Zero
    /\ UNCHANGED <<clock, file, received>>

------------------------------------------------------------------------------
(* The clock.                                                              *)

OfRecords(f, amount) == [d \in DeviceIds |-> IF Recorded(d) THEN f[d] + amount ELSE 0]

Tick ==
    /\ clock < MaxClock
    /\ \A d \in DeviceIds : elapsed[d] < MaxAge
    /\ clock' = clock + 1
    /\ elapsed' = OfRecords(elapsed, 1)
    /\ UNCHANGED <<enrolled, records, activeSessions, file, lastWrite, view,
                   setBack, setAhead, received, bounds>>

Correct(time) ==
    /\ bounds.corrections < MaxCorrections
    /\ bounds' = [bounds EXCEPT !.corrections = @ + 1]
    /\ clock' = time
    /\ setBack' = OfRecords(setBack, IF time < clock THEN clock - time ELSE 0)
    /\ setAhead' = OfRecords(setAhead, IF time > clock THEN time - clock ELSE 0)
    /\ UNCHANGED <<enrolled, records, activeSessions, file, lastWrite, view,
                   elapsed, received>>

Next ==
    \/ \E d \in DeviceIds : SessionOpened(d) \/ SessionClosed(d) \/ Publish(d)
    \/ AskDevices
    \/ \E devices \in SUBSET DeviceIds \ {{}} : Restart(devices)
    \/ Tick
    \/ \E time \in 0..MaxClock \ {clock} : Correct(time)

Spec == Init /\ [][Next]_vars

------------------------------------------------------------------------------
(* Properties. *)

(* Every variable keeps its shape, and only enrolled devices have sessions *)
(* or records.                                                             *)
TypeOK ==
    /\ clock \in Int
    /\ enrolled \subseteq DeviceIds
    /\ records \in [DeviceIds -> [snapshot : Nat, epoch : Int]]
    /\ activeSessions \in [DeviceIds -> Nat]
    /\ file \in [DeviceIds -> Nat]
    /\ lastWrite \in {"none", "ok", "failed"}
    /\ view \in [DeviceIds -> {"unseen", "unlisted", "online", "offline",
                               "never seen"}]
    /\ elapsed \in [DeviceIds -> Nat]
    /\ setBack \in [DeviceIds -> Nat] /\ setAhead \in [DeviceIds -> Nat]
    /\ received \in [DeviceIds -> Nat]
    /\ bounds \in [restarts : Nat, failures : Nat, corrections : Nat]
    /\ \A d \in DeviceIds \ enrolled : activeSessions[d] = 0 /\ ~Recorded(d)

(* relay_registry.py:79, relay_integration.py:176: a device is reported    *)
(* online for stale_after seconds after its snapshot and offline from then *)
(* on; wrong by no more than what the clock was corrected in the meantime. *)
OnlineMeansRecent ==
    \A d \in DeviceIds : Recorded(d) =>
        /\ Online(d) => elapsed[d] <= StaleAfter + setBack[d]
        /\ ~Online(d) => elapsed[d] + setAhead[d] > StaleAfter

(* relay_receiver.py:238-248: a device a client was told of as seen has a  *)
(* snapshot for that client's next question, whatever happened in between  *)
(* except a restart; and unless the last write failed, the state file has  *)
(* that very snapshot, also after earlier failures (relay_registry.py:67). *)
ListedIsServed ==
    \A d \in DeviceIds : view[d] \in {"online", "offline"} =>
        /\ SnapshotOf(d) # 0
        /\ lastWrite = "ok" => file[d] = SnapshotOf(d)

==============================================================================
