------------------------- MODULE RelayRegistryProofs -------------------------
(* Theorems about RelayRegistry for every set of devices, every stale_after *)
(* and every course of the wall clock.                                      *)
EXTENDS RelayRegistry, TLAPS

USE RegistryAssumption

(* A record's apparent age is its true age, displaced by what the clock was *)
(* corrected since the record was received.                                 *)
AgesAdd ==
    \A d \in DeviceIds : Recorded(d) =>
        clock - records[d].epoch = elapsed[d] + setAhead[d] - setBack[d]

(* A record has a snapshot, so a client that is told of the device has one  *)
(* to ask for.                                                              *)
RecordsHaveSnapshots ==
    \A d \in DeviceIds : Recorded(d) => records[d].snapshot # 0

(* The file is the document of the current records unless the last write    *)
(* failed or none was tried since the start.                                *)
WrittenIsCurrent == lastWrite = "ok" => file = Document(records)

(* Clients have only been told of devices that have a record now: records   *)
(* disappear with the process, and what its clients were told with them.    *)
ToldOfRecords ==
    \A d \in DeviceIds : view[d] \in {"online", "offline"} => Recorded(d)

IndInv ==
    /\ TypeOK
    /\ AgesAdd
    /\ RecordsHaveSnapshots
    /\ WrittenIsCurrent
    /\ ToldOfRecords

(* A registry that has just started satisfies the invariant.                *)
LEMMA InitInd == Init => IndInv
  <1> SUFFICES ASSUME Init PROVE IndInv
    OBVIOUS
  <1>1. \A d \in DeviceIds : ~Recorded(d)
    BY DEF Init, Recorded
  <1>2. TypeOK
    BY <1>1 DEF Init, TypeOK, NoRecord, Zero, Unseen
  <1>3. \A d \in DeviceIds : view[d] = "unseen"
    BY DEF Init, Unseen
  <1> QED
    BY <1>1, <1>2, <1>3 DEF Init, IndInv, AgesAdd, RecordsHaveSnapshots,
       WrittenIsCurrent, ToldOfRecords

(* Opening and closing a session leaves the records alone.                  *)
LEMMA SessionStep ==
    ASSUME IndInv, NEW d \in DeviceIds, SessionOpened(d) \/ SessionClosed(d)
    PROVE  IndInv'
  <1>1. /\ activeSessions' \in [DeviceIds -> Nat]
        /\ \A e \in DeviceIds \ enrolled : activeSessions'[e] = 0
    <2>1. /\ activeSessions \in [DeviceIds -> Nat]
          /\ \A e \in DeviceIds \ enrolled : activeSessions[e] = 0
      BY DEF IndInv, TypeOK
    <2>2. CASE SessionOpened(d)
      BY <2>1, <2>2 DEF SessionOpened
    <2>3. CASE SessionClosed(d)
      BY <2>1, <2>3 DEF SessionClosed
    <2> QED
      BY <2>2, <2>3
  <1>2. UNCHANGED <<clock, enrolled, records, file, lastWrite, view, elapsed,
                    setBack, setAhead, received, bounds>>
    BY DEF SessionOpened, SessionClosed, history
  <1>3. TypeOK'
    BY <1>1, <1>2 DEF IndInv, TypeOK, Recorded
  <1> QED
    BY <1>2, <1>3 DEF IndInv, AgesAdd, RecordsHaveSnapshots, WrittenIsCurrent,
       ToldOfRecords, Recorded, Document

(* A published snapshot replaces the device's record with one of age zero,  *)
(* whether or not the file could be written.                                *)
LEMMA PublishStep ==
    ASSUME IndInv, NEW d \in DeviceIds, Publish(d)
    PROVE  IndInv'
  <1> DEFINE new == [snapshot |-> received[d] + 1, epoch |-> clock]
  <1>0. /\ clock \in Int /\ received[d] \in Nat
        /\ records \in [DeviceIds -> [snapshot : Nat, epoch : Int]]
        /\ file \in [DeviceIds -> Nat] /\ received \in [DeviceIds -> Nat]
        /\ elapsed \in [DeviceIds -> Nat] /\ setBack \in [DeviceIds -> Nat]
        /\ setAhead \in [DeviceIds -> Nat]
        /\ bounds \in [restarts : Nat, failures : Nat, corrections : Nat]
    BY DEF IndInv, TypeOK
  <1>1. /\ records' = [records EXCEPT ![d] = new]
        /\ new.snapshot \in Nat /\ new.snapshot # 0 /\ new.epoch = clock
        /\ new.epoch \in Int
    BY <1>0 DEF Publish, Stored, Stamp
  <1>2. /\ records' \in [DeviceIds -> [snapshot : Nat, epoch : Int]]
        /\ records'[d] = new
        /\ \A e \in DeviceIds \ {d} : records'[e] = records[e]
    BY <1>0, <1>1
  <1>3. new # NoRecord
    BY <1>1 DEF NoRecord
  <1>4. \A e \in DeviceIds : Recorded(e)' <=> e = d \/ Recorded(e)
    BY <1>2, <1>3 DEF Recorded
  <1>5. /\ elapsed' = [elapsed EXCEPT ![d] = 0]
        /\ setBack' = [setBack EXCEPT ![d] = 0]
        /\ setAhead' = [setAhead EXCEPT ![d] = 0]
        /\ received' = [received EXCEPT ![d] = @ + 1]
        /\ d \in enrolled
        /\ UNCHANGED <<clock, enrolled, activeSessions, view>>
    BY DEF Publish
  <1>6. /\ file' \in [DeviceIds -> Nat]
        /\ lastWrite' \in {"none", "ok", "failed"}
        /\ bounds' \in [restarts : Nat, failures : Nat, corrections : Nat]
        /\ lastWrite' = "ok" => file' = Document(records')
    <2>1. CASE file' = Document(records') /\ lastWrite' = "ok" /\ UNCHANGED bounds
      BY <2>1, <1>0, <1>2 DEF Document
    <2>2. CASE /\ bounds' = [bounds EXCEPT !.failures = @ + 1]
               /\ lastWrite' = "failed" /\ UNCHANGED file
      BY <2>2, <1>0
    <2> QED
      BY <2>1, <2>2 DEF Publish, Save
  <1>7. TypeOK'
    <2>1. /\ elapsed' \in [DeviceIds -> Nat] /\ setBack' \in [DeviceIds -> Nat]
          /\ setAhead' \in [DeviceIds -> Nat] /\ received' \in [DeviceIds -> Nat]
      BY <1>0, <1>5
    <2>2. \A e \in DeviceIds \ enrolled' : activeSessions'[e] = 0 /\ ~Recorded(e)'
      BY <1>4, <1>5 DEF IndInv, TypeOK
    <2> QED
      BY <2>1, <2>2, <1>2, <1>5, <1>6 DEF IndInv, TypeOK, Recorded
  <1>8. AgesAdd'
    <2> SUFFICES ASSUME NEW e \in DeviceIds, Recorded(e)'
                 PROVE  (clock - records[e].epoch
                             = elapsed[e] + setAhead[e] - setBack[e])'
      BY DEF AgesAdd
    <2>1. CASE e = d
      BY <2>1, <1>0, <1>1, <1>2, <1>5
    <2>2. CASE e # d
      BY <2>2, <1>0, <1>2, <1>4, <1>5 DEF IndInv, AgesAdd
    <2> QED
      BY <2>1, <2>2
  <1>9. RecordsHaveSnapshots'
    BY <1>1, <1>2, <1>4 DEF IndInv, RecordsHaveSnapshots
  <1>10. WrittenIsCurrent' /\ ToldOfRecords'
    BY <1>4, <1>5, <1>6 DEF IndInv, WrittenIsCurrent, ToldOfRecords, Document
  <1> QED
    BY <1>7, <1>8, <1>9, <1>10 DEF IndInv

(* A client is told only of what is recorded.                               *)
LEMMA AskDevicesStep ==
    ASSUME IndInv, AskDevices
    PROVE  IndInv'
  <1>1. UNCHANGED <<clock, enrolled, records, activeSessions, file, lastWrite,
                    elapsed, setBack, setAhead, received, bounds>>
    BY DEF AskDevices, history
  <1>2. \A d \in DeviceIds :
           /\ view'[d] \in {"unlisted", "online", "offline", "never seen"}
           /\ view'[d] \in {"online", "offline"} => Recorded(d)
    BY DEF AskDevices, Online
  <1>3. view' \in [DeviceIds -> {"unseen", "unlisted", "online", "offline",
                                 "never seen"}]
    BY <1>2 DEF AskDevices
  <1>4. TypeOK'
    BY <1>1, <1>3 DEF IndInv, TypeOK, Recorded
  <1> QED
    BY <1>1, <1>2, <1>4 DEF IndInv, AgesAdd, RecordsHaveSnapshots,
       WrittenIsCurrent, ToldOfRecords, Recorded, Document

(* A restart forgets the records and what clients were told; the file of    *)
(* the process before stays until the first write.                          *)
LEMMA RestartStep ==
    ASSUME IndInv, NEW devices \in SUBSET DeviceIds, Restart(devices)
    PROVE  IndInv'
  <1>1. \A d \in DeviceIds : ~Recorded(d)' /\ view'[d] = "unseen"
    BY DEF Restart, Recorded, Unseen
  <1>2. TypeOK'
    <2>1. bounds' \in [restarts : Nat, failures : Nat, corrections : Nat]
      <3>1. bounds \in [restarts : Nat, failures : Nat, corrections : Nat]
        BY DEF IndInv, TypeOK
      <3> QED
        BY <3>1 DEF Restart
    <2>2. /\ records' = [d \in DeviceIds |-> NoRecord] /\ enrolled' = devices
          /\ activeSessions' = Zero /\ lastWrite' = "none" /\ view' = Unseen
          /\ elapsed' = Zero /\ setBack' = Zero /\ setAhead' = Zero
          /\ UNCHANGED <<clock, file, received>>
      BY DEF Restart
    <2>3. /\ records' \in [DeviceIds -> [snapshot : Nat, epoch : Int]]
          /\ activeSessions' \in [DeviceIds -> Nat] /\ elapsed' \in [DeviceIds -> Nat]
          /\ setBack' \in [DeviceIds -> Nat] /\ setAhead' \in [DeviceIds -> Nat]
          /\ \A d \in DeviceIds : activeSessions'[d] = 0
      BY <2>2 DEF NoRecord, Zero
    <2>4. view' \in [DeviceIds -> {"unseen", "unlisted", "online", "offline",
                                   "never seen"}]
      BY <2>2 DEF Unseen
    <2> QED
      BY <1>1, <2>1, <2>2, <2>3, <2>4 DEF IndInv, TypeOK
  <1> QED
    BY <1>1, <1>2 DEF Restart, IndInv, AgesAdd, RecordsHaveSnapshots,
       WrittenIsCurrent, ToldOfRecords

(* Time passes for every record alike.                                      *)
LEMMA TickStep ==
    ASSUME IndInv, Tick
    PROVE  IndInv'
  <1>1. UNCHANGED <<enrolled, records, activeSessions, file, lastWrite, view,
                    setBack, setAhead, received, bounds>>
    BY DEF Tick
  <1>2. /\ clock \in Int /\ clock' = clock + 1
        /\ elapsed \in [DeviceIds -> Nat] /\ setBack \in [DeviceIds -> Nat]
        /\ setAhead \in [DeviceIds -> Nat]
        /\ records \in [DeviceIds -> [snapshot : Nat, epoch : Int]]
    BY DEF Tick, IndInv, TypeOK
  <1>3. /\ elapsed' \in [DeviceIds -> Nat]
        /\ \A d \in DeviceIds : Recorded(d) => elapsed'[d] = elapsed[d] + 1
    BY <1>2 DEF Tick, OfRecords
  <1>4. TypeOK'
    <2>1. clock' \in Int
      BY <1>2
    <2> QED
      BY <1>1, <1>3, <2>1 DEF IndInv, TypeOK, Recorded
  <1>5. AgesAdd'
    <2> SUFFICES ASSUME NEW d \in DeviceIds, Recorded(d)
                 PROVE  clock' - records[d].epoch
                            = elapsed'[d] + setAhead[d] - setBack[d]
      BY <1>1 DEF AgesAdd, Recorded
    <2>1. clock - records[d].epoch = elapsed[d] + setAhead[d] - setBack[d]
      BY DEF IndInv, AgesAdd
    <2>2. /\ records[d].epoch \in Int /\ elapsed[d] \in Int
          /\ setBack[d] \in Int /\ setAhead[d] \in Int
          /\ elapsed'[d] = elapsed[d] + 1
          /\ clock \in Int /\ clock' = clock + 1
      BY <1>2, <1>3
    <2> QED
      BY <2>1, <2>2
  <1> QED
    BY <1>1, <1>4, <1>5 DEF IndInv, RecordsHaveSnapshots, WrittenIsCurrent,
       ToldOfRecords, Recorded, Document

(* A correction of the clock is remembered in one of the two displacements. *)
LEMMA CorrectStep ==
    ASSUME IndInv, NEW time \in Int, Correct(time)
    PROVE  IndInv'
  <1>1. UNCHANGED <<enrolled, records, activeSessions, file, lastWrite, view,
                    elapsed, received>>
    BY DEF Correct
  <1>2. /\ clock \in Int /\ elapsed \in [DeviceIds -> Nat]
        /\ setBack \in [DeviceIds -> Nat] /\ setAhead \in [DeviceIds -> Nat]
        /\ records \in [DeviceIds -> [snapshot : Nat, epoch : Int]]
        /\ bounds \in [restarts : Nat, failures : Nat, corrections : Nat]
    BY DEF IndInv, TypeOK
  <1>3. /\ clock' = time
        /\ bounds' \in [restarts : Nat, failures : Nat, corrections : Nat]
    BY <1>2 DEF Correct
  <1> DEFINE back == IF time < clock THEN clock - time ELSE 0
             ahead == IF time > clock THEN time - clock ELSE 0
  <1>4. back \in Nat /\ ahead \in Nat /\ time - clock = ahead - back
    BY <1>2
  <1>5. setBack' = OfRecords(setBack, back) /\ setAhead' = OfRecords(setAhead, ahead)
    BY DEF Correct
  <1> HIDE DEF back, ahead
  <1>6. /\ setBack' \in [DeviceIds -> Nat] /\ setAhead' \in [DeviceIds -> Nat]
        /\ \A d \in DeviceIds : Recorded(d) =>
              /\ setBack'[d] = setBack[d] + back
              /\ setAhead'[d] = setAhead[d] + ahead
    BY <1>2, <1>4, <1>5 DEF OfRecords
  <1>7. TypeOK'
    BY <1>1, <1>3, <1>6 DEF IndInv, TypeOK, Recorded
  <1>8. AgesAdd'
    <2> SUFFICES ASSUME NEW d \in DeviceIds, Recorded(d)
                 PROVE  clock' - records[d].epoch
                            = elapsed[d] + setAhead'[d] - setBack'[d]
      BY <1>1 DEF AgesAdd, Recorded
    <2>1. clock - records[d].epoch = elapsed[d] + setAhead[d] - setBack[d]
      BY DEF IndInv, AgesAdd
    <2>2. /\ records[d].epoch \in Int /\ elapsed[d] \in Int
          /\ setBack[d] \in Int /\ setAhead[d] \in Int
      BY <1>2
    <2>3. setBack'[d] = setBack[d] + back /\ setAhead'[d] = setAhead[d] + ahead
      BY <1>6
    <2>4. clock \in Int /\ back \in Int /\ ahead \in Int
      BY <1>2, <1>4
    <2>5. time - records[d].epoch
              = elapsed[d] + (setAhead[d] + ahead) - (setBack[d] + back)
      <3>1. PICK e \in Int, g \in Int, a \in Int, b \in Int :
               /\ e = records[d].epoch /\ g = elapsed[d]
               /\ a = setAhead[d] /\ b = setBack[d]
        BY <2>2
      <3>2. PICK c \in Int, x \in Int, y \in Int : c = clock /\ x = back /\ y = ahead
        BY <2>4
      <3>3. c - e = g + a - b /\ time - c = y - x
        BY <1>4, <2>1, <3>1, <3>2
      <3>4. time - e = g + (a + y) - (b + x)
        BY <3>3
      <3> QED
        BY <3>1, <3>2, <3>4
    <2> QED
      BY <1>3, <2>3, <2>5
  <1> QED
    BY <1>1, <1>7, <1>8 DEF IndInv, RecordsHaveSnapshots, WrittenIsCurrent,
       ToldOfRecords, Recorded, Document

(* Every step preserves the invariant.                                      *)
LEMMA NextInd == IndInv /\ [Next]_vars => IndInv'
  <1> SUFFICES ASSUME IndInv, [Next]_vars PROVE IndInv'
    OBVIOUS
  <1>1. CASE UNCHANGED vars
    BY <1>1 DEF vars, history, IndInv, TypeOK, AgesAdd, RecordsHaveSnapshots,
       WrittenIsCurrent, ToldOfRecords, Recorded, Document
  <1>2. 0..MaxClock \subseteq Int
    OBVIOUS
  <1> QED
    BY <1>1, <1>2, SessionStep, PublishStep, AskDevicesStep, RestartStep,
       TickStep, CorrectStep DEF Next

(* The inductive invariant holds in every reachable state.                  *)
THEOREM Invariance == Spec => []IndInv
  <1> QED
    BY InitInd, NextInd, PTL DEF Spec

(* Every variable keeps its shape, and a device that is not enrolled has    *)
(* neither sessions nor a record.                                           *)
THEOREM TypeTheorem == Spec => []TypeOK
  <1>1. IndInv => TypeOK
    BY DEF IndInv
  <1> QED
    BY <1>1, Invariance, PTL

(* Whatever the staleness limit and the corrections of the clock, what is   *)
(* reported of a device is wrong by no more than those corrections.         *)
THEOREM OnlineTheorem == Spec => []OnlineMeansRecent
  <1>1. ASSUME IndInv, NEW d \in DeviceIds, Recorded(d)
        PROVE  /\ Online(d) => elapsed[d] <= StaleAfter + setBack[d]
               /\ ~Online(d) => elapsed[d] + setAhead[d] > StaleAfter
    <2>1. /\ clock \in Int /\ records[d].epoch \in Int
          /\ elapsed[d] \in Nat /\ setBack[d] \in Nat /\ setAhead[d] \in Nat
      BY <1>1 DEF IndInv, TypeOK
    <2>2. clock - records[d].epoch = elapsed[d] + setAhead[d] - setBack[d]
      BY <1>1 DEF IndInv, AgesAdd
    <2> QED
      BY <1>1, <2>1, <2>2 DEF Online
  <1>2. IndInv => OnlineMeansRecent
    BY <1>1 DEF OnlineMeansRecent
  <1> QED
    BY <1>2, Invariance, PTL

(* A device a client was told of as seen has a snapshot to serve, and the   *)
(* file has the same one unless its last write failed.                      *)
THEOREM ServedTheorem == Spec => []ListedIsServed
  <1>1. IndInv => ListedIsServed
    BY DEF IndInv, RecordsHaveSnapshots, WrittenIsCurrent, ToldOfRecords,
       ListedIsServed, SnapshotOf, Document
  <1> QED
    BY <1>1, Invariance, PTL

==============================================================================
