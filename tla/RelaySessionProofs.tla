-------------------------- MODULE RelaySessionProofs --------------------------
(***************************************************************************)
(* Proofs about RelaySession, for any number of connections, attempts and  *)
(* restarts and any timeouts.                                              *)
(*                                                                         *)
(* What the worker counts as delivered rests on an argument across the     *)
(* wire: the two ends of its connection never leave the order of the six   *)
(* frames, so the acknowledgement it reads answers the telemetry it sent,  *)
(* for the device it signed as.  Linked says where both ends are; HandlerOK*)
(* says what the receiver's handler knows of its agent in each phase.      *)
(***************************************************************************)
EXTENDS RelaySession, FiniteSetTheorems, TLAPS

InSession(d) == {c \in Conns : conn[c].open /\ conn[c].device = d}

(* The worker is on a connection while it waits for a frame, and it counts *)
(* its attempts.                                                           *)
WorkerOK ==
    /\ worker.phase \in AgentWaiting \cup {"signing"} => worker.conn \in Conns
    /\ worker.phase # "asleep" => worker.attempt >= 1
    /\ worker.phase = "backoff" => worker.attempt < Attempts

(* A handler past the hello serves a device that the receiver has loaded;  *)
(* past the authentication it holds that device's own key; only then is a  *)
(* session open.                                                           *)
HandlerOK ==
    \A c \in Conns :
        /\ conn[c].relay \in {"auth", "telemetry", "closing"}
              => conn[c].device \in loaded
        /\ conn[c].relay \in {"telemetry", "closing"}
              => conn[c].signer = conn[c].device
        /\ conn[c].open => conn[c].relay \in {"telemetry", "closing"}

(* What can be on the wire of the worker's connection in each phase. *)
WireExpected(kind) ==
    /\ worker.phase = "challenge" => kind \in {"hello", "challenge", "none"}
    /\ worker.phase = "signing" => kind = "none"
    /\ worker.phase = "ready" => kind \in {"auth", "ready", "none"}
    /\ worker.phase = "ack" => kind \in {"telemetry", "ack", "none"}

(* The worker and the handler of its connection agree: on the frame under  *)
(* way, on the device, and on what an acknowledgement stands for.          *)
LinkedTo(c) ==
    /\ WireExpected(conn[c].wire.kind)
    /\ worker.phase = "challenge" /\ conn[c].wire.kind = "challenge"
          => conn[c].device = conn[c].wire.device
    /\ worker.phase \in {"signing", "ready", "ack"}
          => conn[c].device = worker.device
    /\ worker.phase = "ack" /\ conn[c].wire.kind = "telemetry"
          => conn[c].wire.version = worker.version
    /\ worker.phase = "ack" /\ conn[c].wire.kind = "ack"
          => <<worker.device, worker.version>> \in stored

Linked == worker.conn \in Conns => LinkedTo(worker.conn)

IndInv ==
    /\ TypeOK
    /\ WorkerOK
    /\ HandlerOK
    /\ Linked
    /\ OnlyOwnKeyPublishes
    /\ ActiveSessionsExact
    /\ AckedWasStored

------------------------------------------------------------------------------
(* The shapes of the records. *)

Frame == [kind : FromAgent \cup FromRelay \cup {"none"},
          device : 0..MaxIdentity, signer : 0..MaxIdentity, version : Versions]

Connection == [relay : Waiting \cup {"closing", "done"}, timer : Nat,
               device : 0..MaxIdentity, signer : 0..MaxIdentity,
               open : BOOLEAN, wire : Frame, agentClosed : BOOLEAN]

Worker == [phase : {"asleep", "backoff", "connect", "signing"}
                   \cup AgentWaiting,
           conn : Conns \cup {NoConn}, attempt : 0..Attempts,
           version : Versions, device : 0..MaxIdentity, timer : Nat,
           acked : (0..MaxIdentity) \X Versions]

Record == [version : Versions, signer : 0..MaxIdentity]

(* TypeOK in those words *)
Shapes ==
    /\ identity \in Devices /\ produced \in Versions
    /\ worker \in Worker
    /\ conn \in [Conns -> Connection]
    /\ allowlist \subseteq Devices /\ loaded \subseteq Devices
    /\ records \in [Devices -> Record] /\ file \in [Devices -> Record]
    /\ active \in [Devices -> Nat]
    /\ stored \subseteq Devices \X Versions
    /\ faults \in [agent : Nat, receiver : Nat, disk : Nat]

(* Shapes says what TypeOK says. *)
LEMMA ShapesAreTypeOK == (Shapes <=> TypeOK) /\ (Shapes' <=> TypeOK')
  BY DEF Shapes, TypeOK, Worker, Connection, Frame, Record

(* Every frame that is sent is a frame. *)
LEMMA FramesOK ==
    /\ NoFrame \in Frame /\ Ready \in Frame /\ Ack \in Frame
    /\ \A d \in 0..MaxIdentity : Hello(d) \in Frame /\ Challenge(d) \in Frame
    /\ \A d, s \in 0..MaxIdentity : Auth(d, s) \in Frame
    /\ \A v \in Versions : Telemetry(v) \in Frame
  <1>1. 0 \in 0..MaxIdentity /\ 0 \in Versions
    BY SessionAssumption DEF Versions
  <1> QED
    BY <1>1 DEF NoFrame, Ready, Ack, Hello, Challenge, Auth, Telemetry, Frame,
                FromAgent, FromRelay

(* What each frame carries. *)
LEMMA FrameFields ==
    /\ NoFrame.kind = "none" /\ Ready.kind = "ready" /\ Ack.kind = "ack"
    /\ \A d : /\ Hello(d).kind = "hello" /\ Hello(d).device = d
              /\ Challenge(d).kind = "challenge" /\ Challenge(d).device = d
    /\ \A d, s : /\ Auth(d, s).kind = "auth" /\ Auth(d, s).device = d
                 /\ Auth(d, s).signer = s
    /\ \A v : Telemetry(v).kind = "telemetry" /\ Telemetry(v).version = v
  BY DEF NoFrame, Ready, Ack, Hello, Challenge, Auth, Telemetry

(* A power of two is a number: it counts the subsets of an interval. *)
LEMMA PowerOfTwo ==
    ASSUME NEW k \in Nat
    PROVE  2^k \in Nat
  <1>1. IsFiniteSet(1..k) /\ Cardinality(1..k) = k
    BY FS_Interval
  <1>2. IsFiniteSet(SUBSET (1..k)) /\ Cardinality(SUBSET (1..k)) = 2^k
    BY <1>1, FS_SUBSET
  <1> QED
    BY <1>2, FS_CardinalityType

(* The delay before a retry is a time. *)
LEMMA RetryDelayIsTime ==
    ASSUME NEW attempt \in Nat, attempt >= 1
    PROVE  RetryDelay(attempt) \in Nat
  <1>1. attempt - 1 \in Nat
    OBVIOUS
  <1>2. 2^(attempt - 1) \in Nat
    BY <1>1, PowerOfTwo
  <1>3. \A x \in Nat : RetryBase * x \in Nat
    BY SessionAssumption
  <1> QED
    BY <1>2, <1>3, SessionAssumption DEF RetryDelay

------------------------------------------------------------------------------
(* What the steps have in common. *)

(* What the receiver's handlers know is untouched. *)
HandlersKept ==
    /\ \A c \in Conns : /\ conn'[c].relay = conn[c].relay
                        /\ conn'[c].device = conn[c].device
                        /\ conn'[c].signer = conn[c].signer
                        /\ conn'[c].open = conn[c].open
    /\ relayVars' = relayVars

(* Then so is what the receiver's properties speak of. *)
LEMMA HandlersKeptFacts ==
    ASSUME IndInv, HandlersKept
    PROVE  HandlerOK' /\ OnlyOwnKeyPublishes' /\ ActiveSessionsExact'
  <1>1. HandlerOK'
    BY DEF IndInv, HandlersKept, HandlerOK, relayVars
  <1>2. OnlyOwnKeyPublishes'
    BY DEF IndInv, HandlersKept, OnlyOwnKeyPublishes, relayVars
  <1>3. ActiveSessionsExact'
    <2> SUFFICES ASSUME NEW d \in Devices
                 PROVE  active'[d] = Cardinality(InSession(d)')
      BY DEF ActiveSessionsExact, InSession
    <2>1. InSession(d)' = InSession(d)
      BY DEF InSession, HandlersKept
    <2>2. active'[d] = Cardinality(InSession(d))
      BY DEF IndInv, ActiveSessionsExact, InSession, HandlersKept, relayVars
    <2> QED
      BY <2>1, <2>2
  <1> QED
    BY <1>1, <1>2, <1>3

(* The sessions a device has open are finitely many. *)
LEMMA SessionsFinite ==
    ASSUME NEW d
    PROVE  IsFiniteSet(InSession(d)) /\ Cardinality(InSession(d)) \in Nat
  <1>1. IsFiniteSet(Conns) /\ InSession(d) \subseteq Conns
    BY SessionAssumption DEF InSession
  <1> QED
    BY <1>1, FS_Subset, FS_CardinalityType

(* The attempt that ends leaves a worker of the right shape. *)
LEMMA AfterFailureFacts ==
    ASSUME IndInv, worker.attempt >= 1
    PROVE  /\ AfterFailure \in Worker
           /\ AfterFailure.phase \in {"backoff", "asleep"}
           /\ AfterFailure.phase = "backoff" => /\ AfterFailure.attempt >= 1
                                                /\ AfterFailure.attempt < Attempts
           /\ AfterFailure.acked = worker.acked
           /\ AfterFailure.conn = NoConn
  <1>1. worker \in Worker
    BY ShapesAreTypeOK DEF IndInv, Shapes
  <1>2. worker.attempt \in 0..Attempts /\ Attempts \in Nat /\ Pause \in Nat
    BY <1>1, SessionAssumption DEF Worker
  <1>3. worker.attempt \in Nat
    BY <1>2
  <1>4. RetryDelay(worker.attempt) \in Nat
    BY <1>3, RetryDelayIsTime
  <1>5. 0 \in 0..Attempts /\ 0 \in 0..MaxIdentity /\ 0 \in Versions
    BY SessionAssumption DEF Versions
  <1>6. CASE worker.attempt < Attempts
    BY <1>1, <1>2, <1>4, <1>5, <1>6 DEF AfterFailure, Worker
  <1>7. CASE ~(worker.attempt < Attempts)
    BY <1>1, <1>2, <1>5, <1>7 DEF AfterFailure, Worker
  <1> QED
    BY <1>6, <1>7

(* A worker on no connection agrees with everybody. *)
LEMMA IdleLinked ==
    ASSUME worker'.phase \in {"asleep", "backoff", "connect"}
    PROVE  Linked'
  BY DEF Linked, LinkedTo, WireExpected

(* Nothing that was stored is forgotten. *)
LEMMA AckedKept ==
    ASSUME AckedWasStored, worker'.acked = worker.acked, stored \subseteq stored'
    PROVE  AckedWasStored'
  BY DEF AckedWasStored

(* What the worker does with a connection it leaves alone: it sleeps, takes *)
(* a snapshot, waits and gives up.                                         *)
LEMMA WorkerAlone ==
    ASSUME IndInv, BeginCycle \/ FetchFails \/ BackoffOver \/ ConnectFails
    PROVE  IndInv'
  <1>1. worker \in Worker /\ Shapes
    BY ShapesAreTypeOK DEF IndInv, Shapes
  <1>2. UNCHANGED <<identity, produced, conn, relayVars, faults>>
    BY DEF BeginCycle, FetchFails, BackoffOver, ConnectFails
  <1>3. /\ worker' \in Worker
        /\ worker'.phase \in {"asleep", "backoff", "connect"}
        /\ worker'.phase # "asleep" => worker'.attempt >= 1
        /\ worker'.phase = "backoff" => worker'.attempt < Attempts
        /\ worker'.acked = worker.acked
    <2>1. CASE BeginCycle
      <3>1. 1 \in 0..Attempts /\ produced \in Versions
        BY <1>1, SessionAssumption DEF Shapes
      <3>2. worker' = [worker EXCEPT !.phase = "connect", !.attempt = 1,
                                     !.version = produced]
        BY <2>1 DEF BeginCycle
      <3>3. worker' \in Worker
        BY <1>1, <3>1, <3>2 DEF Worker
      <3>4. /\ worker'.phase = "connect" /\ worker'.attempt = 1
            /\ worker'.acked = worker.acked
        BY <1>1, <3>2 DEF Worker
      <3> QED
        BY <3>3, <3>4
    <2>2. CASE FetchFails
      BY <1>1, <2>2, SessionAssumption DEF FetchFails, Worker
    <2>3. CASE BackoffOver
      <3>1. /\ worker.attempt \in 0..Attempts /\ worker.attempt < Attempts
            /\ worker.attempt >= 1 /\ Attempts \in Nat
        BY <1>1, <2>3, SessionAssumption
        DEF IndInv, WorkerOK, BackoffOver, Worker
      <3>2. worker.attempt + 1 \in 0..Attempts /\ worker.attempt + 1 >= 1
        BY <3>1
      <3> QED
        BY <1>1, <2>3, <3>2 DEF BackoffOver, Worker
    <2>4. CASE ConnectFails
      <3>1. worker.attempt >= 1 /\ worker' = AfterFailure
        BY <2>4 DEF IndInv, WorkerOK, ConnectFails
      <3> QED
        BY <3>1, AfterFailureFacts
    <2> QED
      BY <2>1, <2>2, <2>3, <2>4
  <1>4. HandlersKept
    BY <1>2 DEF HandlersKept
  <1>5. TypeOK'
    <2>1. Shapes'
      BY <1>1, <1>2, <1>3 DEF Shapes, relayVars
    <2> QED
      BY <2>1, ShapesAreTypeOK
  <1>6. WorkerOK'
    BY <1>3 DEF WorkerOK, AgentWaiting
  <1>7. AckedWasStored'
    BY <1>2, <1>3, AckedKept DEF IndInv, relayVars
  <1> QED
    BY <1>3, <1>4, <1>5, <1>6, <1>7, HandlersKeptFacts, IdleLinked DEF IndInv

(* An attempt ends without an acknowledgement. *)
LEMMA AttemptFailsStep ==
    ASSUME IndInv, worker.phase \in AgentWaiting, AttemptFails
    PROVE  IndInv'
  <1>1. worker \in Worker /\ Shapes /\ worker.conn \in Conns
        /\ worker.attempt >= 1
    BY ShapesAreTypeOK DEF IndInv, Shapes, WorkerOK, AgentWaiting
  <1>2. /\ worker' = AfterFailure
        /\ conn' = [conn EXCEPT ![worker.conn].agentClosed = TRUE]
        /\ UNCHANGED <<identity, produced, relayVars, faults>>
    BY DEF AttemptFails, CloseAgentEnd
  <1>3. conn' \in [Conns -> Connection]
    BY <1>1, <1>2 DEF Shapes, Connection
  <1>4. HandlersKept
    BY <1>1, <1>2 DEF HandlersKept, Shapes, Connection
  <1>5. Shapes'
    BY <1>1, <1>2, <1>3, AfterFailureFacts DEF Shapes, relayVars
  <1>6. TypeOK'
    BY <1>5, ShapesAreTypeOK
  <1>7. WorkerOK'
    BY <1>1, <1>2, AfterFailureFacts DEF WorkerOK, AgentWaiting
  <1>8. AckedWasStored'
    BY <1>1, <1>2, AfterFailureFacts, AckedKept DEF IndInv, relayVars
  <1>9. Linked'
    BY <1>1, <1>2, AfterFailureFacts, IdleLinked
  <1> QED
    BY <1>4, <1>6, <1>7, <1>8, <1>9, HandlersKeptFacts DEF IndInv

(* A frame of the worker's goes out, or one is taken off the wire. *)
LEMMA WireFacts ==
    ASSUME Shapes, NEW c \in Conns, NEW frame \in Frame,
           conn' = [conn EXCEPT ![c].wire = frame], relayVars' = relayVars
    PROVE  /\ conn' \in [Conns -> Connection]
           /\ HandlersKept
           /\ conn'[c].wire = frame /\ conn'[c].device = conn[c].device
  BY DEF Shapes, Connection, HandlersKept

(* The worker connects and says hello. *)
LEMMA ConnectStep ==
    ASSUME IndInv, NEW c \in Conns, Connect(c)
    PROVE  IndInv'
  <1>1. worker \in Worker /\ Shapes /\ worker.attempt >= 1
        /\ conn[c].relay = "done"
    BY ShapesAreTypeOK DEF IndInv, Shapes, WorkerOK, Connect, Free
  <1> DEFINE opening == [Unused EXCEPT !.relay = "hello", !.timer = FrameTimeout,
                                       !.wire = Hello(identity),
                                       !.agentClosed = FALSE]
  <1>2. /\ conn' = [conn EXCEPT ![c] = opening]
        /\ worker' = [worker EXCEPT !.phase = "challenge", !.conn = c,
                                    !.timer = ConnectTimeout]
        /\ UNCHANGED <<identity, produced, relayVars, faults>>
    BY DEF Connect
  <1>3. opening \in Connection /\ opening.relay = "hello" /\ ~opening.open
        /\ opening.wire.kind = "hello"
    <2>1. 0 \in 0..MaxIdentity /\ identity \in 0..MaxIdentity
          /\ FrameTimeout \in Nat
      BY <1>1, SessionAssumption DEF Shapes, Devices
    <2>2. Hello(identity) \in Frame /\ NoFrame \in Frame
          /\ Hello(identity).kind = "hello"
      BY <2>1, FramesOK, FrameFields
    <2> QED
      BY <2>1, <2>2 DEF Unused, Connection, Waiting
  <1> HIDE DEF opening
  <1>4. /\ conn' \in [Conns -> Connection] /\ conn'[c] = opening
        /\ \A x \in Conns \ {c} : conn'[x] = conn[x]
    BY <1>1, <1>2, <1>3 DEF Shapes
  <1>5. worker' \in Worker /\ worker'.phase = "challenge" /\ worker'.conn = c
        /\ worker'.attempt = worker.attempt /\ worker'.acked = worker.acked
    BY <1>1, <1>2, SessionAssumption DEF Worker, AgentWaiting
  <1>6. TypeOK'
    BY <1>1, <1>2, <1>4, <1>5, ShapesAreTypeOK DEF Shapes, relayVars
  <1>7. WorkerOK'
    BY <1>1, <1>5 DEF WorkerOK
  <1>8. HandlerOK' /\ OnlyOwnKeyPublishes'
    BY <1>2, <1>3, <1>4
    DEF IndInv, HandlerOK, OnlyOwnKeyPublishes, relayVars
  <1>9. ~conn[c].open
    BY <1>1 DEF IndInv, HandlerOK
  <1>10. ActiveSessionsExact'
    <2>1. \A d \in Devices : InSession(d)' = InSession(d)
      BY <1>3, <1>4, <1>9 DEF InSession
    <2> QED
      BY <1>2, <2>1 DEF IndInv, ActiveSessionsExact, InSession, relayVars
  <1>11. AckedWasStored'
    BY <1>2, <1>5, AckedKept DEF IndInv, relayVars
  <1>12. Linked'
    BY <1>3, <1>4, <1>5 DEF Linked, LinkedTo, WireExpected
  <1> QED
    BY <1>6, <1>7, <1>8, <1>10, <1>11, <1>12 DEF IndInv

(* The worker takes the challenge. *)
LEMMA ReadChallengeStep ==
    ASSUME IndInv, ReadChallenge
    PROVE  IndInv'
  <1> DEFINE c == worker.conn
  <1>1. worker \in Worker /\ Shapes /\ c \in Conns /\ worker.attempt >= 1
        /\ worker.phase = "challenge" /\ conn[c].wire.kind = "challenge"
        /\ conn[c].wire.device = identity
    BY ShapesAreTypeOK
    DEF IndInv, Shapes, WorkerOK, AgentWaiting, ReadChallenge, Arrived,
        AudienceIs
  <1>2. /\ worker' = [worker EXCEPT !.phase = "signing", !.device = identity]
        /\ conn' = [conn EXCEPT ![c].wire = NoFrame]
        /\ UNCHANGED <<identity, produced, relayVars, faults>>
    BY DEF ReadChallenge, SendFromAgent
  <1>3. conn[c].device = identity
    BY <1>1 DEF IndInv, Linked, LinkedTo
  <1> HIDE DEF c
  <1>4. /\ conn' \in [Conns -> Connection] /\ HandlersKept
        /\ conn'[c].wire = NoFrame /\ conn'[c].device = identity
    BY <1>1, <1>2, <1>3, FramesOK, WireFacts
  <1>5. /\ worker' \in Worker /\ worker'.phase = "signing"
        /\ worker'.conn = worker.conn /\ worker'.attempt = worker.attempt
        /\ worker'.device = identity /\ worker'.acked = worker.acked
    <2>1. identity \in 0..MaxIdentity
      BY <1>1 DEF Shapes, Devices
    <2> QED
      BY <1>1, <1>2, <2>1 DEF Worker
  <1>6. TypeOK'
    BY <1>1, <1>2, <1>4, <1>5, ShapesAreTypeOK DEF Shapes, relayVars
  <1>7. WorkerOK'
    BY <1>1, <1>5 DEF WorkerOK, c
  <1>8. AckedWasStored'
    BY <1>2, <1>5, AckedKept DEF IndInv, relayVars
  <1>9. Linked'
    BY <1>4, <1>5, FrameFields DEF Linked, LinkedTo, WireExpected, c
  <1> QED
    BY <1>4, <1>6, <1>7, <1>8, <1>9, HandlersKeptFacts DEF IndInv

(* The worker signs, with whatever key it has by then. *)
LEMMA SignStep ==
    ASSUME IndInv, Sign
    PROVE  IndInv'
  <1> DEFINE c == worker.conn
             frame == Auth(worker.device, identity)
  <1>1. worker \in Worker /\ Shapes /\ c \in Conns /\ worker.attempt >= 1
        /\ worker.phase = "signing"
    BY ShapesAreTypeOK DEF IndInv, Shapes, WorkerOK, Sign
  <1>2. /\ worker' = [worker EXCEPT !.phase = "ready", !.timer = ConnectTimeout]
        /\ conn' = [conn EXCEPT ![c].wire = frame]
        /\ UNCHANGED <<identity, produced, relayVars, faults>>
    BY DEF Sign, SendFromAgent
  <1>3. conn[c].device = worker.device
    BY <1>1 DEF IndInv, Linked, LinkedTo
  <1>4. frame \in Frame /\ frame.kind = "auth"
    <2>1. worker.device \in 0..MaxIdentity /\ identity \in 0..MaxIdentity
      BY <1>1 DEF Worker, Shapes, Devices
    <2> QED
      BY <2>1, FramesOK, FrameFields
  <1> HIDE DEF c, frame
  <1>5. /\ conn' \in [Conns -> Connection] /\ HandlersKept
        /\ conn'[c].wire = frame /\ conn'[c].device = worker.device
    BY <1>1, <1>2, <1>3, <1>4, WireFacts
  <1>6. /\ worker' \in Worker /\ worker'.phase = "ready"
        /\ worker'.conn = worker.conn /\ worker'.attempt = worker.attempt
        /\ worker'.device = worker.device /\ worker'.acked = worker.acked
    BY <1>1, <1>2, SessionAssumption DEF Worker, AgentWaiting
  <1>7. TypeOK'
    BY <1>1, <1>2, <1>5, <1>6, ShapesAreTypeOK DEF Shapes, relayVars
  <1>8. WorkerOK'
    BY <1>1, <1>6 DEF WorkerOK, c
  <1>9. AckedWasStored'
    BY <1>2, <1>6, AckedKept DEF IndInv, relayVars
  <1>10. Linked'
    BY <1>4, <1>5, <1>6 DEF Linked, LinkedTo, WireExpected, c
  <1> QED
    BY <1>5, <1>7, <1>8, <1>9, <1>10, HandlersKeptFacts DEF IndInv

(* The worker is told that it may send, and sends. *)
LEMMA ReadReadyStep ==
    ASSUME IndInv, ReadReady
    PROVE  IndInv'
  <1> DEFINE c == worker.conn
             frame == Telemetry(worker.version)
  <1>1. worker \in Worker /\ Shapes /\ c \in Conns /\ worker.attempt >= 1
        /\ worker.phase = "ready"
    BY ShapesAreTypeOK
    DEF IndInv, Shapes, WorkerOK, AgentWaiting, ReadReady, Arrived
  <1>2. /\ worker' = [worker EXCEPT !.phase = "ack", !.timer = ConnectTimeout]
        /\ conn' = [conn EXCEPT ![c].wire = frame]
        /\ UNCHANGED <<identity, produced, relayVars, faults>>
    BY DEF ReadReady, SendFromAgent
  <1>3. conn[c].device = worker.device
    BY <1>1 DEF IndInv, Linked, LinkedTo
  <1>4. frame \in Frame /\ frame.kind = "telemetry"
        /\ frame.version = worker.version
    <2>1. worker.version \in Versions
      BY <1>1 DEF Worker
    <2> QED
      BY <2>1, FramesOK, FrameFields
  <1> HIDE DEF c, frame
  <1>5. /\ conn' \in [Conns -> Connection] /\ HandlersKept
        /\ conn'[c].wire = frame /\ conn'[c].device = worker.device
    BY <1>1, <1>2, <1>3, <1>4, WireFacts
  <1>6. /\ worker' \in Worker /\ worker'.phase = "ack"
        /\ worker'.conn = worker.conn /\ worker'.attempt = worker.attempt
        /\ worker'.device = worker.device /\ worker'.acked = worker.acked
        /\ worker'.version = worker.version
    BY <1>1, <1>2, SessionAssumption DEF Worker, AgentWaiting
  <1>7. TypeOK'
    BY <1>1, <1>2, <1>5, <1>6, ShapesAreTypeOK DEF Shapes, relayVars
  <1>8. WorkerOK'
    BY <1>1, <1>6 DEF WorkerOK, c
  <1>9. AckedWasStored'
    BY <1>2, <1>6, AckedKept DEF IndInv, relayVars
  <1>10. Linked'
    BY <1>4, <1>5, <1>6 DEF Linked, LinkedTo, WireExpected, c
  <1> QED
    BY <1>5, <1>7, <1>8, <1>9, <1>10, HandlersKeptFacts DEF IndInv

(* The worker reads the acknowledgement, and counts the snapshot as        *)
(* delivered: what the receiver stored is what Linked says it was.         *)
LEMMA ReadAckStep ==
    ASSUME IndInv, ReadAck
    PROVE  IndInv'
  <1> DEFINE c == worker.conn
  <1>1. worker \in Worker /\ Shapes /\ c \in Conns
        /\ worker.phase = "ack" /\ conn[c].wire.kind = "ack"
    BY ShapesAreTypeOK
    DEF IndInv, Shapes, WorkerOK, AgentWaiting, ReadAck, Arrived
  <1>2. /\ conn' = [conn EXCEPT ![c].agentClosed = TRUE, ![c].wire = NoFrame]
        /\ worker' = [worker EXCEPT !.phase = "asleep", !.conn = NoConn,
                                    !.device = 0, !.attempt = 0, !.version = 0,
                                    !.timer = Pause,
                                    !.acked = <<worker.device, worker.version>>]
        /\ UNCHANGED <<identity, produced, relayVars, faults>>
    BY DEF ReadAck
  <1>3. <<worker.device, worker.version>> \in stored
    BY <1>1 DEF IndInv, Linked, LinkedTo
  <1> HIDE DEF c
  <1>4. conn' \in [Conns -> Connection] /\ HandlersKept
    BY <1>1, <1>2, FramesOK DEF Shapes, Connection, HandlersKept
  <1>5. worker' \in Worker
    <2>1. /\ 0 \in 0..Attempts /\ 0 \in 0..MaxIdentity /\ 0 \in Versions
          /\ Pause \in Nat
      BY SessionAssumption DEF Versions
    <2> QED
      BY <1>1, <1>2, <2>1 DEF Worker
  <1>6. /\ worker'.phase = "asleep"
        /\ worker'.acked = <<worker.device, worker.version>>
    BY <1>1, <1>2 DEF Worker
  <1>7. TypeOK'
    BY <1>1, <1>2, <1>4, <1>5, ShapesAreTypeOK DEF Shapes, relayVars
  <1>8. WorkerOK'
    BY <1>6 DEF WorkerOK, AgentWaiting
  <1>9. AckedWasStored'
    BY <1>2, <1>3, <1>6 DEF AckedWasStored, relayVars
  <1> QED
    BY <1>4, <1>6, <1>7, <1>8, <1>9, HandlersKeptFacts, IdleLinked DEF IndInv

(* So every step of the worker's keeps the invariant. *)
LEMMA WorkerSteps ==
    ASSUME IndInv, WorkerStep
    PROVE  IndInv'
  <1>1. CASE BeginCycle \/ FetchFails \/ BackoffOver \/ ConnectFails
    BY <1>1, WorkerAlone
  <1>2. CASE \E c \in Conns : Connect(c)
    BY <1>2, ConnectStep
  <1>3. CASE ReadChallenge \/ Sign \/ ReadReady \/ ReadAck
    BY <1>3, ReadChallengeStep, SignStep, ReadReadyStep, ReadAckStep
  <1>4. CASE RejectChallenge \/ AgentTimeout \/ AgentReadsEof
    BY <1>4, AttemptFailsStep
    DEF RejectChallenge, Arrived, AgentTimeout, AgentReadsEof, AgentWaiting
  <1> QED
    BY <1>1, <1>2, <1>3, <1>4 DEF WorkerStep

------------------------------------------------------------------------------
(* The handlers. *)

(* The worker agrees with its handler as long as nothing new is on the     *)
(* wire.                                                                   *)
LEMMA LinkedKept ==
    ASSUME Linked, worker' = worker, stored \subseteq stored',
           worker.conn \in Conns =>
              /\ conn'[worker.conn].device = conn[worker.conn].device
              /\ \/ conn'[worker.conn].wire = conn[worker.conn].wire
                 \/ conn'[worker.conn].wire = NoFrame
    PROVE  Linked'
  BY FrameFields DEF Linked, LinkedTo, WireExpected

(* One more session of one device is open. *)
LEMMA OpenedFacts ==
    ASSUME Shapes, ActiveSessionsExact, NEW c \in Conns, ~conn[c].open,
           conn[c].device \in Devices, active' = Opened(conn[c].device),
           conn'[c].open, conn'[c].device = conn[c].device,
           \A x \in Conns \ {c} : conn'[x] = conn[x]
    PROVE  active' \in [Devices -> Nat] /\ ActiveSessionsExact'
  <1> DEFINE o == conn[c].device
  <1>1. /\ active \in [Devices -> Nat] /\ o \in Devices
        /\ active' = [active EXCEPT ![o] = @ + 1]
    BY DEF Shapes, Opened
  <1>2. active' \in [Devices -> Nat]
    BY <1>1
  <1>3. ASSUME NEW d \in Devices
        PROVE  active'[d] = Cardinality(InSession(d)')
    <2>1. active[d] = Cardinality(InSession(d)) /\ active[d] \in Nat
      BY <1>1 DEF ActiveSessionsExact, InSession
    <2>2. CASE d = o
      <3>1. InSession(d)' = InSession(d) \cup {c} /\ c \notin InSession(d)
        BY <2>2 DEF InSession
      <3>2. Cardinality(InSession(d)') = Cardinality(InSession(d)) + 1
        BY <3>1, SessionsFinite, FS_AddElement
      <3> QED
        BY <1>1, <2>1, <2>2, <3>2
    <2>3. CASE d # o
      <3>1. InSession(d)' = InSession(d)
        BY <2>3 DEF InSession
      <3> QED
        BY <1>1, <2>1, <2>3, <3>1
    <2> QED
      BY <2>2, <2>3
  <1> QED
    BY <1>2, <1>3 DEF ActiveSessionsExact, InSession

(* The session of a connection is closed, if it had one. *)
LEMMA ClosedFacts ==
    ASSUME Shapes, ActiveSessionsExact, NEW c \in Conns,
           conn[c].open => conn[c].device \in Devices,
           active' = Closed(c), ~conn'[c].open,
           \A x \in Conns \ {c} : conn'[x] = conn[x]
    PROVE  active' \in [Devices -> Nat] /\ ActiveSessionsExact'
  <1> DEFINE o == conn[c].device
  <1>1. active \in [Devices -> Nat]
    BY DEF Shapes
  <1>2. CASE ~conn[c].open
    <2>1. \A d \in Devices : InSession(d)' = InSession(d)
      BY <1>2 DEF InSession
    <2> QED
      BY <1>1, <1>2, <2>1 DEF Closed, ActiveSessionsExact, InSession
  <1>3. CASE conn[c].open
    <2>1. /\ o \in Devices
          /\ active' = [active EXCEPT ![o] = IF @ > 0 THEN @ - 1 ELSE 0]
      BY <1>3 DEF Closed
    <2>2. active' \in [Devices -> Nat]
      BY <1>1, <2>1
    <2>3. ASSUME NEW d \in Devices
          PROVE  active'[d] = Cardinality(InSession(d)')
      <3>1. active[d] = Cardinality(InSession(d)) /\ active[d] \in Nat
        BY <1>1 DEF ActiveSessionsExact, InSession
      <3>2. CASE d = o
        <4>1. InSession(d)' = InSession(d) \ {c} /\ c \in InSession(d)
          BY <1>3, <3>2 DEF InSession
        <4>2. Cardinality(InSession(d)') = Cardinality(InSession(d)) - 1
          BY <4>1, SessionsFinite, FS_RemoveElement
        <4>3. Cardinality(InSession(d)) # 0
          BY <4>1, SessionsFinite, FS_EmptySet
        <4> QED
          BY <1>1, <2>1, <3>1, <3>2, <4>2, <4>3
      <3>3. CASE d # o
        <4>1. InSession(d)' = InSession(d)
          BY <3>3 DEF InSession
        <4> QED
          BY <1>1, <2>1, <3>1, <3>3, <4>1
      <3> QED
        BY <3>2, <3>3
    <2> QED
      BY <2>2, <2>3 DEF ActiveSessionsExact, InSession
  <1> QED
    BY <1>2, <1>3

(* A handler that ends closes its session and leaves on the wire at most   *)
(* what the agent can still read.                                          *)
LEMMA HandlerEndsFacts ==
    ASSUME IndInv, NEW c \in Conns, HandlerEnds(c)
    PROVE  /\ conn' \in [Conns -> Connection]
           /\ active' \in [Devices -> Nat] /\ ActiveSessionsExact'
           /\ conn'[c].relay = "done" /\ ~conn'[c].open
           /\ conn'[c].device = conn[c].device
           /\ conn'[c].wire = conn[c].wire \/ conn'[c].wire = NoFrame
           /\ \A x \in Conns \ {c} : conn'[x] = conn[x]
  <1>1. Shapes /\ conn[c] \in Connection
    BY ShapesAreTypeOK DEF IndInv, Shapes
  <1>2. PICK left \in Frame :
           /\ left = conn[c].wire \/ left = NoFrame
           /\ conn' = [conn EXCEPT ![c].relay = "done", ![c].timer = 0,
                                   ![c].open = FALSE, ![c].wire = left]
    <2>1. conn[c].wire \in Frame
      BY <1>1 DEF Connection
    <2> QED
      BY <2>1, FramesOK DEF HandlerEnds
  <1>3. /\ conn' \in [Conns -> Connection]
        /\ conn'[c].relay = "done" /\ ~conn'[c].open
        /\ conn'[c].device = conn[c].device /\ conn'[c].wire = left
        /\ \A x \in Conns \ {c} : conn'[x] = conn[x]
    BY <1>1, <1>2 DEF Shapes, Connection
  <1>4. conn[c].open => conn[c].device \in Devices
    BY <1>1 DEF IndInv, HandlerOK, Shapes
  <1>5. active' = Closed(c) /\ ActiveSessionsExact
    BY DEF HandlerEnds, IndInv
  <1>6. active' \in [Devices -> Nat] /\ ActiveSessionsExact'
    BY <1>1, <1>3, <1>4, <1>5, ClosedFacts
  <1> QED
    BY <1>2, <1>3, <1>6

(* A handler that fails, or is done. *)
LEMMA HandlerFailsStep ==
    ASSUME IndInv, NEW c \in Conns, HandlerFails(c)
    PROVE  IndInv'
  <1>1. Shapes /\ HandlerEnds(c)
        /\ UNCHANGED <<agentVars, allowlist, loaded, records, file, stored, faults>>
    BY ShapesAreTypeOK DEF IndInv, HandlerFails
  <1>2. TypeOK'
    BY <1>1, HandlerEndsFacts, ShapesAreTypeOK DEF Shapes, agentVars
  <1>3. WorkerOK' /\ OnlyOwnKeyPublishes' /\ AckedWasStored'
    BY <1>1
    DEF IndInv, WorkerOK, OnlyOwnKeyPublishes, AckedWasStored, agentVars
  <1>4. HandlerOK'
    BY <1>1, HandlerEndsFacts DEF IndInv, HandlerOK
  <1>5. Linked'
    BY <1>1, HandlerEndsFacts, LinkedKept DEF IndInv, agentVars
  <1> QED
    BY <1>1, <1>2, <1>3, <1>4, <1>5, HandlerEndsFacts DEF IndInv

(* A handler takes the hello of a device it knows. *)
LEMMA ReadHelloStep ==
    ASSUME IndInv, NEW c \in Conns, ReadHello(c)
    PROVE  IndInv'
  <1> DEFINE d == conn[c].wire.device
  <1>1. /\ Shapes /\ conn[c] \in Connection /\ d \in loaded
        /\ conn[c].relay = "hello" /\ conn[c].wire.kind = "hello"
    BY ShapesAreTypeOK DEF IndInv, Shapes, ReadHello, Receives, Known
  <1>2. /\ conn' = [conn EXCEPT ![c].relay = "auth", ![c].timer = FrameTimeout,
                                ![c].device = d, ![c].wire = Challenge(d)]
        /\ UNCHANGED <<agentVars, relayVars, faults>>
    BY DEF ReadHello
  <1>3. /\ d \in 0..MaxIdentity /\ Challenge(d) \in Frame
        /\ Challenge(d).kind = "challenge" /\ Challenge(d).device = d
    <2>1. d \in 0..MaxIdentity
      BY <1>1 DEF Connection, Frame
    <2> QED
      BY <2>1, FramesOK, FrameFields
  <1> HIDE DEF d
  <1>4. conn' \in [Conns -> Connection]
    BY <1>1, <1>2, <1>3, SessionAssumption DEF Shapes, Connection, Waiting
  <1>5. /\ conn'[c].relay = "auth" /\ conn'[c].device = d
        /\ conn'[c].open = conn[c].open /\ conn'[c].wire = Challenge(d)
        /\ \A x \in Conns \ {c} : conn'[x] = conn[x]
    BY <1>1, <1>2 DEF Shapes, Connection
  <1>6. ~conn[c].open
    BY <1>1 DEF IndInv, HandlerOK
  <1>7. TypeOK'
    BY <1>1, <1>2, <1>4, ShapesAreTypeOK DEF Shapes, agentVars, relayVars
  <1>8. WorkerOK' /\ OnlyOwnKeyPublishes' /\ AckedWasStored'
    BY <1>2
    DEF IndInv, WorkerOK, OnlyOwnKeyPublishes, AckedWasStored, agentVars,
        relayVars
  <1>9. HandlerOK'
    <2>1. loaded' = loaded
      BY <1>2 DEF relayVars
    <2> QED
      BY <1>1, <1>5, <1>6, <2>1 DEF IndInv, HandlerOK
  <1>10. ActiveSessionsExact'
    <2>1. \A x \in Devices : InSession(x)' = InSession(x)
      BY <1>5, <1>6 DEF InSession
    <2> QED
      BY <1>2, <2>1 DEF IndInv, ActiveSessionsExact, InSession, relayVars
  <1>11. Linked'
    <2>1. CASE worker.conn = c
      BY <1>1, <1>2, <1>3, <1>5, <2>1
      DEF IndInv, Linked, LinkedTo, WireExpected, agentVars, relayVars
    <2>2. CASE worker.conn # c
      BY <1>2, <1>5, <2>2, LinkedKept DEF IndInv, agentVars, relayVars
    <2> QED
      BY <2>1, <2>2
  <1> QED
    BY <1>7, <1>8, <1>9, <1>10, <1>11 DEF IndInv

(* A handler takes a signature by the device's own key and opens a session. *)
LEMMA ReadAuthStep ==
    ASSUME IndInv, NEW c \in Conns, ReadAuth(c)
    PROVE  IndInv'
  <1> DEFINE s == conn[c].wire.signer
  <1>1. /\ Shapes /\ conn[c] \in Connection /\ s = conn[c].device
        /\ conn[c].relay = "auth" /\ conn[c].wire.kind = "auth"
    BY ShapesAreTypeOK DEF IndInv, Shapes, ReadAuth, Receives, AuthOK
  <1>2. /\ conn' = [conn EXCEPT ![c].relay = "telemetry",
                                ![c].timer = FrameTimeout, ![c].signer = s,
                                ![c].open = TRUE, ![c].wire = Ready]
        /\ active' = Opened(conn[c].device)
        /\ UNCHANGED <<agentVars, allowlist, loaded, records, file, stored,
                       faults>>
    BY DEF ReadAuth
  <1>3. s \in 0..MaxIdentity /\ Ready \in Frame /\ Ready.kind = "ready"
    BY <1>1, FramesOK, FrameFields DEF Connection
  <1> HIDE DEF s
  <1>4. conn' \in [Conns -> Connection]
    BY <1>1, <1>2, <1>3, SessionAssumption DEF Shapes, Connection, Waiting
  <1>5. /\ conn'[c].relay = "telemetry" /\ conn'[c].device = conn[c].device
        /\ conn'[c].signer = s /\ conn'[c].open /\ conn'[c].wire = Ready
        /\ \A x \in Conns \ {c} : conn'[x] = conn[x]
    BY <1>1, <1>2 DEF Shapes, Connection
  <1>6. ~conn[c].open /\ conn[c].device \in loaded /\ loaded \subseteq Devices
    BY <1>1 DEF IndInv, HandlerOK, Shapes
  <1>7. active' \in [Devices -> Nat] /\ ActiveSessionsExact'
    BY <1>1, <1>2, <1>5, <1>6, OpenedFacts DEF IndInv
  <1>8. TypeOK'
    BY <1>1, <1>2, <1>4, <1>7, ShapesAreTypeOK DEF Shapes, agentVars
  <1>9. WorkerOK' /\ OnlyOwnKeyPublishes' /\ AckedWasStored'
    BY <1>2
    DEF IndInv, WorkerOK, OnlyOwnKeyPublishes, AckedWasStored, agentVars
  <1>10. HandlerOK'
    <2>1. loaded' = loaded
      BY <1>2
    <2> QED
      BY <1>1, <1>5, <1>6, <2>1 DEF IndInv, HandlerOK
  <1>11. Linked'
    <2>1. CASE worker.conn = c
      BY <1>1, <1>2, <1>3, <1>5, <2>1
      DEF IndInv, Linked, LinkedTo, WireExpected, agentVars
    <2>2. CASE worker.conn # c
      BY <1>2, <1>5, <2>2, LinkedKept DEF IndInv, agentVars
    <2> QED
      BY <2>1, <2>2
  <1> QED
    BY <1>7, <1>8, <1>9, <1>10, <1>11 DEF IndInv

(* What a handler publishes is signed by the device's own key. *)
LEMMA PublishedFacts ==
    ASSUME IndInv, NEW c \in Conns, Receives(c, "telemetry"),
           records' = Published(c)
    PROVE  /\ records' \in [Devices -> Record] /\ OnlyOwnKeyPublishes'
           /\ \A d \in Devices : records'[d] # records[d] => d \in loaded
           /\ <<conn[c].device, conn[c].wire.version>> \in Devices \X Versions
  <1>1. /\ Shapes /\ conn[c] \in Connection /\ conn[c].relay = "telemetry"
        /\ conn[c].device \in loaded /\ conn[c].signer = conn[c].device
    BY ShapesAreTypeOK DEF IndInv, Shapes, Receives, HandlerOK
  <1>2. PICK record : record = [version |-> conn[c].wire.version,
                                signer |-> conn[c].signer]
    OBVIOUS
  <1>3. record \in Record /\ record.signer = conn[c].device
    BY <1>1, <1>2 DEF Record, Connection, Frame
  <1>4. records' = [records EXCEPT ![conn[c].device] = record]
    BY <1>2 DEF Published
  <1>5. /\ conn[c].device \in Devices /\ conn[c].wire.version \in Versions
        /\ records \in [Devices -> Record]
    BY <1>1 DEF Shapes, Connection, Frame
  <1>6. records' \in [Devices -> Record]
    BY <1>3, <1>4, <1>5
  <1>7. \A d \in Devices : d # conn[c].device => records'[d] = records[d]
    BY <1>4, <1>5
  <1>8. records'[conn[c].device] = record
    BY <1>4, <1>5
  <1>9. OnlyOwnKeyPublishes'
    BY <1>3, <1>7, <1>8 DEF IndInv, OnlyOwnKeyPublishes
  <1> QED
    BY <1>1, <1>5, <1>6, <1>7, <1>9

(* A handler stores the snapshot and acknowledges it. *)
LEMMA ReadTelemetryStep ==
    ASSUME IndInv, NEW c \in Conns, ReadTelemetry(c)
    PROVE  IndInv'
  <1> DEFINE sent == <<conn[c].device, conn[c].wire.version>>
  <1>1. /\ Shapes /\ conn[c] \in Connection
        /\ conn[c].relay = "telemetry" /\ conn[c].wire.kind = "telemetry"
        /\ Receives(c, "telemetry") /\ records' = Published(c)
    BY ShapesAreTypeOK DEF IndInv, Shapes, ReadTelemetry, Receives
  <1>2. /\ file' = records' /\ stored' = stored \cup {sent}
        /\ conn' = [conn EXCEPT ![c].relay = "closing", ![c].timer = 0,
                                ![c].wire = Ack]
        /\ UNCHANGED <<agentVars, allowlist, loaded, active, faults>>
    BY DEF ReadTelemetry
  <1>3. Ack \in Frame /\ Ack.kind = "ack"
    BY FramesOK, FrameFields
  <1> HIDE DEF sent
  <1>4. conn' \in [Conns -> Connection]
    BY <1>1, <1>2, <1>3 DEF Shapes, Connection
  <1>5. /\ conn'[c].relay = "closing" /\ conn'[c].device = conn[c].device
        /\ conn'[c].signer = conn[c].signer /\ conn'[c].open = conn[c].open
        /\ conn'[c].wire = Ack
        /\ \A x \in Conns \ {c} : conn'[x] = conn[x]
    BY <1>1, <1>2 DEF Shapes, Connection
  <1>6. /\ records' \in [Devices -> Record] /\ OnlyOwnKeyPublishes'
        /\ sent \in Devices \X Versions
    BY <1>1, PublishedFacts DEF sent
  <1>7. TypeOK'
    BY <1>1, <1>2, <1>4, <1>6, ShapesAreTypeOK DEF Shapes, agentVars
  <1>8. WorkerOK' /\ AckedWasStored'
    BY <1>2 DEF IndInv, WorkerOK, AckedWasStored, agentVars
  <1>9. HandlerOK'
    <2>1. loaded' = loaded
      BY <1>2
    <2>2. conn[c].device \in loaded /\ conn[c].signer = conn[c].device
      BY <1>1 DEF IndInv, HandlerOK
    <2> QED
      BY <1>1, <1>5, <2>1, <2>2 DEF IndInv, HandlerOK
  <1>10. ActiveSessionsExact'
    <2>1. \A d \in Devices : InSession(d)' = InSession(d)
      BY <1>5 DEF InSession
    <2> QED
      BY <1>2, <2>1 DEF IndInv, ActiveSessionsExact, InSession
  <1>11. Linked'
    <2>1. CASE worker.conn = c
      <3>1. worker.phase = "ack" => sent = <<worker.device, worker.version>>
        BY <1>1, <2>1 DEF IndInv, Linked, LinkedTo, sent
      <3> QED
        BY <1>1, <1>2, <1>3, <1>5, <2>1, <3>1
        DEF IndInv, Linked, LinkedTo, WireExpected, agentVars
    <2>2. CASE worker.conn # c
      BY <1>2, <1>5, <2>2, LinkedKept DEF IndInv, agentVars
    <2> QED
      BY <2>1, <2>2
  <1> QED
    BY <1>6, <1>7, <1>8, <1>9, <1>10, <1>11 DEF IndInv

(* The file cannot be written: nobody is told, and the handler ends. *)
LEMMA PublishFailsStep ==
    ASSUME IndInv, NEW c \in Conns, PublishFails(c)
    PROVE  IndInv'
  <1>1. /\ Shapes /\ HandlerEnds(c) /\ Receives(c, "telemetry")
        /\ records' = Published(c)
        /\ UNCHANGED <<agentVars, allowlist, loaded, file, stored>>
    BY ShapesAreTypeOK DEF IndInv, PublishFails
  <1>2. records' \in [Devices -> Record] /\ OnlyOwnKeyPublishes'
    BY <1>1, PublishedFacts
  <1>3. TypeOK'
    <2>1. faults' \in [agent : Nat, receiver : Nat, disk : Nat]
      BY <1>1 DEF Shapes, PublishFails
    <2> QED
      BY <1>1, <1>2, <2>1, HandlerEndsFacts, ShapesAreTypeOK
      DEF Shapes, agentVars
  <1>4. WorkerOK' /\ AckedWasStored'
    BY <1>1 DEF IndInv, WorkerOK, AckedWasStored, agentVars
  <1>5. HandlerOK'
    BY <1>1, HandlerEndsFacts DEF IndInv, HandlerOK
  <1>6. Linked'
    BY <1>1, HandlerEndsFacts, LinkedKept DEF IndInv, agentVars
  <1> QED
    BY <1>1, <1>2, <1>3, <1>4, <1>5, <1>6, HandlerEndsFacts DEF IndInv

(* So every step of a handler's keeps the invariant. *)
LEMMA HandlerSteps ==
    ASSUME IndInv, NEW c \in Conns, HandlerStep(c)
    PROVE  IndInv'
  <1>1. CASE ReadHello(c) \/ ReadAuth(c)
    BY <1>1, ReadHelloStep, ReadAuthStep
  <1>2. CASE ReadTelemetry(c) \/ PublishFails(c)
    BY <1>2, ReadTelemetryStep, PublishFailsStep
  <1>3. CASE RejectHello(c) \/ RejectAuth(c) \/ CloseSession(c)
             \/ HandlerTimeout(c) \/ HandlerReadsEof(c)
    BY <1>3, HandlerFailsStep
    DEF RejectHello, RejectAuth, CloseSession, HandlerTimeout, HandlerReadsEof
  <1> QED
    BY <1>1, <1>2, <1>3 DEF HandlerStep

------------------------------------------------------------------------------
(* The rest of the world. *)

(* Time passes, and only timers change. *)
LEMMA TickStep ==
    ASSUME IndInv, Tick
    PROVE  IndInv'
  <1>1. Shapes /\ worker \in Worker
    BY ShapesAreTypeOK DEF IndInv, Shapes
  <1>2. /\ worker' = IF WorkerTimed THEN [worker EXCEPT !.timer = @ - 1]
                     ELSE worker
        /\ conn' = [c \in Conns |->
                      IF HandlerTimed(c) THEN [conn[c] EXCEPT !.timer = @ - 1]
                      ELSE conn[c]]
        /\ WorkerTimed => worker.timer > 0
        /\ \A c \in Conns : HandlerTimed(c) => conn[c].timer > 0
        /\ UNCHANGED <<identity, produced, relayVars, faults>>
    BY DEF Tick
  <1>3. worker' \in Worker
    BY <1>1, <1>2 DEF Worker
  <1>4. /\ worker'.phase = worker.phase /\ worker'.conn = worker.conn
        /\ worker'.attempt = worker.attempt /\ worker'.acked = worker.acked
        /\ worker'.device = worker.device /\ worker'.version = worker.version
    BY <1>1, <1>2 DEF Worker
  <1>5. ASSUME NEW c \in Conns
        PROVE  /\ conn'[c] \in Connection
               /\ conn'[c].relay = conn[c].relay
               /\ conn'[c].device = conn[c].device
               /\ conn'[c].signer = conn[c].signer
               /\ conn'[c].open = conn[c].open
               /\ conn'[c].wire = conn[c].wire
    <2>1. conn[c] \in Connection
      BY <1>1 DEF Shapes
    <2>2. conn'[c] = IF HandlerTimed(c) THEN [conn[c] EXCEPT !.timer = @ - 1]
                     ELSE conn[c]
      BY <1>2
    <2>3. HandlerTimed(c) => conn[c].timer > 0
      BY <1>2
    <2> QED
      BY <2>1, <2>2, <2>3 DEF Connection
  <1>6. conn' \in [Conns -> Connection] /\ HandlersKept
    <2>1. conn' = [c \in Conns |-> conn'[c]]
      BY <1>2
    <2>2. conn' \in [Conns -> Connection]
      BY <1>5, <2>1
    <2> QED
      BY <1>2, <1>5, <2>2 DEF HandlersKept
  <1>7. TypeOK'
    BY <1>1, <1>2, <1>3, <1>6, ShapesAreTypeOK DEF Shapes, relayVars
  <1>8. WorkerOK'
    BY <1>4 DEF IndInv, WorkerOK
  <1>9. AckedWasStored'
    BY <1>2, <1>4, AckedKept DEF IndInv, relayVars
  <1>10. Linked'
    BY <1>2, <1>4, <1>5 DEF IndInv, Linked, LinkedTo, WireExpected, relayVars
  <1> QED
    BY <1>6, <1>7, <1>8, <1>9, <1>10, HandlersKeptFacts DEF IndInv

(* The agent's process starts again; its connection is closed behind it. *)
LEMMA AgentRestartStep ==
    ASSUME IndInv, AgentRestart
    PROVE  IndInv'
  <1>1. Shapes /\ worker \in Worker /\ worker.conn \in Conns \cup {NoConn}
    BY ShapesAreTypeOK DEF IndInv, Shapes, Worker
  <1>2. /\ conn' = IF worker.conn = NoConn THEN conn
                   ELSE [conn EXCEPT ![worker.conn].agentClosed = TRUE]
        /\ worker' = [worker EXCEPT !.phase = "asleep", !.conn = NoConn,
                                    !.device = 0, !.attempt = 0, !.version = 0,
                                    !.timer = 0]
        /\ UNCHANGED <<identity, produced, relayVars>>
    BY DEF AgentRestart, CloseAgentEnd
  <1>3. worker' \in Worker
    <2>1. 0 \in 0..Attempts /\ 0 \in 0..MaxIdentity /\ 0 \in Versions
      BY SessionAssumption DEF Versions
    <2> QED
      BY <1>1, <1>2, <2>1 DEF Worker
  <1>4. worker'.phase = "asleep" /\ worker'.acked = worker.acked
    BY <1>1, <1>2 DEF Worker
  <1>5. conn' \in [Conns -> Connection] /\ HandlersKept
    <2>1. CASE worker.conn = NoConn
      BY <1>1, <1>2, <2>1 DEF Shapes, HandlersKept
    <2>2. CASE worker.conn # NoConn
      <3>1. conn' = [conn EXCEPT ![worker.conn].agentClosed = TRUE]
        BY <1>2, <2>2
      <3>2. worker.conn \in Conns /\ conn \in [Conns -> Connection]
        BY <1>1, <2>2 DEF Shapes
      <3>3. conn' \in [Conns -> Connection]
        BY <3>1, <3>2 DEF Connection
      <3>4. \A c \in Conns : /\ conn'[c].relay = conn[c].relay
                             /\ conn'[c].device = conn[c].device
                             /\ conn'[c].signer = conn[c].signer
                             /\ conn'[c].open = conn[c].open
        BY <3>1, <3>2 DEF Connection
      <3> QED
        BY <1>2, <3>3, <3>4 DEF HandlersKept
    <2> QED
      BY <2>1, <2>2
  <1>6. TypeOK'
    <2>1. faults' \in [agent : Nat, receiver : Nat, disk : Nat]
      BY <1>1 DEF Shapes, AgentRestart
    <2> QED
      BY <1>1, <1>2, <1>3, <1>5, <2>1, ShapesAreTypeOK DEF Shapes, relayVars
  <1>7. WorkerOK'
    BY <1>4 DEF WorkerOK, AgentWaiting
  <1>8. AckedWasStored'
    BY <1>2, <1>4, AckedKept DEF IndInv, relayVars
  <1> QED
    BY <1>4, <1>5, <1>6, <1>7, <1>8, HandlersKeptFacts, IdleLinked DEF IndInv

(* The receiver starts again: no handler is left, and no session. *)
LEMMA ReceiverRestartStep ==
    ASSUME IndInv, ReceiverRestart
    PROVE  IndInv'
  <1>1. Shapes
    BY ShapesAreTypeOK DEF IndInv
  <1>2. /\ conn' = [c \in Conns |->
                      [conn[c] EXCEPT !.relay = "done", !.timer = 0,
                                      !.open = FALSE,
                                      !.wire = IF @.kind \in FromRelay THEN @
                                               ELSE NoFrame]]
        /\ loaded' = allowlist
        /\ records' = [d \in Devices |-> NoRecord]
        /\ active' = [d \in Devices |-> 0]
        /\ UNCHANGED <<agentVars, allowlist, file, stored>>
    BY DEF ReceiverRestart
  <1>3. ASSUME NEW c \in Conns
        PROVE  /\ conn'[c] \in Connection
               /\ conn'[c].relay = "done" /\ ~conn'[c].open
               /\ conn'[c].device = conn[c].device
               /\ conn'[c].wire = conn[c].wire \/ conn'[c].wire = NoFrame
    <2>1. conn[c] \in Connection /\ conn[c].wire \in Frame
      BY <1>1 DEF Shapes, Connection
    <2>2. PICK left \in Frame :
             /\ left = conn[c].wire \/ left = NoFrame
             /\ conn'[c] = [conn[c] EXCEPT !.relay = "done", !.timer = 0,
                                           !.open = FALSE, !.wire = left]
      BY <1>2, <2>1, FramesOK
    <2>3. conn'[c] \in Connection
      <3>1. conn'[c] = [relay |-> "done", timer |-> 0,
                        device |-> conn[c].device, signer |-> conn[c].signer,
                        open |-> FALSE, wire |-> left,
                        agentClosed |-> conn[c].agentClosed]
        BY <2>1, <2>2 DEF Connection
      <3> QED
        BY <2>1, <3>1 DEF Connection
    <2>4. /\ conn'[c].relay = "done" /\ ~conn'[c].open
          /\ conn'[c].device = conn[c].device /\ conn'[c].wire = left
      BY <2>1, <2>2 DEF Connection
    <2> QED
      BY <2>2, <2>3, <2>4
  <1>4. conn' \in [Conns -> Connection]
    <2>1. conn' = [c \in Conns |-> conn'[c]]
      BY <1>2
    <2> QED
      BY <1>3, <2>1
  <1>5. NoRecord \in Record /\ NoRecord.version = 0
    BY SessionAssumption DEF NoRecord, Record, Versions
  <1>6. TypeOK'
    <2>1. faults' \in [agent : Nat, receiver : Nat, disk : Nat]
      <3>1. /\ faults \in [agent : Nat, receiver : Nat, disk : Nat]
            /\ faults' = [faults EXCEPT !.receiver = @ + 1]
        BY <1>1 DEF Shapes, ReceiverRestart
      <3> QED
        BY <3>1
    <2> QED
      BY <1>1, <1>2, <1>4, <1>5, <2>1, ShapesAreTypeOK DEF Shapes, agentVars
  <1>7. WorkerOK' /\ AckedWasStored'
    BY <1>2 DEF IndInv, WorkerOK, AckedWasStored, agentVars
  <1>8. OnlyOwnKeyPublishes'
    <2>1. \A d \in Devices : records'[d].version = 0
      BY <1>2, <1>5
    <2> QED
      BY <2>1 DEF OnlyOwnKeyPublishes
  <1>9. HandlerOK'
    BY <1>3 DEF HandlerOK
  <1>10. ActiveSessionsExact'
    <2>1. \A d \in Devices : InSession(d)' = {}
      BY <1>3 DEF InSession
    <2> QED
      BY <1>2, <2>1, FS_EmptySet DEF ActiveSessionsExact, InSession
  <1>11. Linked'
    BY <1>2, <1>3, LinkedKept DEF IndInv, agentVars
  <1> QED
    BY <1>6, <1>7, <1>8, <1>9, <1>10, <1>11 DEF IndInv

(* A new snapshot, a new identity, an edit of the receiver's list. *)
LEMMA OtherSteps ==
    ASSUME IndInv,
           Produce \/ RotateIdentity \/ \E d \in Devices : EditAllowlist(d)
    PROVE  IndInv'
  <1>1. /\ Shapes
        /\ UNCHANGED <<worker, conn, loaded, records, active, file, stored>>
    BY ShapesAreTypeOK
    DEF IndInv, Produce, RotateIdentity, EditAllowlist, relayVars, agentVars
  <1>2. TypeOK'
    <2>1. produced' \in Versions
      BY <1>1, SessionAssumption
      DEF Shapes, Produce, RotateIdentity, EditAllowlist, Versions, agentVars
    <2>2. identity' \in Devices
      BY <1>1, SessionAssumption
      DEF Shapes, Produce, RotateIdentity, EditAllowlist, Devices, agentVars
    <2>3. allowlist' \subseteq Devices
      BY <1>1 DEF Shapes, Produce, RotateIdentity, EditAllowlist, relayVars
    <2>4. faults' = faults
      BY DEF Produce, RotateIdentity, EditAllowlist
    <2> QED
      BY <1>1, <2>1, <2>2, <2>3, <2>4, ShapesAreTypeOK DEF Shapes
  <1> QED
    BY <1>1, <1>2
    DEF IndInv, WorkerOK, HandlerOK, Linked, LinkedTo, WireExpected,
        OnlyOwnKeyPublishes, ActiveSessionsExact, AckedWasStored

------------------------------------------------------------------------------
(* The theorems. *)

(* At the start nothing is under way. *)
LEMMA InitOK == Init => IndInv
  <1> SUFFICES ASSUME Init PROVE IndInv
    OBVIOUS
  <1>1. /\ 0 \in 0..MaxIdentity /\ 0 \in Versions /\ 1 \in Versions
        /\ 1 \in Devices /\ 0 \in 0..Attempts
    BY SessionAssumption DEF Versions, Devices
  <1>2. Unused \in Connection /\ Unused.relay = "done" /\ ~Unused.open
    BY <1>1, FramesOK DEF Unused, Connection
  <1>3. NoRecord \in Record /\ NoRecord.version = 0
    BY <1>1 DEF NoRecord, Record
  <1>4. worker \in Worker /\ worker.phase = "asleep" /\ worker.acked = <<0, 0>>
    BY <1>1 DEF Init, Worker
  <1>5. \A c \in Conns : conn[c] = Unused
    BY DEF Init
  <1>6. TypeOK
    BY <1>1, <1>2, <1>3, <1>4, ShapesAreTypeOK DEF Init, Shapes
  <1>7. WorkerOK /\ Linked /\ AckedWasStored
    BY <1>4 DEF WorkerOK, Linked, LinkedTo, WireExpected, AckedWasStored,
                AgentWaiting
  <1>8. HandlerOK
    BY <1>2, <1>5 DEF HandlerOK
  <1>9. OnlyOwnKeyPublishes
    BY <1>3 DEF Init, OnlyOwnKeyPublishes
  <1>10. ActiveSessionsExact
    <2>1. \A d \in Devices : InSession(d) = {}
      BY <1>2, <1>5 DEF InSession
    <2> QED
      BY <2>1, FS_EmptySet DEF Init, ActiveSessionsExact, InSession
  <1> QED
    BY <1>6, <1>7, <1>8, <1>9, <1>10 DEF IndInv

(* Every step keeps the invariant. *)
LEMMA NextOK ==
    ASSUME IndInv, [Next]_vars
    PROVE  IndInv'
  <1>1. CASE WorkerStep
    BY <1>1, WorkerSteps
  <1>2. CASE \E c \in Conns : HandlerStep(c)
    BY <1>2, HandlerSteps
  <1>3. CASE Produce \/ RotateIdentity \/ \E d \in Devices : EditAllowlist(d)
    BY <1>3, OtherSteps
  <1>4. CASE AgentRestart \/ ReceiverRestart \/ Tick
    BY <1>4, AgentRestartStep, ReceiverRestartStep, TickStep
  <1>5. CASE UNCHANGED vars
    BY <1>5
    DEF vars, agentVars, relayVars, IndInv, TypeOK, WorkerOK, HandlerOK, Linked,
        LinkedTo, WireExpected, OnlyOwnKeyPublishes, ActiveSessionsExact,
        AckedWasStored
  <1> QED
    BY <1>1, <1>2, <1>3, <1>4, <1>5 DEF Next

(* The invariant holds in every state of every behaviour. *)
THEOREM Invariance == Spec => []IndInv
  <1>1. Init => IndInv
    BY InitOK
  <1>2. IndInv /\ [Next]_vars => IndInv'
    BY NextOK
  <1> QED
    BY <1>1, <1>2, PTL DEF Spec

(* Every variable keeps its shape. *)
THEOREM TypeTheorem == Spec => []TypeOK
  BY Invariance, PTL DEF IndInv

(* What the worker counts as delivered has reached the receiver's disk for *)
(* the device it signed as, whatever is delayed, retried or restarted.     *)
THEOREM AckedTheorem == Spec => []AckedWasStored
  BY Invariance, PTL DEF IndInv

(* active_sessions counts the handlers inside a session exactly. *)
THEOREM SessionsTheorem == Spec => []ActiveSessionsExact
  BY Invariance, PTL DEF IndInv

(* A record was sent over a session its device's own key authenticated. *)
THEOREM OwnKeyTheorem == Spec => []OnlyOwnKeyPublishes
  BY Invariance, PTL DEF IndInv

(* Records change when a handler publishes or the receiver restarts. *)
LEMMA StepsOnRecords ==
    ASSUME [Next]_vars
    PROVE  \/ \E c \in Conns : ReadTelemetry(c) \/ PublishFails(c)
           \/ ReceiverRestart
           \/ UNCHANGED records
  BY DEF Next, vars, relayVars, agentVars, WorkerStep, BeginCycle, FetchFails,
         BackoffOver, Connect, ConnectFails, ReadChallenge, RejectChallenge,
         AttemptFails, Sign, ReadReady, ReadAck, AgentTimeout, AgentReadsEof,
         HandlerStep, ReadHello, RejectHello, ReadAuth, RejectAuth,
         HandlerFails, CloseSession, HandlerTimeout, HandlerReadsEof, Produce,
         RotateIdentity, EditAllowlist, AgentRestart, Tick

(* The receiver's restarts are counted. *)
LEMMA RestartCounted ==
    ASSUME IndInv, ReceiverRestart
    PROVE  faults'.receiver > faults.receiver
  <1>1. faults \in [agent : Nat, receiver : Nat, disk : Nat]
    BY DEF IndInv, TypeOK
  <1>2. faults' = [faults EXCEPT !.receiver = @ + 1]
    BY DEF ReceiverRestart
  <1>3. faults'.receiver = faults.receiver + 1 /\ faults.receiver \in Nat
    BY <1>1, <1>2
  <1> QED
    BY <1>3

(* One step changes the record only of a device that the receiver has      *)
(* loaded, or is the receiver's restart.                                   *)
LEMMA PublishesLoaded ==
    ASSUME IndInv, [Next]_vars
    PROVE  \A d \in Devices :
              records'[d] # records[d] => \/ d \in loaded
                                         \/ faults'.receiver > faults.receiver
  <1>1. CASE \E c \in Conns : ReadTelemetry(c) \/ PublishFails(c)
    <2>1. PICK c \in Conns : ReadTelemetry(c) \/ PublishFails(c)
      BY <1>1
    <2>2. Receives(c, "telemetry") /\ records' = Published(c)
      BY <2>1 DEF ReadTelemetry, PublishFails
    <2> QED
      BY <2>2, PublishedFacts
  <1>2. CASE ReceiverRestart
    BY <1>2, RestartCounted
  <1>3. CASE UNCHANGED records
    BY <1>3
  <1> QED
    BY <1>1, <1>2, <1>3, StepsOnRecords

(* Only a device that the running receiver has loaded publishes. *)
THEOREM LoadedTheorem == Spec => OnlyLoadedPublish
  <1>1. IndInv /\ [Next]_vars =>
           [\A d \in Devices :
               records'[d] # records[d] => \/ d \in loaded
                                          \/ faults'.receiver > faults.receiver]_vars
    BY PublishesLoaded
  <1> QED
    BY <1>1, Invariance, PTL DEF Spec, OnlyLoadedPublish

------------------------------------------------------------------------------
(***************************************************************************)
(* The running receiver never goes back to an older snapshot, as long as   *)
(* the agent is not restarted and FrameTimeout < ConnectTimeout + Pause.   *)
(*                                                                         *)
(* What could bring an old snapshot back is telemetry that the worker sent,*)
(* gave up and left on the wire.  It stays readable no longer than the     *)
(* handler waits for it, FrameTimeout from before it was sent; the worker  *)
(* waits ConnectTimeout for the acknowledgement, and its retries send the  *)
(* same snapshot.  It takes a newer one only after Pause, and by then the  *)
(* handler has read the old one or ended.                                  *)
(***************************************************************************)

(* A handler can still read telemetry on this connection. *)
Unread(c) == conn[c].relay = "telemetry" /\ conn[c].wire.kind = "telemetry"

(* No handler waits longer than it is meant to. *)
TimersBounded == \A c \in Conns : conn[c].timer <= FrameTimeout

(* How long the handler of unread telemetry still waits: the worker waits  *)
(* for it, has waited ConnectTimeout for it, or sleeps as well.            *)
UnreadInTime ==
    \A c \in Conns : Unread(c) =>
        \/ /\ worker.conn = c /\ worker.phase = "ack"
           /\ conn[c].timer + ConnectTimeout <= FrameTimeout + worker.timer
        \/ /\ worker.conn # c /\ worker.phase # "asleep"
           /\ conn[c].timer + ConnectTimeout <= FrameTimeout
        \/ /\ worker.conn # c /\ worker.phase = "asleep"
           /\ conn[c].timer + ConnectTimeout + Pause
                 <= FrameTimeout + worker.timer

(* All unread telemetry is of one cycle, the worker's if it is in one. *)
UnreadOfCycle ==
    /\ \A c, x \in Conns : Unread(c) /\ Unread(x) =>
          conn[c].wire.version = conn[x].wire.version
    /\ \A c \in Conns : Unread(c) /\ worker.phase # "asleep" =>
          conn[c].wire.version = worker.version

(* The receiver's records are of this cycle or of earlier ones. *)
RecordsPast ==
    \A d \in Devices :
        /\ records[d].version <= produced
        /\ worker.phase # "asleep" => records[d].version <= worker.version
        /\ \A c \in Conns : Unread(c) =>
              records[d].version <= conn[c].wire.version

(* Nothing is under way that the agent has not produced. *)
ProducedBefore ==
    /\ worker.phase # "asleep" => worker.version <= produced
    /\ \A c \in Conns : Unread(c) => conn[c].wire.version <= produced

AgeInv ==
    /\ TimersBounded
    /\ UnreadInTime
    /\ UnreadOfCycle
    /\ RecordsPast
    /\ ProducedBefore

(* The numbers these speak of are numbers. *)
LEMMA Numbers ==
    ASSUME Shapes
    PROVE  /\ worker.timer \in Nat /\ worker.version \in Nat
           /\ worker.conn \in Conns \cup {NoConn} /\ produced \in Nat
           /\ \A c \in Conns : /\ conn[c].timer \in Nat
                               /\ conn[c].wire.version \in Nat
           /\ \A d \in Devices : records[d].version \in Nat
           /\ FrameTimeout \in Nat /\ ConnectTimeout \in Nat /\ Pause \in Nat
           /\ NoConn \notin Conns
  <1>1. \A v \in Versions : v \in Nat
    BY SessionAssumption DEF Versions
  <1>2. worker.timer \in Nat /\ worker.version \in Versions
        /\ worker.conn \in Conns \cup {NoConn} /\ produced \in Versions
    BY DEF Shapes, Worker
  <1>3. ASSUME NEW c \in Conns
        PROVE  conn[c].timer \in Nat /\ conn[c].wire.version \in Versions
    <2>1. conn[c] \in Connection
      BY DEF Shapes
    <2>2. conn[c].wire \in Frame
      BY <2>1 DEF Connection
    <2> QED
      BY <2>1, <2>2 DEF Connection, Frame
  <1>4. \A d \in Devices : records[d].version \in Versions
    BY DEF Shapes, Record
  <1> QED
    BY <1>1, <1>2, <1>3, <1>4, SessionAssumption

(* No telemetry becomes readable, and none gets more time. *)
NothingSent ==
    \A c \in Conns : Unread(c)' =>
        /\ Unread(c)
        /\ conn'[c].wire.version = conn[c].wire.version
        /\ conn'[c].timer = conn[c].timer

(* The worker does nothing and nothing is published. *)
LEMMA WorkerIdle ==
    ASSUME AgeInv, Shapes, Shapes', NothingSent, worker' = worker,
           records' = records, produced' >= produced, TimersBounded'
    PROVE  AgeInv'
  <1>1. UnreadInTime'
    BY DEF AgeInv, UnreadInTime, NothingSent
  <1>2. UnreadOfCycle'
    BY DEF AgeInv, UnreadOfCycle, NothingSent
  <1>3. RecordsPast'
    <2>1. ASSUME NEW d \in Devices PROVE records'[d].version <= produced'
      <3>1. records[d].version <= produced /\ records[d].version \in Nat
            /\ produced \in Nat /\ produced' \in Nat
        BY Numbers DEF AgeInv, RecordsPast, Shapes, Versions
      <3> QED
        BY <3>1
    <2> QED
      BY <2>1 DEF AgeInv, RecordsPast, NothingSent
  <1>4. ProducedBefore'
    <2>1. produced \in Nat /\ produced' \in Nat /\ worker.version \in Nat
      BY Numbers DEF Shapes, Versions
    <2>2. ASSUME NEW c \in Conns, Unread(c)'
          PROVE  conn'[c].wire.version <= produced'
      <3>1. /\ conn[c].wire.version <= produced
            /\ conn[c].wire.version \in Nat
            /\ conn'[c].wire.version = conn[c].wire.version
        BY <2>2, Numbers DEF AgeInv, ProducedBefore, NothingSent
      <3> QED
        BY <2>1, <3>1
    <2>3. worker'.phase # "asleep" => worker'.version <= produced'
      BY <2>1 DEF AgeInv, ProducedBefore
    <2> QED
      BY <2>2, <2>3 DEF ProducedBefore
  <1> QED
    BY <1>1, <1>2, <1>3, <1>4 DEF AgeInv

(* The worker goes on in its cycle, on a connection without telemetry.     *)
LEMMA WorkerGoesOn ==
    ASSUME AgeInv, Shapes, Shapes', NothingSent,
           worker.phase \notin {"asleep", "ack"}, worker'.phase # "asleep",
           worker'.version = worker.version,
           \A c \in Conns : Unread(c)' => worker'.conn # c,
           records' = records, produced' = produced, TimersBounded'
    PROVE  AgeInv'
  <1>1. UnreadInTime'
    BY DEF AgeInv, UnreadInTime, NothingSent
  <1>2. UnreadOfCycle'
    BY DEF AgeInv, UnreadOfCycle, NothingSent
  <1>3. RecordsPast'
    BY DEF AgeInv, RecordsPast, NothingSent
  <1>4. ProducedBefore'
    BY DEF AgeInv, ProducedBefore, NothingSent
  <1> QED
    BY <1>1, <1>2, <1>3, <1>4 DEF AgeInv

(* The worker leaves its connection, and has waited for all telemetry.     *)
LEMMA WorkerRests ==
    ASSUME AgeInv, Shapes, Shapes', NothingSent, worker.phase # "asleep",
           worker'.phase \in {"asleep", "backoff"}, worker'.conn = NoConn,
           worker'.phase = "asleep" => worker'.timer = Pause,
           worker'.phase = "backoff" => worker'.version = worker.version,
           \A c \in Conns : Unread(c)' =>
              conn[c].timer + ConnectTimeout <= FrameTimeout,
           records' = records, produced' = produced, TimersBounded'
    PROVE  AgeInv'
  <1>1. UnreadInTime'
    <2> SUFFICES ASSUME NEW c \in Conns, Unread(c)'
                 PROVE  /\ worker'.conn # c
                        /\ worker'.phase = "asleep" =>
                              conn'[c].timer + ConnectTimeout + Pause
                                 <= FrameTimeout + worker'.timer
                        /\ conn'[c].timer + ConnectTimeout <= FrameTimeout
      BY DEF UnreadInTime
    <2>1. /\ conn'[c].timer = conn[c].timer /\ conn[c].timer \in Nat
          /\ conn[c].timer + ConnectTimeout <= FrameTimeout
          /\ FrameTimeout \in Nat /\ ConnectTimeout \in Nat /\ Pause \in Nat
          /\ NoConn \notin Conns
      BY Numbers DEF NothingSent
    <2> QED
      BY <2>1
  <1>2. UnreadOfCycle'
    BY DEF AgeInv, UnreadOfCycle, NothingSent
  <1>3. RecordsPast'
    BY DEF AgeInv, RecordsPast, NothingSent
  <1>4. ProducedBefore'
    BY DEF AgeInv, ProducedBefore, NothingSent
  <1> QED
    BY <1>1, <1>2, <1>3, <1>4 DEF AgeInv

(* When the worker has slept, all telemetry has been read. *)
LEMMA AllRead ==
    ASSUME AgeInv, Shapes, FrameTimeout < ConnectTimeout + Pause,
           worker.phase = "asleep", worker.timer = 0
    PROVE  \A c \in Conns : ~Unread(c)
  <1> SUFFICES ASSUME NEW c \in Conns, Unread(c) PROVE FALSE
    OBVIOUS
  <1>1. conn[c].timer + ConnectTimeout + Pause <= FrameTimeout + worker.timer
    BY DEF AgeInv, UnreadInTime
  <1>2. /\ conn[c].timer \in Nat /\ FrameTimeout \in Nat
        /\ ConnectTimeout \in Nat /\ Pause \in Nat
    BY Numbers
  <1> QED
    BY <1>1, <1>2

(* Only telemetry on the wire of the worker's connection is what it waits  *)
(* for.                                                                    *)
LEMMA NotAwaited ==
    ASSUME AgeInv, worker.phase # "ack", NEW c \in Conns, Unread(c)
    PROVE  worker.conn # c
  BY DEF AgeInv, UnreadInTime

(* The wires and the handlers of all connections are untouched. *)
LEMMA WiresKept ==
    ASSUME AgeInv, conn' = conn
    PROVE  NothingSent /\ TimersBounded'
  BY DEF AgeInv, NothingSent, Unread, TimersBounded


(* The worker starts a cycle or gives it up before it begins. *)
LEMMA BeginAges ==
    ASSUME IndInv, AgeInv, Shapes, Shapes',
           FrameTimeout < ConnectTimeout + Pause, BeginCycle \/ FetchFails
    PROVE  AgeInv'
  <1>1. worker.phase = "asleep" /\ worker.timer = 0 /\ worker \in Worker
        /\ UNCHANGED <<produced, conn, records>>
    BY DEF BeginCycle, FetchFails, Shapes, relayVars
  <1>2. \A c \in Conns : ~Unread(c) /\ ~Unread(c)'
    BY <1>1, AllRead DEF Unread
  <1>3. TimersBounded' /\ UnreadInTime'
    BY <1>1, <1>2, WiresKept DEF UnreadInTime
  <1>4. worker'.phase # "asleep" => worker'.version = produced
    BY <1>1 DEF BeginCycle, FetchFails, Worker
  <1>5. produced \in Nat
    BY Numbers
  <1> QED
    BY <1>1, <1>2, <1>3, <1>4, <1>5
    DEF AgeInv, UnreadOfCycle, RecordsPast, ProducedBefore

(* What ends an attempt, in the words of WorkerRests. *)
LEMMA AfterFailureRests ==
    ASSUME IndInv, worker.phase # "asleep", worker' = AfterFailure
    PROVE  /\ worker'.phase \in {"asleep", "backoff"} /\ worker'.conn = NoConn
           /\ worker'.phase = "asleep" => worker'.timer = Pause
           /\ worker'.phase = "backoff" => worker'.version = worker.version
  <1>1. worker \in Worker
    BY ShapesAreTypeOK DEF IndInv, Shapes
  <1>2. CASE worker.attempt < Attempts
    BY <1>1, <1>2 DEF AfterFailure, Worker
  <1>3. CASE ~(worker.attempt < Attempts)
    BY <1>1, <1>3 DEF AfterFailure, Worker
  <1> QED
    BY <1>2, <1>3

(* The next attempt, and an attempt that finds nobody to connect to. *)
LEMMA RetryAges ==
    ASSUME IndInv, AgeInv, Shapes, Shapes', BackoffOver \/ ConnectFails
    PROVE  AgeInv'
  <1>1. /\ worker.phase \in {"backoff", "connect"} /\ worker \in Worker
        /\ UNCHANGED <<produced, conn, records>>
    BY DEF BackoffOver, ConnectFails, Shapes, relayVars
  <1>2. NothingSent /\ TimersBounded'
    BY <1>1, WiresKept
  <1>3. \A c \in Conns : Unread(c)' =>
           /\ worker.conn # c
           /\ conn[c].timer + ConnectTimeout <= FrameTimeout
    BY <1>1, <1>2 DEF AgeInv, UnreadInTime, NothingSent
  <1>4. CASE BackoffOver
    <2>1. /\ worker'.phase = "connect" /\ worker'.version = worker.version
          /\ worker'.conn = worker.conn
      BY <1>1, <1>4 DEF BackoffOver, Worker
    <2> QED
      BY <1>1, <1>2, <1>3, <2>1, WorkerGoesOn
  <1>5. CASE ConnectFails
    <2>1. worker' = AfterFailure
      BY <1>5 DEF ConnectFails
    <2> QED
      BY <1>1, <1>2, <1>3, <2>1, AfterFailureRests, WorkerRests
  <1> QED
    BY <1>4, <1>5

(* The worker connects. *)
LEMMA ConnectAges ==
    ASSUME AgeInv, Shapes, Shapes', NEW c \in Conns, Connect(c)
    PROVE  AgeInv'
  <1> DEFINE opening == [Unused EXCEPT !.relay = "hello", !.timer = FrameTimeout,
                                       !.wire = Hello(identity),
                                       !.agentClosed = FALSE]
  <1>1. /\ worker.phase = "connect" /\ worker \in Worker
        /\ conn' = [conn EXCEPT ![c] = opening]
        /\ worker' = [worker EXCEPT !.phase = "challenge", !.conn = c,
                                    !.timer = ConnectTimeout]
        /\ UNCHANGED <<produced, records>>
    BY DEF Connect, Shapes, relayVars
  <1>2. opening.relay = "hello" /\ opening.timer = FrameTimeout
    BY DEF Unused
  <1> HIDE DEF opening
  <1>3. /\ conn'[c] = opening
        /\ \A x \in Conns \ {c} : conn'[x] = conn[x]
    BY <1>1 DEF Shapes
  <1>4. NothingSent /\ ~Unread(c)'
    BY <1>2, <1>3 DEF NothingSent, Unread
  <1>5. TimersBounded'
    BY <1>2, <1>3, Numbers DEF AgeInv, TimersBounded
  <1>6. /\ worker'.phase = "challenge" /\ worker'.conn = c
        /\ worker'.version = worker.version
    BY <1>1 DEF Worker
  <1> QED
    BY <1>1, <1>4, <1>5, <1>6, WorkerGoesOn

(* The worker takes the challenge, or answers it. *)
LEMMA SignAges ==
    ASSUME IndInv, AgeInv, Shapes, Shapes', ReadChallenge \/ Sign
    PROVE  AgeInv'
  <1> DEFINE c == worker.conn
  <1>1. /\ worker.phase \in {"challenge", "signing"} /\ worker \in Worker
        /\ c \in Conns
        /\ UNCHANGED <<produced, records>>
    BY DEF IndInv, WorkerOK, AgentWaiting, ReadChallenge, Arrived, Sign, Shapes,
           relayVars
  <1>2. /\ worker'.phase \in {"signing", "ready"} /\ worker'.conn = worker.conn
        /\ worker'.version = worker.version
    BY <1>1 DEF ReadChallenge, Sign, Worker
  <1>3. \/ conn' = [conn EXCEPT ![c].wire = NoFrame]
        \/ conn' = [conn EXCEPT ![c].wire = Auth(worker.device, identity)]
    BY DEF ReadChallenge, Sign, SendFromAgent
  <1> HIDE DEF c
  <1>4. \A x \in Conns : /\ conn'[x].relay = conn[x].relay
                         /\ conn'[x].timer = conn[x].timer
                         /\ \/ conn'[x].wire = conn[x].wire
                            \/ conn'[x].wire.kind # "telemetry"
    <2>1. CASE conn' = [conn EXCEPT ![c].wire = NoFrame]
      BY <1>1, <2>1, FrameFields DEF Shapes, Connection
    <2>2. CASE conn' = [conn EXCEPT ![c].wire = Auth(worker.device, identity)]
      BY <1>1, <2>2, FrameFields DEF Shapes, Connection
    <2> QED
      BY <1>3, <2>1, <2>2
  <1>5. NothingSent /\ TimersBounded'
    BY <1>4 DEF AgeInv, NothingSent, Unread, TimersBounded
  <1>6. \A x \in Conns : Unread(x)' => worker'.conn # x
    BY <1>1, <1>2, <1>5, NotAwaited DEF NothingSent
  <1> QED
    BY <1>1, <1>2, <1>5, <1>6, WorkerGoesOn

(* The worker sends its telemetry.  Its handler has at most FrameTimeout   *)
(* left, the worker waits ConnectTimeout from now.                         *)
LEMMA SendAges ==
    ASSUME IndInv, AgeInv, Shapes, Shapes', ReadReady
    PROVE  AgeInv'
  <1> DEFINE c == worker.conn
             frame == Telemetry(worker.version)
  <1>1. /\ worker.phase = "ready" /\ worker \in Worker /\ c \in Conns
        /\ conn' = [conn EXCEPT ![c].wire = frame]
        /\ worker' = [worker EXCEPT !.phase = "ack", !.timer = ConnectTimeout]
        /\ UNCHANGED <<produced, records>>
    BY DEF IndInv, WorkerOK, AgentWaiting, ReadReady, Arrived, SendFromAgent,
           Shapes, relayVars
  <1>2. frame.version = worker.version
    BY FrameFields
  <1>3. /\ worker'.phase = "ack" /\ worker'.conn = c
        /\ worker'.version = worker.version /\ worker'.timer = ConnectTimeout
    BY <1>1 DEF Worker
  <1> HIDE DEF c, frame
  <1>4. \A x \in Conns : /\ conn'[x].relay = conn[x].relay
                         /\ conn'[x].timer = conn[x].timer
                         /\ x # c => conn'[x].wire = conn[x].wire
                         /\ x = c => conn'[x].wire = frame
    BY <1>1 DEF Shapes, Connection
  <1>5. TimersBounded'
    BY <1>4 DEF AgeInv, TimersBounded
  <1>6. \A x \in Conns : Unread(x)' =>
           /\ conn'[x].wire.version = worker.version
           /\ x # c => Unread(x)
    BY <1>1, <1>2, <1>4 DEF AgeInv, UnreadOfCycle, Unread
  <1>7. UnreadInTime'
    <2> SUFFICES ASSUME NEW x \in Conns, Unread(x)'
                 PROVE  \/ /\ x = c
                           /\ conn'[x].timer + ConnectTimeout
                                 <= FrameTimeout + ConnectTimeout
                        \/ /\ x # c
                           /\ conn'[x].timer + ConnectTimeout <= FrameTimeout
      BY <1>3 DEF UnreadInTime
    <2>1. CASE x = c
      <3>1. /\ conn'[x].timer = conn[x].timer /\ conn[x].timer \in Nat
            /\ conn[x].timer <= FrameTimeout
            /\ FrameTimeout \in Nat /\ ConnectTimeout \in Nat
        BY <1>4, Numbers DEF AgeInv, TimersBounded
      <3> QED
        BY <2>1, <3>1
    <2>2. CASE x # c
      <3>1. Unread(x) /\ conn'[x].timer = conn[x].timer
        BY <1>4, <1>6, <2>2
      <3> QED
        BY <1>1, <2>2, <3>1 DEF AgeInv, UnreadInTime, c
    <2> QED
      BY <2>1, <2>2
  <1>8. UnreadOfCycle'
    BY <1>3, <1>6 DEF UnreadOfCycle
  <1>9. RecordsPast' /\ ProducedBefore'
    BY <1>1, <1>3, <1>6 DEF AgeInv, RecordsPast, ProducedBefore
  <1> QED
    BY <1>5, <1>7, <1>8, <1>9 DEF AgeInv

(* The acknowledgement has come. *)
LEMMA AckAges ==
    ASSUME IndInv, AgeInv, Shapes, Shapes', ReadAck
    PROVE  AgeInv'
  <1> DEFINE c == worker.conn
  <1>1. /\ worker.phase = "ack" /\ worker \in Worker /\ c \in Conns
        /\ conn' = [conn EXCEPT ![c].agentClosed = TRUE, ![c].wire = NoFrame]
        /\ worker' = [worker EXCEPT !.phase = "asleep", !.conn = NoConn,
                                    !.device = 0, !.attempt = 0, !.version = 0,
                                    !.timer = Pause,
                                    !.acked = <<worker.device, worker.version>>]
        /\ UNCHANGED <<produced, records>>
    BY DEF IndInv, WorkerOK, AgentWaiting, ReadAck, Arrived, Shapes, relayVars
  <1>2. /\ worker'.phase = "asleep" /\ worker'.conn = NoConn
        /\ worker'.timer = Pause
    BY <1>1 DEF Worker
  <1> HIDE DEF c
  <1>3. \A x \in Conns : /\ conn'[x].relay = conn[x].relay
                         /\ conn'[x].timer = conn[x].timer
                         /\ x # c => conn'[x].wire = conn[x].wire
                         /\ x = c => conn'[x].wire = NoFrame
    BY <1>1 DEF Shapes, Connection
  <1>4. \A x \in Conns : Unread(x)' => x # c /\ Unread(x)
    BY <1>3, FrameFields DEF Unread
  <1>5. NothingSent /\ TimersBounded'
    BY <1>3, <1>4 DEF AgeInv, NothingSent, TimersBounded
  <1>6. \A x \in Conns : Unread(x)' =>
           conn[x].timer + ConnectTimeout <= FrameTimeout
    BY <1>1, <1>4 DEF AgeInv, UnreadInTime, c
  <1> QED
    BY <1>1, <1>2, <1>5, <1>6, WorkerRests

(* An attempt is given up.  If telemetry is left behind, the worker has    *)
(* waited for all of its timeout.                                          *)
LEMMA GiveUpAges ==
    ASSUME IndInv, AgeInv, Shapes, Shapes',
           RejectChallenge \/ AgentTimeout \/ AgentReadsEof
    PROVE  AgeInv'
  <1> DEFINE c == worker.conn
  <1>1. /\ worker.phase \in AgentWaiting /\ c \in Conns /\ AttemptFails
        /\ worker.phase = "ack" => \/ worker.timer = 0
                                   \/ conn[c].relay = "done"
    BY DEF IndInv, WorkerOK, RejectChallenge, Arrived, AgentTimeout,
           AgentReadsEof, AgentWaiting
  <1>2. /\ worker' = AfterFailure
        /\ conn' = [conn EXCEPT ![c].agentClosed = TRUE]
        /\ UNCHANGED <<produced, records>>
    BY <1>1 DEF AttemptFails, CloseAgentEnd, relayVars
  <1> HIDE DEF c
  <1>3. \A x \in Conns : /\ conn'[x].relay = conn[x].relay
                         /\ conn'[x].timer = conn[x].timer
                         /\ conn'[x].wire = conn[x].wire
    BY <1>1, <1>2 DEF Shapes, Connection
  <1>4. NothingSent /\ TimersBounded'
    BY <1>3 DEF AgeInv, NothingSent, Unread, TimersBounded
  <1>5. ASSUME NEW x \in Conns, Unread(x)'
        PROVE  conn[x].timer + ConnectTimeout <= FrameTimeout
    <2>1. Unread(x) /\ worker.phase # "asleep"
      BY <1>1, <1>4, <1>5 DEF NothingSent, AgentWaiting
    <2>2. CASE worker.conn # x
      BY <2>1, <2>2 DEF AgeInv, UnreadInTime
    <2>3. CASE worker.conn = x
      <3>1. /\ worker.phase = "ack"
            /\ conn[x].timer + ConnectTimeout <= FrameTimeout + worker.timer
        BY <2>1, <2>3 DEF AgeInv, UnreadInTime
      <3>2. worker.timer = 0
        BY <1>1, <2>1, <2>3, <3>1 DEF c, Unread
      <3> QED
        BY <3>1, <3>2, Numbers
    <2> QED
      BY <2>2, <2>3
  <1>6. worker.phase # "asleep"
    BY <1>1 DEF AgentWaiting
  <1> QED
    BY <1>2, <1>4, <1>5, <1>6, AfterFailureRests, WorkerRests


(* A handler that ends reads nothing any more. *)
LEMMA HandlerEndsAges ==
    ASSUME IndInv, Shapes, NEW c \in Conns, HandlerEnds(c)
    PROVE  /\ ~Unread(c)' /\ conn'[c].timer <= FrameTimeout
           /\ \A x \in Conns \ {c} : conn'[x] = conn[x]
  <1>1. conn'[c].timer = 0
    BY DEF HandlerEnds, Shapes, Connection
  <1> QED
    BY <1>1, HandlerEndsFacts, Numbers DEF Unread


(* A handler takes the hello or the signature, fails, or is done. *)
LEMMA HandlerAges ==
    ASSUME IndInv, AgeInv, Shapes, Shapes', NEW c \in Conns,
           ReadHello(c) \/ ReadAuth(c) \/ HandlerFails(c)
    PROVE  AgeInv'
  <1>1. UNCHANGED <<produced, worker, records>>
    BY DEF ReadHello, ReadAuth, HandlerFails, agentVars, relayVars
  <1>2. /\ ~Unread(c)' /\ conn'[c].timer <= FrameTimeout
        /\ \A x \in Conns \ {c} : conn'[x] = conn[x]
    <2>1. CASE ReadHello(c)
      <3>1. conn' = [conn EXCEPT ![c].relay = "auth", ![c].timer = FrameTimeout,
                                 ![c].device = conn[c].wire.device,
                                 ![c].wire = Challenge(conn[c].wire.device)]
        BY <2>1 DEF ReadHello
      <3>2. /\ conn'[c].relay = "auth" /\ conn'[c].timer = FrameTimeout
            /\ \A x \in Conns \ {c} : conn'[x] = conn[x]
        BY <3>1 DEF Shapes, Connection
      <3> QED
        BY <3>2, Numbers DEF Unread
    <2>2. CASE ReadAuth(c)
      <3>1. conn' = [conn EXCEPT ![c].relay = "telemetry",
                                 ![c].timer = FrameTimeout,
                                 ![c].signer = conn[c].wire.signer,
                                 ![c].open = TRUE, ![c].wire = Ready]
        BY <2>2 DEF ReadAuth
      <3>2. /\ conn'[c].wire = Ready /\ conn'[c].timer = FrameTimeout
            /\ \A x \in Conns \ {c} : conn'[x] = conn[x]
        BY <3>1 DEF Shapes, Connection
      <3> QED
        BY <3>2, FrameFields, Numbers DEF Unread
    <2>3. CASE HandlerFails(c)
      BY <2>3, HandlerEndsAges DEF HandlerFails
    <2> QED
      BY <2>1, <2>2, <2>3
  <1>3. NothingSent /\ TimersBounded'
    BY <1>2 DEF AgeInv, NothingSent, Unread, TimersBounded
  <1>4. produced' >= produced
    BY <1>1, Numbers
  <1> QED
    BY <1>1, <1>3, <1>4, WorkerIdle

(* What a handler publishes was unread, so no record of the device is      *)
(* newer, and no record is newer than what is left to read.                *)
LEMMA PublishAges ==
    ASSUME IndInv, AgeInv, Shapes, Shapes', NEW c \in Conns,
           ReadTelemetry(c) \/ PublishFails(c)
    PROVE  /\ AgeInv'
           /\ \A d \in Devices : records'[d].version >= records[d].version
  <1> DEFINE sent == conn[c].wire.version
  <1>1. /\ Receives(c, "telemetry") /\ records' = Published(c)
        /\ UNCHANGED <<produced, worker>> /\ Unread(c)
    BY DEF ReadTelemetry, PublishFails, Receives, Unread, agentVars
  <1>2. /\ ~Unread(c)' /\ conn'[c].timer <= FrameTimeout
        /\ \A x \in Conns \ {c} : conn'[x] = conn[x]
    <2>1. CASE ReadTelemetry(c)
      <3>1. conn' = [conn EXCEPT ![c].relay = "closing", ![c].timer = 0,
                                 ![c].wire = Ack]
        BY <2>1 DEF ReadTelemetry
      <3>2. /\ conn'[c].relay = "closing" /\ conn'[c].timer = 0
            /\ \A x \in Conns \ {c} : conn'[x] = conn[x]
        BY <3>1 DEF Shapes, Connection
      <3> QED
        BY <3>2, Numbers DEF Unread
    <2>2. CASE PublishFails(c)
      BY <2>2, HandlerEndsAges DEF PublishFails
    <2> QED
      BY <2>1, <2>2
  <1>3. NothingSent /\ TimersBounded'
    BY <1>2 DEF AgeInv, NothingSent, Unread, TimersBounded
  <1>4. \A d \in Devices : \/ records'[d].version = sent
                           \/ records'[d] = records[d]
    <2>1. conn[c].device \in Devices /\ records \in [Devices -> Record]
      BY <1>1 DEF IndInv, HandlerOK, Receives, Shapes
    <2> QED
      BY <1>1, <2>1 DEF Published
  <1>5. \A d \in Devices : records[d].version <= sent
    BY <1>1 DEF AgeInv, RecordsPast
  <1>6. /\ sent <= produced
        /\ worker.phase # "asleep" => sent = worker.version
        /\ \A x \in Conns : Unread(x) => conn[x].wire.version = sent
    BY <1>1 DEF AgeInv, ProducedBefore, UnreadOfCycle
  <1>7. UnreadInTime' /\ UnreadOfCycle' /\ ProducedBefore'
    BY <1>1, <1>3
    DEF AgeInv, UnreadInTime, UnreadOfCycle, ProducedBefore, NothingSent
  <1>8. sent \in Nat /\ \A d \in Devices : records[d].version \in Nat
    BY Numbers
  <1> HIDE DEF sent
  <1>9. RecordsPast'
    <2>1. \A x \in Conns : Unread(x)' => conn'[x].wire.version = sent
      BY <1>3, <1>6 DEF NothingSent
    <2>2. ASSUME NEW d \in Devices
          PROVE  /\ records'[d].version <= produced'
                 /\ worker'.phase # "asleep" =>
                       records'[d].version <= worker'.version
                 /\ records'[d].version <= sent
      <3>1. CASE records'[d].version = sent
        BY <1>1, <1>6, <1>8, <3>1
      <3>2. CASE records'[d] = records[d]
        BY <1>1, <1>5, <3>2 DEF AgeInv, RecordsPast
      <3> QED
        BY <1>4, <3>1, <3>2
    <2> QED
      BY <2>1, <2>2 DEF RecordsPast
  <1>10. \A d \in Devices : records'[d].version >= records[d].version
    BY <1>4, <1>5, <1>8
  <1> QED
    BY <1>3, <1>7, <1>9, <1>10 DEF AgeInv

(* Time passes for the worker and for the handlers alike. *)
LEMMA TickAges ==
    ASSUME IndInv, AgeInv, Shapes, Shapes', Tick
    PROVE  AgeInv'
  <1>1. /\ worker \in Worker /\ UNCHANGED <<produced, records>>
        /\ worker' = IF WorkerTimed THEN [worker EXCEPT !.timer = @ - 1]
                     ELSE worker
    BY DEF Tick, Shapes, relayVars
  <1>2. /\ worker'.phase = worker.phase /\ worker'.conn = worker.conn
        /\ worker'.version = worker.version
        /\ worker'.timer = IF WorkerTimed THEN worker.timer - 1
                           ELSE worker.timer
    BY <1>1 DEF Worker
  <1>3. ASSUME NEW c \in Conns
        PROVE  /\ conn'[c].relay = conn[c].relay
               /\ conn'[c].wire = conn[c].wire
               /\ conn'[c].timer = IF HandlerTimed(c) THEN conn[c].timer - 1
                                   ELSE conn[c].timer
    <2>1. conn'[c] = IF HandlerTimed(c) THEN [conn[c] EXCEPT !.timer = @ - 1]
                     ELSE conn[c]
      BY DEF Tick
    <2>2. conn[c] \in Connection
      BY DEF Shapes
    <2> QED
      BY <2>1, <2>2 DEF Connection
  <1>4. ASSUME NEW c \in Conns
        PROVE  /\ conn'[c].timer <= FrameTimeout
               /\ Unread(c)' => /\ Unread(c)
                                /\ conn'[c].timer = conn[c].timer - 1
    <2>1. conn[c].timer <= FrameTimeout
      BY DEF AgeInv, TimersBounded
    <2>2. Unread(c) => HandlerTimed(c)
      BY DEF Unread, HandlerTimed, Waiting
    <2>3. Unread(c)' => Unread(c)
      BY <1>3 DEF Unread
    <2>4. conn'[c].timer <= FrameTimeout
      BY <1>3, <2>1, Numbers
    <2> QED
      BY <1>3, <2>2, <2>3, <2>4
  <1>5. UnreadInTime'
    <2> SUFFICES ASSUME NEW c \in Conns, Unread(c)'
                 PROVE
        \/ /\ worker'.conn = c /\ worker'.phase = "ack"
           /\ conn'[c].timer + ConnectTimeout <= FrameTimeout + worker'.timer
        \/ /\ worker'.conn # c /\ worker'.phase # "asleep"
           /\ conn'[c].timer + ConnectTimeout <= FrameTimeout
        \/ /\ worker'.conn # c /\ worker'.phase = "asleep"
           /\ conn'[c].timer + ConnectTimeout + Pause
                 <= FrameTimeout + worker'.timer
      BY DEF UnreadInTime
    <2>1. Unread(c) /\ conn'[c].timer = conn[c].timer - 1
      BY <1>4
    <2>2. worker.phase \in {"ack", "asleep"} => worker'.timer = worker.timer - 1
      BY <1>2 DEF WorkerTimed, AgentWaiting
    <2>3. CASE worker.conn = c
      <3>1. worker.phase = "ack"
            /\ conn[c].timer + ConnectTimeout <= FrameTimeout + worker.timer
        BY <2>1, <2>3 DEF AgeInv, UnreadInTime
      <3> QED
        BY <1>2, <2>1, <2>2, <2>3, <3>1, Numbers
    <2>4. CASE worker.conn # c /\ worker.phase # "asleep"
      <3>1. conn[c].timer + ConnectTimeout <= FrameTimeout
        BY <2>1, <2>4 DEF AgeInv, UnreadInTime
      <3> QED
        BY <1>2, <2>1, <2>4, <3>1, Numbers
    <2>5. CASE worker.conn # c /\ worker.phase = "asleep"
      <3>1. conn[c].timer + ConnectTimeout + Pause
               <= FrameTimeout + worker.timer
        BY <2>1, <2>5 DEF AgeInv, UnreadInTime
      <3> QED
        BY <1>2, <2>1, <2>2, <2>5, <3>1, Numbers
    <2> QED
      BY <2>3, <2>4, <2>5
  <1>6. UnreadOfCycle'
    BY <1>2, <1>3, <1>4 DEF AgeInv, UnreadOfCycle
  <1>7. RecordsPast' /\ ProducedBefore'
    BY <1>1, <1>2, <1>3, <1>4 DEF AgeInv, RecordsPast, ProducedBefore
  <1> QED
    BY <1>4, <1>5, <1>6, <1>7 DEF AgeInv, TimersBounded

(* The receiver starts again and knows nothing. *)
LEMMA ReceiverRestartAges ==
    ASSUME IndInv, AgeInv, Shapes, Shapes', ReceiverRestart
    PROVE  AgeInv'
  <1>1. /\ UNCHANGED <<produced, worker>>
        /\ records' = [d \in Devices |-> NoRecord]
    BY DEF ReceiverRestart, agentVars
  <1>2. ASSUME NEW c \in Conns
        PROVE  conn'[c].relay = "done" /\ conn'[c].timer = 0
    <2>1. conn'[c] = [conn[c] EXCEPT !.relay = "done", !.timer = 0,
                                     !.open = FALSE,
                                     !.wire = IF @.kind \in FromRelay THEN @
                                              ELSE NoFrame]
      BY DEF ReceiverRestart
    <2>2. conn[c] \in Connection
      BY DEF Shapes
    <2> QED
      BY <2>1, <2>2 DEF Connection
  <1>3. \A c \in Conns : ~Unread(c)'
    BY <1>2 DEF Unread
  <1>4. \A d \in Devices : records'[d].version = 0
    BY <1>1 DEF NoRecord
  <1>5. UnreadInTime' /\ UnreadOfCycle'
    BY <1>3 DEF UnreadInTime, UnreadOfCycle
  <1>6. TimersBounded'
    BY <1>2, Numbers DEF TimersBounded
  <1>7. ProducedBefore'
    BY <1>1, <1>3 DEF AgeInv, ProducedBefore
  <1>8. RecordsPast'
    BY <1>1, <1>3, <1>4, Numbers DEF RecordsPast
  <1> QED
    BY <1>5, <1>6, <1>7, <1>8 DEF AgeInv

(* A new snapshot, a new identity, an edit of the receiver's list. *)
LEMMA OtherAges ==
    ASSUME IndInv, AgeInv, Shapes, Shapes',
           Produce \/ RotateIdentity \/ \E d \in Devices : EditAllowlist(d)
    PROVE  AgeInv'
  <1>1. UNCHANGED <<worker, conn, records>>
    BY DEF Produce, RotateIdentity, EditAllowlist, relayVars, agentVars
  <1>2. produced' >= produced
    BY Numbers DEF Produce, RotateIdentity, EditAllowlist, agentVars
  <1> QED
    BY <1>1, <1>2, WiresKept, WorkerIdle


(* At the start nothing is under way. *)
LEMMA InitAges == Init => AgeInv
  <1> SUFFICES ASSUME Init PROVE AgeInv
    OBVIOUS
  <1>1. \A c \in Conns : ~Unread(c) /\ conn[c].timer = 0
    BY DEF Init, Unused, Unread
  <1>2. /\ worker.phase = "asleep" /\ produced = 1
        /\ \A d \in Devices : records[d].version = 0
    BY DEF Init, NoRecord
  <1>3. TimersBounded
    BY <1>1, SessionAssumption DEF TimersBounded
  <1> QED
    BY <1>1, <1>2, <1>3
    DEF AgeInv, UnreadInTime, UnreadOfCycle, RecordsPast, ProducedBefore

(* Every step but a restart of the agent keeps the invariant. *)
LEMMA NextAges ==
    ASSUME MaxAgentRestarts = 0, FrameTimeout < ConnectTimeout + Pause,
           IndInv, AgeInv, [Next]_vars
    PROVE  AgeInv'
  <1>1. Shapes /\ Shapes'
    BY NextOK, ShapesAreTypeOK DEF IndInv
  <1>2. CASE WorkerStep
    BY <1>1, <1>2, BeginAges, RetryAges, ConnectAges, SignAges, SendAges,
       AckAges, GiveUpAges DEF WorkerStep
  <1>3. CASE \E c \in Conns : HandlerStep(c)
    <2>1. PICK c \in Conns : HandlerStep(c)
      BY <1>3
    <2>2. \/ ReadHello(c) \/ ReadAuth(c) \/ HandlerFails(c)
          \/ ReadTelemetry(c) \/ PublishFails(c)
      BY <2>1
      DEF HandlerStep, RejectHello, RejectAuth, CloseSession, HandlerTimeout,
          HandlerReadsEof
    <2> QED
      BY <1>1, <2>2, HandlerAges, PublishAges
  <1>4. CASE Produce \/ RotateIdentity \/ \E d \in Devices : EditAllowlist(d)
    BY <1>1, <1>4, OtherAges
  <1>5. CASE AgentRestart
    <2>1. faults.agent \in Nat
      BY <1>1 DEF Shapes
    <2> QED
      BY <1>5, <2>1 DEF AgentRestart
  <1>6. CASE ReceiverRestart \/ Tick
    BY <1>1, <1>6, ReceiverRestartAges, TickAges
  <1>7. CASE UNCHANGED vars
    <2>1. UNCHANGED <<worker, conn, records, produced>>
      BY <1>7 DEF vars, agentVars, relayVars
    <2>2. produced' >= produced
      BY <1>1, <2>1, Numbers
    <2> QED
      BY <1>1, <2>1, <2>2, WiresKept, WorkerIdle
  <1> QED
    BY <1>2, <1>3, <1>4, <1>5, <1>6, <1>7 DEF Next

(* The running receiver keeps, for each device, the newest snapshot it has *)
(* been sent: its record never goes back to an older one.  The hypotheses  *)
(* are what the relay_session run assumes; the defaults of the code, five  *)
(* seconds, five seconds and two, satisfy the second.                      *)
THEOREM NeverRegressesTheorem ==
    ASSUME MaxAgentRestarts = 0, FrameTimeout < ConnectTimeout + Pause
    PROVE  Spec => NeverRegresses
  <1>1. Init => AgeInv
    BY InitAges
  <1>2. IndInv /\ AgeInv /\ [Next]_vars => AgeInv'
    BY NextAges
  <1>3. IndInv /\ AgeInv /\ [Next]_vars =>
           [\A d \in Devices :
               records'[d].version >= records[d].version
               \/ faults'.receiver > faults.receiver]_vars
    <2> SUFFICES ASSUME IndInv, AgeInv, [Next]_vars, vars' # vars,
                        NEW d \in Devices
                 PROVE  \/ records'[d].version >= records[d].version
                        \/ faults'.receiver > faults.receiver
      OBVIOUS
    <2>1. Shapes /\ Shapes'
      BY NextOK, ShapesAreTypeOK DEF IndInv
    <2>2. \/ \E c \in Conns : ReadTelemetry(c) \/ PublishFails(c)
          \/ ReceiverRestart
          \/ UNCHANGED records
      BY StepsOnRecords
    <2>3. CASE \E c \in Conns : ReadTelemetry(c) \/ PublishFails(c)
      BY <2>1, <2>3, PublishAges
    <2>4. CASE ReceiverRestart
      BY <2>4, RestartCounted
    <2>5. CASE UNCHANGED records
      BY <2>1, <2>5, Numbers
    <2> QED
      BY <2>2, <2>3, <2>4, <2>5
  <1> QED
    BY <1>1, <1>2, <1>3, Invariance, PTL DEF Spec, NeverRegresses
===============================================================================
