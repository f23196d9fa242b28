---------------------------- MODULE RelaySession ----------------------------
(***************************************************************************)
(* One printer host delivering telemetry to the relay receiver: the worker *)
(* loop of relay_worker.py, the retries and the authenticated session of   *)
(* relay_transport.py, the connection handler of relay_receiver.py and the *)
(* registry of relay_registry.py, while an operator rotates the device     *)
(* identity, edits the receiver's device list and restarts either side.    *)
(*                                                                         *)
(* A session is a strict exchange of six frames, hello, challenge, auth,   *)
(* ready, telemetry, ack, so a connection carries at most one frame at a   *)
(* time.  A frame may be delayed for ever; it stays readable after its     *)
(* sender has closed.  Time is what is left on each timer: a tick takes    *)
(* one unit off all of them, and no timer that has run out lets time pass. *)
(* Snapshots are numbered in the order the local agent produces them; a    *)
(* device is the generation of its key.                                    *)
(***************************************************************************)
EXTENDS Naturals, FiniteSets

CONSTANTS
    Conns,             \* connection slots
    NoConn,
    Attempts,          \* attempts of send_with_retries in one cycle
    RetryBase, RetryMaximum,  \* base and maximum of retry_delays
    Pause,             \* seconds the worker sleeps between cycles
    ConnectTimeout,    \* connect_timeout of the agent's configuration
    FrameTimeout,      \* the receiver's read_frame timeout
    MaxVersion,        \* bound on snapshots produced
    MaxIdentity,       \* bound on identity generations
    MaxAgentRestarts, MaxReceiverRestarts, MaxDiskFailures   \* bounds

ASSUME SessionAssumption ==
    /\ NoConn \notin Conns
    /\ IsFiniteSet(Conns)
    /\ Attempts \in Nat \ {0}
    /\ RetryBase \in Nat \ {0} /\ RetryMaximum \in Nat \ {0}
    /\ Pause \in Nat \ {0}
    /\ ConnectTimeout \in Nat \ {0}
    /\ FrameTimeout \in Nat \ {0}
    /\ MaxVersion \in Nat \ {0} /\ MaxIdentity \in Nat \ {0}
    /\ MaxAgentRestarts \in Nat /\ MaxReceiverRestarts \in Nat
    /\ MaxDiskFailures \in Nat

VARIABLES
    identity,   \* the device's current identity
    produced,   \* newest snapshot of the local agent
    worker,     \* the relay worker process
    conn,       \* connections: both ends' state and the frame in between
    allowlist,  \* devices in the receiver's configuration file
    loaded,     \* devices the running receiver has loaded
    records,    \* RelaySnapshotRegistry.records
    active,     \* RelaySnapshotRegistry.active_sessions
    file,       \* the registry's state file
    stored,     \* history: every <<device, version>> that reached the file
    faults      \* how often each bounded fault has happened

agentVars == <<identity, produced, worker>>
relayVars == <<allowlist, loaded, records, active, file, stored>>
vars == <<agentVars, conn, relayVars, faults>>

Devices == 1..MaxIdentity
Versions == 0..MaxVersion
NoRecord == [version |-> 0, signer |-> 0]

(* Frames.  "device" is the claimed device, "signer" the key that signed. *)
NoFrame == [kind |-> "none", device |-> 0, signer |-> 0, version |-> 0]
Hello(d) == [NoFrame EXCEPT !.kind = "hello", !.device = d]
Challenge(d) == [NoFrame EXCEPT !.kind = "challenge", !.device = d]
Auth(d, s) == [NoFrame EXCEPT !.kind = "auth", !.device = d, !.signer = s]
Ready == [NoFrame EXCEPT !.kind = "ready"]
Telemetry(v) == [NoFrame EXCEPT !.kind = "telemetry", !.version = v]
Ack == [NoFrame EXCEPT !.kind = "ack"]

FromAgent == {"hello", "auth", "telemetry"}
FromRelay == {"challenge", "ready", "ack"}

(* A connection: the handler's phase names the frame it waits for; "open"  *)
(* says that it has told the registry of a session.                        *)
Unused == [relay |-> "done", timer |-> 0, device |-> 0, signer |-> 0,
           open |-> FALSE, wire |-> NoFrame, agentClosed |-> TRUE]

Waiting == {"hello", "auth", "telemetry"}
AgentWaiting == {"challenge", "ready", "ack"}

Init ==
    /\ identity = 1
    /\ produced = 1
    /\ worker = [phase |-> "asleep", conn |-> NoConn, attempt |-> 0,
                 version |-> 0, device |-> 0, timer |-> 0, acked |-> <<0, 0>>]
    /\ conn = [c \in Conns |-> Unused]
    /\ allowlist = {1}
    /\ loaded = {1}
    /\ records = [d \in Devices |-> NoRecord]
    /\ active = [d \in Devices |-> 0]
    /\ file = [d \in Devices |-> NoRecord]
    /\ stored = {}
    /\ faults = [agent |-> 0, receiver |-> 0, disk |-> 0]

------------------------------------------------------------------------------
(* The worker.                                                             *)

(* retry_delays: base * 2^attempt, capped *)
RetryDelay(attempt) ==
    IF RetryBase * 2^(attempt - 1) < RetryMaximum
    THEN RetryBase * 2^(attempt - 1) ELSE RetryMaximum

CloseAgentEnd(c) == [conn EXCEPT ![c].agentClosed = TRUE]

(* Definitions marked "defect:" are not part of the model: each is a        *)
(* variant of the definition after it with a plausible mistake in it.      *)

(* an attempt ends without an acknowledgement: retry or give the cycle up *)
AfterFailure ==
    IF worker.attempt < Attempts
    THEN [worker EXCEPT !.phase = "backoff", !.conn = NoConn, !.device = 0,
                        !.timer = RetryDelay(worker.attempt)]
    ELSE [worker EXCEPT !.phase = "asleep", !.conn = NoConn, !.device = 0,
                        !.attempt = 0, !.version = 0, !.timer = Pause]

AttemptFails ==
    /\ worker' = AfterFailure
    /\ conn' = CloseAgentEnd(worker.conn)
    /\ UNCHANGED <<identity, produced, relayVars, faults>>

(* run_once: fetch_snapshot, then the first attempt *)
BeginCycle ==
    /\ worker.phase = "asleep" /\ worker.timer = 0
    /\ worker' = [worker EXCEPT !.phase = "connect", !.attempt = 1,
                                !.version = produced]
    /\ UNCHANGED <<identity, produced, conn, relayVars, faults>>

(* the local agent is down or has no snapshot: the cycle is given up *)
FetchFails ==
    /\ worker.phase = "asleep" /\ worker.timer = 0
    /\ worker' = [worker EXCEPT !.timer = Pause]
    /\ UNCHANGED <<identity, produced, conn, relayVars, faults>>

BackoffOver ==
    /\ worker.phase = "backoff" /\ worker.timer = 0
    /\ worker' = [worker EXCEPT !.phase = "connect", !.attempt = @ + 1]
    /\ UNCHANGED <<identity, produced, conn, relayVars, faults>>

Free(c) == conn[c].relay = "done" /\ conn[c].agentClosed /\ worker.conn # c

(* open_connection, then create_agent_hello with the identity of now *)
Connect(c) ==
    /\ worker.phase = "connect"
    /\ Free(c)
    /\ conn' = [conn EXCEPT ![c] =
                  [Unused EXCEPT !.relay = "hello", !.timer = FrameTimeout,
                                 !.wire = Hello(identity),
                                 !.agentClosed = FALSE]]
    /\ worker' = [worker EXCEPT !.phase = "challenge", !.conn = c,
                                !.timer = ConnectTimeout]
    /\ UNCHANGED <<identity, produced, relayVars, faults>>

ConnectFails ==
    /\ worker.phase = "connect"
    /\ worker' = AfterFailure
    /\ UNCHANGED <<identity, produced, conn, relayVars, faults>>

Arrived(kind) ==
    /\ worker.phase = kind
    /\ conn[worker.conn].wire.kind = kind

SendFromAgent(frame) ==
    conn' = [conn EXCEPT ![worker.conn].wire = frame]

(* sign_session_challenge, first half: store.identity() and the check of   *)
(* the challenge's audience; a clock too far off rejects it as well        *)
AudienceIs(frame, d) == frame.device = d

ReadChallenge ==
    /\ Arrived("challenge")
    /\ AudienceIs(conn[worker.conn].wire, identity)
    /\ worker' = [worker EXCEPT !.phase = "signing", !.device = identity]
    /\ SendFromAgent(NoFrame)
    /\ UNCHANGED <<identity, produced, relayVars, faults>>

RejectChallenge == Arrived("challenge") /\ AttemptFails

(* second half: store.sign() takes the lock again and may find a new key *)
Sign ==
    /\ worker.phase = "signing"
    /\ SendFromAgent(Auth(worker.device, identity))
    /\ worker' = [worker EXCEPT !.phase = "ready", !.timer = ConnectTimeout]
    /\ UNCHANGED <<identity, produced, relayVars, faults>>

(* defect: the acknowledgement is awaited on what is left of the timer *)
ReadReadyNoNewTimer ==
    /\ Arrived("ready")
    /\ SendFromAgent(Telemetry(worker.version))
    /\ worker' = [worker EXCEPT !.phase = "ack"]
    /\ UNCHANGED <<identity, produced, relayVars, faults>>

ReadReady ==
    /\ Arrived("ready")
    /\ SendFromAgent(Telemetry(worker.version))
    /\ worker' = [worker EXCEPT !.phase = "ack", !.timer = ConnectTimeout]
    /\ UNCHANGED <<identity, produced, relayVars, faults>>

ReadAck ==
    /\ Arrived("ack")
    /\ conn' = [conn EXCEPT ![worker.conn].agentClosed = TRUE,
                            ![worker.conn].wire = NoFrame]
    /\ worker' = [worker EXCEPT !.phase = "asleep", !.conn = NoConn,
                                !.device = 0, !.attempt = 0, !.version = 0,
                                !.timer = Pause,
                                !.acked = <<worker.device, worker.version>>]
    /\ UNCHANGED <<identity, produced, relayVars, faults>>

AgentTimeout ==
    /\ worker.phase \in AgentWaiting /\ worker.timer = 0
    /\ AttemptFails

(* the receiver has closed and nothing of it is left to read *)
AgentReadsEof ==
    /\ worker.phase \in AgentWaiting
    /\ conn[worker.conn].relay = "done"
    /\ conn[worker.conn].wire.kind \notin FromRelay
    /\ AttemptFails

------------------------------------------------------------------------------
(* The receiver's handler of one connection (_handle_agent).               *)

Receives(c, kind) == conn[c].relay = kind /\ conn[c].wire.kind = kind

Opened(d) == [active EXCEPT ![d] = @ + 1]
(* defect: only an acknowledged session is closed *)
ClosedAfterAck(c) ==
    IF conn[c].open /\ conn[c].relay = "closing"
    THEN [active EXCEPT ![conn[c].device] = IF @ > 0 THEN @ - 1 ELSE 0]
    ELSE active

Closed(c) ==
    IF conn[c].open
    THEN [active EXCEPT ![conn[c].device] = IF @ > 0 THEN @ - 1 ELSE 0]
    ELSE active

(* any exception: count it, close the session if one was opened, close.    *)
(* What was already sent to the agent can still be read.                   *)
HandlerEnds(c) ==
    /\ conn' = [conn EXCEPT ![c].relay = "done", ![c].timer = 0,
                            ![c].open = FALSE,
                            ![c].wire = IF @.kind \in FromRelay THEN @
                                        ELSE NoFrame]
    /\ active' = Closed(c)

HandlerFails(c) ==
    /\ HandlerEnds(c)
    /\ UNCHANGED <<agentVars, allowlist, loaded, records, file, stored, faults>>

(* defect: the hello is checked against the edited file *)
KnownInFile(d) == d \in allowlist

(* RelayReceiver.devices, built from the configuration at start *)
Known(d) == d \in loaded

ReadHello(c) ==
    /\ Receives(c, "hello")
    /\ Known(conn[c].wire.device)
    /\ conn' = [conn EXCEPT ![c].relay = "auth", ![c].timer = FrameTimeout,
                            ![c].device = conn[c].wire.device,
                            ![c].wire = Challenge(conn[c].wire.device)]
    /\ UNCHANGED <<agentVars, relayVars, faults>>

RejectHello(c) ==
    /\ Receives(c, "hello")
    /\ ~Known(conn[c].wire.device)
    /\ HandlerFails(c)

(* defect: the claimed identity is believed *)
AuthClaimed(c, frame) == frame.device = conn[c].device

(* the enrolled key of the device, then verify_session_auth: the claimed   *)
(* identity is that key's, and that key made the signature                 *)
AuthOK(c, frame) == frame.device = conn[c].device /\ frame.signer = frame.device

ReadAuth(c) ==
    /\ Receives(c, "auth")
    /\ AuthOK(c, conn[c].wire)
    /\ conn' = [conn EXCEPT ![c].relay = "telemetry", ![c].timer = FrameTimeout,
                            ![c].signer = conn[c].wire.signer,
                            ![c].open = TRUE, ![c].wire = Ready]
    /\ active' = Opened(conn[c].device)
    /\ UNCHANGED <<agentVars, allowlist, loaded, records, file, stored, faults>>

(* a wrong key or signature, or a receiver clock that finds it too late *)
RejectAuth(c) == Receives(c, "auth") /\ HandlerFails(c)

Published(c) ==
    [records EXCEPT ![conn[c].device] =
        [version |-> conn[c].wire.version, signer |-> conn[c].signer]]

(* RelaySnapshotRegistry.publish, then the acknowledgement *)
ReadTelemetry(c) ==
    /\ Receives(c, "telemetry")
    /\ records' = Published(c)
    /\ file' = records'
    /\ stored' = stored \cup {<<conn[c].device, conn[c].wire.version>>}
    /\ conn' = [conn EXCEPT ![c].relay = "closing", ![c].timer = 0,
                            ![c].wire = Ack]
    /\ UNCHANGED <<agentVars, allowlist, loaded, active, faults>>

(* defect: the failed write is swallowed and acknowledged *)
PublishFailsQuietly(c) ==
    /\ Receives(c, "telemetry")
    /\ faults.disk < MaxDiskFailures
    /\ faults' = [faults EXCEPT !.disk = @ + 1]
    /\ records' = Published(c)
    /\ conn' = [conn EXCEPT ![c].relay = "closing", ![c].timer = 0,
                            ![c].wire = Ack]
    /\ UNCHANGED <<agentVars, allowlist, loaded, active, file, stored>>

(* publish raises out of _write_locked: memory is ahead of the file and    *)
(* nobody is acknowledged                                                  *)
PublishFails(c) ==
    /\ Receives(c, "telemetry")
    /\ faults.disk < MaxDiskFailures
    /\ faults' = [faults EXCEPT !.disk = @ + 1]
    /\ records' = Published(c)
    /\ HandlerEnds(c)
    /\ UNCHANGED <<agentVars, allowlist, loaded, file, stored>>

(* the finally clause after the acknowledgement has been drained *)
CloseSession(c) ==
    /\ conn[c].relay = "closing"
    /\ HandlerFails(c)

HandlerTimeout(c) ==
    /\ conn[c].relay \in Waiting /\ conn[c].timer = 0
    /\ HandlerFails(c)

HandlerReadsEof(c) ==
    /\ conn[c].relay \in Waiting
    /\ conn[c].agentClosed
    /\ conn[c].wire.kind \notin FromAgent
    /\ HandlerFails(c)

------------------------------------------------------------------------------
(* The rest of the world.                                                  *)

Produce ==
    /\ produced < MaxVersion
    /\ produced' = produced + 1
    /\ UNCHANGED <<identity, worker, conn, relayVars, faults>>

RotateIdentity ==
    /\ identity < MaxIdentity
    /\ identity' = identity + 1
    /\ UNCHANGED <<produced, worker, conn, relayVars, faults>>

(* relay-config edits the file; a running receiver keeps what it loaded *)
EditAllowlist(d) ==
    /\ d <= identity
    /\ allowlist' = IF d \in allowlist THEN allowlist \ {d}
                    ELSE allowlist \cup {d}
    /\ UNCHANGED <<agentVars, conn, loaded, records, active, file, stored,
                   faults>>

AgentRestart ==
    /\ faults.agent < MaxAgentRestarts
    /\ faults' = [faults EXCEPT !.agent = @ + 1]
    /\ conn' = IF worker.conn = NoConn THEN conn ELSE CloseAgentEnd(worker.conn)
    /\ worker' = [worker EXCEPT !.phase = "asleep", !.conn = NoConn,
                                !.device = 0, !.attempt = 0, !.version = 0,
                                !.timer = 0]
    /\ UNCHANGED <<identity, produced, relayVars>>

(* a new RelayReceiver: empty registry, configuration read again; it never *)
(* reads the state file                                                    *)
ReceiverRestart ==
    /\ faults.receiver < MaxReceiverRestarts
    /\ faults' = [faults EXCEPT !.receiver = @ + 1]
    /\ conn' = [c \in Conns |->
                  [conn[c] EXCEPT !.relay = "done", !.timer = 0, !.open = FALSE,
                                  !.wire = IF @.kind \in FromRelay THEN @
                                           ELSE NoFrame]]
    /\ loaded' = allowlist
    /\ records' = [d \in Devices |-> NoRecord]
    /\ active' = [d \in Devices |-> 0]
    /\ UNCHANGED <<agentVars, allowlist, file, stored>>

(* defects: a frame is awaited without a timeout *)
WorkerTimedNotForAck ==
    worker.phase \in {"challenge", "ready", "asleep", "backoff"}
HandlerTimedUntilAuth(c) == conn[c].relay \in {"hello", "auth"}

WorkerTimed == worker.phase \in AgentWaiting \cup {"asleep", "backoff"}
HandlerTimed(c) == conn[c].relay \in Waiting

Tick ==
    /\ WorkerTimed => worker.timer > 0
    /\ \A c \in Conns : HandlerTimed(c) => conn[c].timer > 0
    /\ WorkerTimed \/ \E c \in Conns : HandlerTimed(c)
    /\ worker' = IF WorkerTimed THEN [worker EXCEPT !.timer = @ - 1] ELSE worker
    /\ conn' = [c \in Conns |->
                  IF HandlerTimed(c) THEN [conn[c] EXCEPT !.timer = @ - 1]
                  ELSE conn[c]]
    /\ UNCHANGED <<identity, produced, relayVars, faults>>

WorkerStep ==
    \/ BeginCycle \/ FetchFails \/ BackoffOver
    \/ \E c \in Conns : Connect(c)
    \/ ConnectFails
    \/ ReadChallenge \/ RejectChallenge \/ Sign \/ ReadReady \/ ReadAck
    \/ AgentTimeout \/ AgentReadsEof

HandlerStep(c) ==
    \/ ReadHello(c) \/ RejectHello(c)
    \/ ReadAuth(c) \/ RejectAuth(c)
    \/ ReadTelemetry(c) \/ PublishFails(c) \/ CloseSession(c)
    \/ HandlerTimeout(c) \/ HandlerReadsEof(c)

Next ==
    \/ WorkerStep
    \/ \E c \in Conns : HandlerStep(c)
    \/ Produce
    \/ RotateIdentity
    \/ \E d \in Devices : EditAllowlist(d)
    \/ AgentRestart
    \/ ReceiverRestart
    \/ Tick

Spec == Init /\ [][Next]_vars

(* Timers fire, code that does not wait for a frame runs on, and time      *)
(* passes.  No frame need ever arrive.                                     *)
Fairness ==
    /\ WF_vars(BeginCycle \/ BackoffOver \/ ConnectFails \/ Sign)
    /\ WF_vars(AgentTimeout)
    /\ \A c \in Conns : WF_vars(CloseSession(c)) /\ WF_vars(HandlerTimeout(c))
    /\ WF_vars(Tick)

FairSpec == Spec /\ Fairness

------------------------------------------------------------------------------
(* Properties.                                                             *)

(* Every variable keeps its shape. *)
TypeOK ==
    /\ identity \in Devices
    /\ produced \in Versions
    /\ worker \in [phase : {"asleep", "backoff", "connect", "signing"}
                           \cup AgentWaiting,
                   conn : Conns \cup {NoConn}, attempt : 0..Attempts,
                   version : Versions, device : 0..MaxIdentity, timer : Nat,
                   acked : (0..MaxIdentity) \X Versions]
    /\ conn \in [Conns -> [relay : Waiting \cup {"closing", "done"},
                           timer : Nat, device : 0..MaxIdentity,
                           signer : 0..MaxIdentity, open : BOOLEAN,
                           wire : [kind : FromAgent \cup FromRelay \cup {"none"},
                                   device : 0..MaxIdentity,
                                   signer : 0..MaxIdentity, version : Versions],
                           agentClosed : BOOLEAN]]
    /\ allowlist \subseteq Devices /\ loaded \subseteq Devices
    /\ records \in [Devices -> [version : Versions, signer : 0..MaxIdentity]]
    /\ file \in [Devices -> [version : Versions, signer : 0..MaxIdentity]]
    /\ active \in [Devices -> Nat]
    /\ stored \subseteq Devices \X Versions
    /\ faults \in [agent : Nat, receiver : Nat, disk : Nat]

(* A record kept for a device was sent over a session that device's own    *)
(* key had authenticated, even when the identity is rotated between hello, *)
(* store.identity() and store.sign().                                      *)
OnlyOwnKeyPublishes ==
    \A d \in Devices :
        records[d].version > 0 => records[d].signer = d

(* active_sessions is exactly the number of handlers inside a session: a   *)
(* timeout, a rejected envelope, a failed write or a vanished agent never  *)
(* leaks one.                                                              *)
ActiveSessionsExact ==
    \A d \in Devices :
        active[d] = Cardinality({c \in Conns : conn[c].open
                                               /\ conn[c].device = d})

(* What the worker counts as delivered has reached the receiver's disk,    *)
(* for the device the worker signed as.                                    *)
AckedWasStored == worker.acked # <<0, 0>> => worker.acked \in stored

(* Only a device that the running receiver has loaded publishes: an edit   *)
(* of the list takes effect at the next start, completely and for every    *)
(* device, and no session begun under the old list outlives the restart.   *)
OnlyLoadedPublish ==
    [][\A d \in Devices :
          records'[d] # records[d] => \/ d \in loaded
                                     \/ faults'.receiver > faults.receiver]_vars

(* docs/RELAY_RECEIVER.md:14: only the latest snapshot of a device is      *)
(* retained.  The running receiver never goes back to an older one.        *)
NeverRegresses ==
    [][\A d \in Devices :
          records'[d].version >= records[d].version
          \/ faults'.receiver > faults.receiver]_vars


(* The worker always comes back to its pause: no lost frame, dead receiver *)
(* or rejected session makes it wait for ever.                             *)
WorkerNeverHangs == worker.phase # "asleep" ~> worker.phase = "asleep"

(* Every connection handler ends, so abandoned connections do not pile up. *)
HandlersEnd == \A c \in Conns : conn[c].relay # "done" ~> conn[c].relay = "done"

==============================================================================
