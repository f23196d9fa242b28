----------------------------- MODULE AgentService -----------------------------
(***************************************************************************)
(* The agent's process (run_service, service.py) with everything in it: it *)
(* discovers the printers' sockets, inspects them for the catalog, opens   *)
(* the local API (api.py) and runs one monitor per printer over one status *)
(* document, until a monitor fails, somebody interrupts it, or it is       *)
(* killed; systemd starts it again.  A monitor that fails does not end the *)
(* others: they go on until asyncio.run cancels them, which is after the   *)
(* document has been flushed.                                              *)
(*                                                                         *)
(* The document is StatusDocument, which SnapshotStore implements; a       *)
(* monitor is reduced to what MoonrakerMonitor shows of it: it streams,    *)
(* loses its connection, pauses, connects again.  Of a payload only what   *)
(* it says of the connection is kept.                                      *)
(***************************************************************************)
EXTENDS Naturals, FiniteSets

CONSTANTS
    Printers,
    MaxClients,    \* bound on open connections to the API
    MaxRefusals,   \* bound on writes the file system refuses
    MaxKills,      \* bound on kills and interrupts
    MaxOutages     \* bound on Moonrakers that stop or fall silent

ASSUME AgentAssumption ==
    /\ IsFiniteSet(Printers)
    /\ MaxClients \in Nat /\ MaxRefusals \in Nat
    /\ MaxKills \in Nat /\ MaxOutages \in Nat

VARIABLES
    moonraker,  \* each printer's socket: "absent", "dead", "listening", or
                \* "mute" when connections are accepted and never answered
    phase,      \* where run_service is; "ending" when it has returned
    known,      \* the sockets discovered at the start
    catalog,    \* those of them that the catalog calls reachable
    monitor,    \* the monitor of each printer
    memory,     \* the status document
    saved,      \* status.json
    clients,    \* open connections to the API
    ended,      \* how the last process ended, and whether it was asked to
    waits,      \* wait_closed() waits for open connections (Python 3.12)
    late,       \* history: printers that reported after the last write
    bounds

document == <<memory, saved>>
agentVars == <<moonraker, phase, known, catalog, monitor, document, clients, ended,
          waits, late, bounds>>

Nothing == "nothing"
Payloads == {"connected", "disconnected"}

Store == INSTANCE StatusDocument WITH
    Instances <- Printers,
    NoPayload <- Nothing,
    disk <- saved

ReportedConnected(p) == memory[p] = "connected"

AgentInit ==
    /\ moonraker \in [Printers -> {"absent", "listening"}]
    /\ phase = "down"
    /\ known = {}
    /\ catalog = {}
    /\ monitor = [p \in Printers |-> "none"]
    /\ Store!Init
    /\ clients = 0
    /\ ended = [how |-> "never", asked |-> FALSE]
    /\ waits \in BOOLEAN
    /\ late = {}
    /\ bounds = [failures |-> 0, kills |-> 0, outages |-> 0]

------------------------------------------------------------------------------
(* The start. *)

Discovered == {p \in Printers : moonraker[p] # "absent"}

(* discover_socket_paths, SnapshotStore(); without a socket run_service     *)
(* raises and systemd tries again                                          *)
Start ==
    /\ phase = "down"
    /\ Discovered # {}
    /\ known' = Discovered
    /\ phase' = "inspecting"
    /\ catalog' = {}
    /\ Store!Restart
    /\ ended' = [how |-> "runs", asked |-> FALSE]
    /\ late' = {}
    /\ UNCHANGED <<moonraker, monitor, clients, waits, bounds>>

(* Definitions marked "defect:" are not part of the model: each is a       *)
(* variant of the definition after it with a plausible mistake in it.      *)

(* build_catalog, api.start, and gather starts the monitors.  A listening   *)
(* Moonraker can still fail to answer in time; a mute one is given up      *)
(* after two seconds.                                                      *)
Serve ==
    /\ phase = "inspecting"
    /\ \E reached \in SUBSET {p \in known : moonraker[p] = "listening"} :
          catalog' = reached
    /\ monitor' = [p \in Printers |-> IF p \in known THEN "connecting"
                                       ELSE "none"]
    /\ phase' = "serving"
    /\ UNCHANGED <<moonraker, known, document, clients, ended, waits, late,
                   bounds>>

------------------------------------------------------------------------------
(* The monitors.  They run until the process ends, also while it closes,   *)
(* and after run_service has returned.                                     *)

Running == phase \in {"serving", "closing", "flushing", "ending"}

(* one that reports when run_service has flushed is late *)
Reported(p) == late' = IF phase = "ending" THEN late \cup {p} ELSE late

CanFail == bounds.failures < MaxRefusals
Failed(n) == bounds' = [bounds EXCEPT !.failures = @ + n]

(* a snapshot arrives and store.update takes it *)
Stream(p) ==
    /\ Running
    /\ monitor[p] \in {"connecting", "streaming"}
    /\ moonraker[p] = "listening"
    /\ Store!Report(p, "connected")
    /\ Reported(p)
    /\ monitor' = [monitor EXCEPT ![p] = "streaming"]
    /\ UNCHANGED <<moonraker, phase, known, catalog, clients, ended,
                   waits, bounds>>

(* defect: a lost connection ends the monitor *)
LoseForGood(p) ==
    /\ Running
    /\ monitor[p] \in {"connecting", "streaming"}
    /\ Store!Report(p, "disconnected")
    /\ Reported(p)
    /\ monitor' = [monitor EXCEPT ![p] = "finished"]
    /\ UNCHANGED <<moonraker, phase, known, catalog, clients, ended,
                   waits, bounds>>

(* the connection fails or ends: the except clause reports it *)
Lose(p) ==
    /\ Running
    /\ monitor[p] \in {"connecting", "streaming"}
    /\ Store!Report(p, "disconnected")
    /\ Reported(p)
    /\ monitor' = [monitor EXCEPT ![p] = "pausing"]
    /\ UNCHANGED <<moonraker, phase, known, catalog, clients, ended,
                   waits, bounds>>

(* store.update raises for a snapshot, which the except clause takes for a *)
(* lost connection; this time the document is written                      *)
StreamUnsaved(p) ==
    /\ Running /\ CanFail
    /\ monitor[p] \in {"connecting", "streaming"}
    /\ moonraker[p] = "listening"
    /\ Store!PutSaved(p, "disconnected")
    /\ Reported(p)
    /\ monitor' = [monitor EXCEPT ![p] = "pausing"]
    /\ Failed(1)
    /\ UNCHANGED <<moonraker, phase, known, catalog, clients, ended,
                   waits>>

(* defect: gather returns exceptions and the others go on *)
AfterMonitorFailedStays == phase

(* gather raises, and the finally clause begins *)
AfterMonitorFailed == IF phase = "serving" THEN "closing" ELSE phase

(* store.update raises in the except clause: the monitor is finished *)
LoseUnsaved(p) ==
    /\ Running /\ CanFail
    /\ monitor[p] \in {"connecting", "streaming"}
    /\ Store!PutUnsaved(p, "disconnected")
    /\ Reported(p)
    /\ monitor' = [monitor EXCEPT ![p] = "finished"]
    /\ phase' = AfterMonitorFailed
    /\ Failed(1)
    /\ UNCHANGED <<moonraker, known, catalog, clients, ended, waits>>

Retry(p) ==
    /\ Running
    /\ monitor[p] = "pausing"
    /\ monitor' = [monitor EXCEPT ![p] = "connecting"]
    /\ UNCHANGED <<moonraker, phase, known, catalog, document, clients,
                   ended, waits, late, bounds>>

(* the store's delayed flush *)
FlushTask ==
    /\ Running
    /\ Store!Save
    /\ UNCHANGED <<moonraker, phase, known, catalog, monitor, clients,
                   ended, waits, late, bounds>>

------------------------------------------------------------------------------
(* The API. *)

(* defect: a closing API still accepts connections *)
ClientConnectsLate ==
    /\ phase \in {"serving", "closing"}
    /\ clients < MaxClients
    /\ clients' = clients + 1
    /\ UNCHANGED <<moonraker, phase, known, catalog, monitor, document,
                   ended, waits, late, bounds>>

ClientConnects ==
    /\ phase = "serving"
    /\ clients < MaxClients
    /\ clients' = clients + 1
    /\ UNCHANGED <<moonraker, phase, known, catalog, monitor, document,
                   ended, waits, late, bounds>>

ClientLeaves ==
    /\ clients > 0
    /\ clients' = clients - 1
    /\ UNCHANGED <<moonraker, phase, known, catalog, monitor, document,
                   ended, waits, late, bounds>>

------------------------------------------------------------------------------
(* The end. *)

AllStop == [p \in Printers |-> "none"]

(* defect: the monitors are no tasks of gather and go on *)
InterruptApiOnly ==
    /\ phase = "serving"
    /\ bounds.kills < MaxKills
    /\ bounds' = [bounds EXCEPT !.kills = @ + 1]
    /\ phase' = "closing"
    /\ ended' = [ended EXCEPT !.asked = TRUE]
    /\ UNCHANGED <<moonraker, known, catalog, monitor, document, clients,
                   waits, late>>

(* SIGINT, an operator's wish: gather is cancelled, cancels the monitors    *)
(* and waits for them                                                      *)
Interrupt ==
    /\ phase = "serving"
    /\ bounds.kills < MaxKills
    /\ bounds' = [bounds EXCEPT !.kills = @ + 1]
    /\ monitor' = AllStop
    /\ phase' = "closing"
    /\ ended' = [ended EXCEPT !.asked = TRUE]
    /\ UNCHANGED <<moonraker, known, catalog, document, clients, waits, late>>

(* api.close(): wait_closed() returns when no client is left *)
CloseApi ==
    /\ phase = "closing"
    /\ waits => clients = 0
    /\ phase' = "flushing"
    /\ UNCHANGED <<moonraker, known, catalog, monitor, document, clients,
                   ended, waits, late, bounds>>

(* store.flush() has returned, or raised *)
Returns(how) ==
    /\ phase' = "ending"
    /\ ended' = [ended EXCEPT !.how = how]
    /\ UNCHANGED <<moonraker, known, catalog, monitor, clients, waits, late>>

(* store.flush() writes what is dirty *)
Flush ==
    /\ phase = "flushing"
    /\ Returns("flushed")
    /\ Store!Save
    /\ UNCHANGED bounds

FlushFails ==
    /\ phase = "flushing" /\ CanFail
    /\ memory # saved
    /\ Returns("unsaved")
    /\ Failed(1)
    /\ UNCHANGED document

Down ==
    /\ phase' = "down"
    /\ monitor' = AllStop
    /\ clients' = 0

(* one or two rounds of the event loop later, asyncio.run cancels what is  *)
(* left of the monitors and a flush task they made, and the process ends   *)
Exit ==
    /\ phase = "ending"
    /\ Down
    /\ UNCHANGED <<moonraker, known, catalog, document, ended, waits, late,
                   bounds>>

(* SIGTERM is not handled: systemd's stop ends the process where it is;    *)
(* so does SIGKILL, but nobody asked for that and systemd starts it again  *)
Kill ==
    /\ phase # "down"
    /\ bounds.kills < MaxKills
    /\ bounds' = [bounds EXCEPT !.kills = @ + 1]
    /\ Down
    /\ \E asked \in BOOLEAN : ended' = [how |-> "killed", asked |-> asked]
    /\ UNCHANGED <<moonraker, known, catalog, document, waits, late>>

------------------------------------------------------------------------------
(* The Moonrakers: one that stops leaves its socket file or removes it;    *)
(* one that is mute stays so until it stops.                               *)

MoonrakerStarts(p) ==
    /\ moonraker[p] \in {"absent", "dead"}
    /\ moonraker' = [moonraker EXCEPT ![p] = "listening"]
    /\ UNCHANGED <<phase, known, catalog, monitor, document, clients,
                   ended, waits, late, bounds>>

MoonrakerFails(p, left) ==
    /\ moonraker[p] = "listening"
    /\ bounds.outages < MaxOutages
    /\ bounds' = [bounds EXCEPT !.outages = @ + 1]
    /\ moonraker' = [moonraker EXCEPT ![p] = left]
    /\ UNCHANGED <<phase, known, catalog, monitor, document, clients,
                   ended, waits, late>>

MuteStops(p, left) ==
    /\ moonraker[p] = "mute"
    /\ moonraker' = [moonraker EXCEPT ![p] = left]
    /\ UNCHANGED <<phase, known, catalog, monitor, document, clients,
                   ended, waits, late, bounds>>

MonitorStep(p) ==
    Stream(p) \/ Lose(p) \/ StreamUnsaved(p) \/ LoseUnsaved(p) \/ Retry(p)

AgentNext ==
    \/ Start \/ Serve
    \/ \E p \in Printers : MonitorStep(p)
    \/ FlushTask
    \/ ClientConnects \/ ClientLeaves
    \/ Interrupt \/ CloseApi \/ Flush \/ FlushFails \/ Exit \/ Kill
    \/ \E p \in Printers :
          \/ MoonrakerStarts(p)
          \/ \E left \in {"dead", "absent"} : MuteStops(p, left)
          \/ \E left \in {"dead", "absent", "mute"} : MoonrakerFails(p, left)

AgentSpec == AgentInit /\ [][AgentNext]_agentVars

(* systemd starts the process again unless it was asked to stop            *)
(* (Restart=on-failure), the event loop runs what can run, and clients     *)
(* leave: api_request gives up after three seconds.  A monitor tries again *)
(* for ever, so a Moonraker that listens and answers is streamed in the    *)
(* end, as Reconnects of MoonrakerMonitor has it; of one that is mute      *)
(* nothing is assumed, because the monitor reads without a timeout.        *)
AgentFairness ==
    /\ WF_agentVars(~ended.asked /\ Start) /\ WF_agentVars(Serve)
    /\ \A p \in Printers : WF_agentVars(Retry(p))
    /\ \A p \in Printers : SF_agentVars(Stream(p))
    /\ WF_agentVars(CloseApi) /\ WF_agentVars(Flush) /\ WF_agentVars(Exit)
    /\ WF_agentVars(ClientLeaves)

AgentFairSpec == AgentSpec /\ AgentFairness

------------------------------------------------------------------------------
(* Properties. *)

(* Every variable keeps its shape, and only discovered printers have a     *)
(* monitor or a place in the document.                                     *)
AgentTypeOK ==
    /\ moonraker \in [Printers -> {"absent", "dead", "listening", "mute"}]
    /\ phase \in {"down", "inspecting", "serving", "closing", "flushing",
                  "ending"}
    /\ known \subseteq Printers /\ catalog \subseteq known
    /\ monitor \in [Printers -> {"none", "connecting", "streaming", "pausing",
                                 "finished"}]
    /\ memory \in [Printers -> Payloads \cup {Nothing}]
    /\ saved \in [Printers -> Payloads \cup {Nothing}]
    /\ clients \in 0..MaxClients
    /\ ended \in [how : {"never", "runs", "flushed", "unsaved", "killed"},
                  asked : BOOLEAN]
    /\ waits \in BOOLEAN
    /\ late \subseteq Printers
    /\ bounds \in [failures : Nat, kills : Nat, outages : Nat]
    /\ \A p \in Printers \ known : monitor[p] = "none" /\ memory[p] = Nothing

(* service.py:153-155, the end of a process that flushed.  If a monitor's   *)
(* failure ended it, the other monitors go on until asyncio.run cancels    *)
(* them, and what they report after the last write may be lost; nothing    *)
(* else is.  If an interrupt ended it, gather has cancelled them before,   *)
(* and nothing is lost at all.                                             *)
EndSaves ==
    phase = "down" /\ ended.how = "flushed" =>
        \A p \in Printers : saved[p] # memory[p] => p \in late /\ ~ended.asked

(* service.py:149: as long as the API serves, every discovered printer has *)
(* a monitor at work; none dies alone.                                     *)
NoMonitorMissing ==
    phase = "serving" =>
        \A p \in known : monitor[p] \in {"connecting", "streaming", "pausing"}

(* A printer that is there when the agent starts is streamed in the end,   *)
(* however often its connection, a write or the process fails, unless      *)
(* its Moonraker stops or falls silent behind its socket (monitor.py:45    *)
(* reads without a timeout), or the agent was asked to stop.               *)
KnownStreamed ==
    \A p \in Printers :
        moonraker[p] = "listening" /\ p \in known
            ~> ReportedConnected(p) \/ moonraker[p] # "listening" \/ ended.asked

(* A process that closes because a monitor failed is serving again in the  *)
(* end.                                                                    *)
ServesAgain ==
    phase = "closing" ~> phase = "serving" \/ Discovered = {} \/ ended.asked

==============================================================================
