------------------------- MODULE RelayConfiguration -------------------------
(***************************************************************************)
(* The relay side of enrollment: relay_configuration.py, class             *)
(* RelayConfigurationManager.  relay-config commands work on one directory *)
(* under a flock: the TLS material, the enrollment state with its pending  *)
(* challenges, and the receiver configuration with its device allowlist.   *)
(* A command reads what it needs when it gets the lock and then replaces   *)
(* the files one by one; it may die, or meet a full disk, before any of    *)
(* them.  The enrollment request it leaves for the operator is a file too. *)
(*                                                                         *)
(* A device stands for its key: the id is derived from the key, so two     *)
(* keys never share an id.  The devices' side is EnrollmentStore's; here a *)
(* device may answer any request it was given, at any later time.          *)
(***************************************************************************)
EXTENDS Naturals, Sequences, FiniteSets

CONSTANTS
    Commands,      \* relay-config processes
    Devices,
    Challenges,    \* challenge ids, each drawn at most once
    Nobody, NoDevice,
    MaxDevices,    \* longest device list RelayReceiverConfig.load accepts
    MaxCrashes     \* bound on commands that end before they are done

ASSUME ConfigurationAssumption ==
    /\ Nobody \notin Commands
    /\ NoDevice \notin Devices
    /\ IsFiniteSet(Devices)
    /\ MaxDevices \in Nat \ {0}
    /\ MaxCrashes \in Nat

VARIABLES
    lock,       \* who holds .configuration.lock
    files,      \* the files initialize has written
    pending,    \* pending_challenges of the state file, once it exists
    config,     \* the receiver configuration, once it exists
    requests,   \* challenges whose enrollment request has been written
    target,     \* the device each challenge was made for
    receipts,   \* challenges whose device has signed a receipt
    job,        \* what each command still has to do
    crashes,    \* commands that died
    told,       \* history: requests reported to the operator as created
    consumed,   \* history: challenges taken out of the state by an import
    added,      \* history: how often each receipt put its device on the list
    listed      \* history: devices reported as imported and not removed since

disk == <<files, pending, config, requests>>
history == <<told, consumed, added, listed>>
vars == <<lock, disk, target, receipts, job, crashes, history>>

TlsFiles == {"ca", "caKey", "cert", "key"}
Files == TlsFiles \cup {"state", "config"}
Config == [enabled : BOOLEAN, devices : SUBSET Devices]

Effect == [file : {"tls"}, content : TlsFiles]
          \cup [file : {"state"}, content : SUBSET Challenges]
          \cup [file : {"config"}, content : Config]
          \cup [file : {"request"}, content : Challenges]
Answer == [kind : {"none", "done", "refused"}]
          \cup [kind : {"request", "import"}, challenge : Challenges]
          \cup [kind : {"remove"}, device : Devices]

Done == [kind |-> "done"]
Refused == [kind |-> "refused"]
Idle == [plan |-> <<>>, answer |-> [kind |-> "none"]]

NewConfig == [enabled |-> FALSE, devices |-> {}]

To(file, content) == [file |-> file, content |-> content]

Init ==
    /\ lock = Nobody
    /\ files = {}
    /\ pending = {}
    /\ config = NewConfig
    /\ requests = {}
    /\ target = [c \in Challenges |-> NoDevice]
    /\ receipts = {}
    /\ job = [w \in Commands |-> Idle]
    /\ crashes = 0
    /\ told = {}
    /\ consumed = {}
    /\ added = [c \in Challenges |-> 0]
    /\ listed = {}

------------------------------------------------------------------------------
(* Taking the lock and deciding.  Definitions marked "defect:" are not     *)
(* part of the model: each is a variant of the definition after it with a  *)
(* plausible mistake in it.                                                *)

(* defect: the lock is shared *)
LockShared == TRUE

LockGranted == lock = Nobody

Start(w, plan, answer) ==
    /\ job[w] = Idle
    /\ LockGranted
    /\ lock' = w
    /\ job' = [job EXCEPT ![w] = [plan |-> plan, answer |-> answer]]
    /\ UNCHANGED <<disk, receipts, crashes, history>>

Refuse(w) == Start(w, <<>>, Refused) /\ UNCHANGED target

(* _load_state and _load_config succeed *)
StateLoads == "state" \in files
ConfigLoads == StateLoads /\ "config" \in files

(* what RelayReceiverConfig.load accepts of the candidate _save_config tries *)
Acceptable(cfg) ==
    /\ Cardinality(cfg.devices) <= MaxDevices
    /\ cfg.enabled => cfg.devices # {}

(* defect: the configuration is written before the state *)
InitializePlanConfigFirst ==
    <<To("tls", "ca"), To("tls", "caKey"), To("tls", "cert"), To("tls", "key"),
      To("config", NewConfig), To("state", {})>>

InitializePlan ==
    <<To("tls", "ca"), To("tls", "caKey"), To("tls", "cert"), To("tls", "key"),
      To("state", {}), To("config", NewConfig)>>

(* initialize refuses a directory with anything in it *)
Initialize(w) ==
    IF files = {}
    THEN Start(w, InitializePlan, Done) /\ UNCHANGED target
    ELSE Refuse(w)

(* defect: a relay remembers its latest challenge only *)
RequestPlanLatest(c) == <<To("request", c), To("state", {c})>>

(* the request file first, then the state that knows its challenge *)
RequestPlan(c) == <<To("request", c), To("state", pending \cup {c})>>

CreateEnrollmentRequest(w, c, d) ==
    /\ target[c] = NoDevice
    /\ StateLoads
    /\ target' = [target EXCEPT ![c] = d]
    /\ Start(w, RequestPlan(c), [kind |-> "request", challenge |-> c])

(* no state file, or an offer that is malformed, expired or would          *)
(* overwrite the output                                                    *)
RequestRefused(w) == Refuse(w)

(* the receipt names this relay, and its challenge is pending for that     *)
(* very device                                                             *)
Matches(c) == c \in receipts /\ c \in pending

WithDevice(c) == [config EXCEPT !.devices = @ \cup {target[c]}]

(* defect: a challenge is only taken out when the device was known *)
ImportPlanKeepsChallenge(c) ==
    IF target[c] \in config.devices
    THEN <<To("state", pending \ {c})>>
    ELSE <<To("config", WithDevice(c))>>

(* the allowlist first, when it changes, then the state *)
ImportPlan(c) ==
    IF target[c] \in config.devices
    THEN <<To("state", pending \ {c})>>
    ELSE <<To("config", WithDevice(c)), To("state", pending \ {c})>>

AddReceipt(w, c) ==
    /\ c \in receipts
    /\ IF ConfigLoads /\ Matches(c) /\ Acceptable(WithDevice(c))
       THEN /\ Start(w, ImportPlan(c), [kind |-> "import", challenge |-> c])
            /\ UNCHANGED target
       ELSE Refuse(w)

SetEnabled(w, enabled) ==
    IF ConfigLoads /\ (enabled => config.devices # {})
    THEN /\ Start(w, <<To("config", [config EXCEPT !.enabled = enabled])>>, Done)
         /\ UNCHANGED target
    ELSE Refuse(w)

RemoveDevice(w, d) ==
    IF /\ ConfigLoads
       /\ d \in config.devices
       /\ config.enabled => config.devices # {d}
    THEN /\ Start(w, <<To("config", [config EXCEPT !.devices = @ \ {d}])>>,
                  [kind |-> "remove", device |-> d])
         /\ UNCHANGED target
    ELSE Refuse(w)

Status(w) ==
    IF ConfigLoads THEN Start(w, <<>>, Done) /\ UNCHANGED target ELSE Refuse(w)

------------------------------------------------------------------------------
(* Carrying a command out. *)

NextIs(w, file) == job[w].plan # <<>> /\ Head(job[w].plan).file = file
Content(w) == Head(job[w].plan).content
Advance(w) == job' = [job EXCEPT ![w].plan = Tail(@)]
Imports(w) == job[w].answer.kind = "import"

WriteTls(w) ==
    /\ NextIs(w, "tls")
    /\ files' = files \cup {Content(w)}
    /\ Advance(w)
    /\ UNCHANGED <<lock, pending, config, requests, target, receipts, crashes,
                   history>>

WriteRequest(w) ==
    /\ NextIs(w, "request")
    /\ requests' = requests \cup {Content(w)}
    /\ Advance(w)
    /\ UNCHANGED <<lock, files, pending, config, target, receipts, crashes,
                   history>>

(* _write_private_json: a temporary file renamed over the old one *)
WriteState(w) ==
    /\ NextIs(w, "state")
    /\ pending' = Content(w)
    /\ files' = files \cup {"state"}
    /\ consumed' = IF Imports(w)
                   THEN consumed \cup {job[w].answer.challenge} ELSE consumed
    /\ Advance(w)
    /\ UNCHANGED <<lock, config, requests, target, receipts, crashes,
                   told, added, listed>>

(* _save_config: the checked candidate renamed over the configuration *)
WriteConfig(w) ==
    /\ NextIs(w, "config")
    /\ config' = Content(w)
    /\ files' = files \cup {"config"}
    /\ added' = IF Imports(w)
                THEN [added EXCEPT ![job[w].answer.challenge] = @ + 1]
                ELSE added
    /\ listed' = IF job[w].answer.kind = "remove"
                 THEN listed \ {job[w].answer.device} ELSE listed
    /\ Advance(w)
    /\ UNCHANGED <<lock, pending, requests, target, receipts, crashes,
                   told, consumed>>

(* the lock is released and the operator sees the result *)
Return(w) ==
    LET a == job[w].answer
    IN  /\ job[w] # Idle /\ job[w].plan = <<>>
        /\ lock' = Nobody
        /\ job' = [job EXCEPT ![w] = Idle]
        /\ told' = IF a.kind = "request" THEN told \cup {a.challenge} ELSE told
        /\ listed' = IF a.kind = "import"
                     THEN listed \cup {target[a.challenge]} ELSE listed
        /\ UNCHANGED <<disk, target, receipts, crashes, consumed, added>>

(* the command dies, or a write raises: the lock goes, the files stay *)
Crash(w) ==
    /\ job[w] # Idle
    /\ crashes < MaxCrashes
    /\ crashes' = crashes + 1
    /\ lock' = Nobody
    /\ job' = [job EXCEPT ![w] = Idle]
    /\ UNCHANGED <<disk, target, receipts, history>>

(* complete_relay_enrollment on the device the request was made for *)
DeviceSigns(c) ==
    /\ c \in requests
    /\ receipts' = receipts \cup {c}
    /\ UNCHANGED <<lock, disk, target, job, crashes, history>>

Decide(w) ==
    \/ Initialize(w)
    \/ \E c \in Challenges, d \in Devices : CreateEnrollmentRequest(w, c, d)
    \/ RequestRefused(w)
    \/ \E c \in Challenges : AddReceipt(w, c)
    \/ \E enabled \in BOOLEAN : SetEnabled(w, enabled)
    \/ \E d \in Devices : RemoveDevice(w, d)
    \/ Status(w)

Perform(w) ==
    WriteTls(w) \/ WriteRequest(w) \/ WriteState(w) \/ WriteConfig(w) \/ Return(w)

Next ==
    \/ \E w \in Commands : Decide(w) \/ Perform(w) \/ Crash(w)
    \/ \E c \in Challenges : DeviceSigns(c)

Spec == Init /\ [][Next]_vars

------------------------------------------------------------------------------
(* Properties. *)

(* Every variable keeps its shape. *)
TypeOK ==
    /\ lock \in Commands \cup {Nobody}
    /\ files \subseteq Files
    /\ pending \subseteq Challenges
    /\ config \in Config
    /\ requests \subseteq Challenges
    /\ target \in [Challenges -> Devices \cup {NoDevice}]
    /\ receipts \subseteq Challenges
    /\ job \in [Commands -> [plan : Seq(Effect), answer : Answer]]
    /\ crashes \in Nat
    /\ told \subseteq Challenges
    /\ consumed \subseteq Challenges
    /\ added \in [Challenges -> Nat]
    /\ listed \subseteq Devices

(* The receiver can always load what is on disk (relay_receiver.py:112-116 *)
(* and the TLS files it opens), wherever initialize or any other command   *)
(* was interrupted: the configuration is the last file to appear, it never *)
(* has too many devices, and none only while it is disabled.               *)
AlwaysLoadable ==
    "config" \in files =>
        /\ files = Files
        /\ Cardinality(config.devices) <= MaxDevices
        /\ config.enabled => config.devices # {}

(* What a command has reported stays true until another one is asked to    *)
(* undo it: a request stays answerable until its receipt is imported, an   *)
(* imported device stays listed until it is removed.  No other command's   *)
(* write of the whole document loses them.                                 *)
ReportedIsKept ==
    /\ told \ consumed \subseteq pending
    /\ listed \subseteq config.devices

(* SECURITY.md:16: the pending challenge is one-time, so a receipt puts    *)
(* its device on the allowlist once.  A command that dies between the two  *)
(* files (relay_configuration.py:492) leaves the challenge of its receipt  *)
(* pending, and each that does so lets a receipt be used once more, after  *)
(* a removal; nothing else does.                                           *)
OneMoreUsePerCrash == \A c \in Challenges : added[c] <= 1 + crashes

(* SECURITY.md:15: a device enters the allowlist only through its signed   *)
(* receipt for a challenge that is pending at that moment, so a removed    *)
(* device does not come back with a stale copy of the list. A consequence  *)
(* of ImplementsRelayLedger, below.                                        *)
EntersOnlyByReceipt ==
    [][\A d \in config'.devices \ config.devices :
          \E c \in receipts : target[c] = d /\ c \in pending]_vars

(* The two files, each replaced as a whole by commands that may die        *)
(* between the two, act as a RelayLedger: one challenge or one device at a *)
(* time changes, no other is brought back or lost, and a challenge whose   *)
(* receipt was taken is never pending again.                               *)
Ledger == INSTANCE RelayLedger WITH allowed <- config.devices

ImplementsRelayLedger == Ledger!Spec

==============================================================================
