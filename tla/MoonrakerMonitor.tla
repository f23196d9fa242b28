--------------------------- MODULE MoonrakerMonitor ---------------------------
(***************************************************************************)
(* One printer's monitor: monitor_forever (service.py) around snapshots()  *)
(* (monitor.py).  It connects to Moonraker, asks for the printer's         *)
(* objects, subscribes to them and merges the changes Moonraker pushes     *)
(* into a status that it reports; whatever goes wrong, it reports the      *)
(* printer as disconnected, pauses and connects again.                     *)
(*                                                                         *)
(* Moonraker is not part of the repository.  It is modelled as the monitor *)
(* must take it: it answers a request once, pushes the changes of what is  *)
(* subscribed, may push a change before the answer to the subscription,    *)
(* may send other notifications or garbage, forgets subscriptions when     *)
(* Klipper restarts, and may stop, or stop answering, at any time.         *)
(*                                                                         *)
(* A field stands for one field of one printer object, its value for a     *)
(* version of it; 0 is a field that is absent.                             *)
(***************************************************************************)
EXTENDS Naturals, Sequences

CONSTANTS
    Fields,
    Wanted,       \* the fields the agent has a use for
    MaxValue,     \* bound on the changes of a field
    MaxQueue,     \* bound on frames under way
    MaxTroubles   \* bound on the bad things Moonraker does

ASSUME MonitorAssumption ==
    /\ Wanted \subseteq Fields
    /\ MaxValue \in Nat \ {0}
    /\ MaxQueue \in Nat \ {0}
    /\ MaxTroubles \in Nat

VARIABLES
    phase,         \* where monitor_forever is
    requestId,     \* _request_id
    subscription,  \* what it subscribes to
    status,        \* the merged status of this connection
    entry,         \* its entry in the status document
    channel,       \* frames from Moonraker to the monitor
    running,       \* Moonraker accepts connections
    gone,          \* it has closed the monitor's connection
    request,       \* the request it has to answer, 0 for none
    answering,     \* the status it is about to answer with
    subscribed,    \* the fields it pushes
    available,     \* the fields its printer has
    printer,       \* their values
    mute,          \* it neither answers nor pushes
    troubles,
    missed,        \* history: why the monitor may lack a change
    atConnect      \* history: the printer when the connection was made

own == <<phase, requestId, subscription, status, entry>>
moonraker == <<running, gone, request, answering, subscribed, available,
               printer, mute, troubles>>
vars == <<own, channel, moonraker, missed, atConnect>>

Values == 0..MaxValue
Absent == [f \in Fields |-> 0]

(* The printer's values of some fields, absent elsewhere. *)
Of(fields) == [f \in Fields |-> IF f \in fields THEN printer[f] ELSE 0]

Message(kind, id) == [kind |-> kind, id |-> id, status |-> Absent, objects |-> {}]
ListAnswer == [Message("answer", 1) EXCEPT !.objects = available]
SubscribeAnswer == [Message("answer", 2) EXCEPT !.status = answering]
UpdateOf(f) == [Message("update", 0) EXCEPT !.status = [Absent EXCEPT ![f] = printer[f] + 1]]

Init ==
    /\ phase = "connect"
    /\ requestId = 0
    /\ subscription = {}
    /\ status = Absent
    /\ entry = [state |-> "none", status |-> Absent]
    /\ channel = <<>>
    /\ running \in BOOLEAN
    /\ gone = TRUE
    /\ request = 0
    /\ answering = Absent
    /\ subscribed = {}
    /\ available \in SUBSET Fields \ {{}}
    /\ printer = [f \in Fields |-> 1]
    /\ mute = FALSE
    /\ troubles = 0
    /\ missed = {}
    /\ atConnect = Absent

------------------------------------------------------------------------------
(* The monitor. *)

Waiting == {"list", "subscribe"}
Reading == Waiting \cup {"streaming"}
Arrived == phase \in Reading /\ channel # <<>>
Answers(message) == message.kind \in {"answer", "error"} /\ message.id = requestId

(* Definitions marked "defect:" are not part of the model: each is a       *)
(* variant of the definition after it with a plausible mistake in it.      *)

(* defect: the status of the last connection is built on *)
FreshStatusKept == status

FreshStatus == Absent

(* a new MoonrakerMonitor counts its requests from 1 *)
FirstRequest == 1

(* connect(), status = {}, and the first request *)
Connect ==
    /\ phase = "connect"
    /\ running
    /\ phase' = "list"
    /\ requestId' = FirstRequest
    /\ request' = requestId'
    /\ status' = FreshStatus
    /\ subscription' = {}
    /\ channel' = <<>>
    /\ gone' = FALSE
    /\ subscribed' = {}
    /\ answering' = Absent
    /\ missed' = {}
    /\ atConnect' = printer
    /\ UNCHANGED <<entry, running, available, printer, mute, troubles>>

(* the except clause of monitor_forever: the whole entry is replaced *)
ReportedLoss == [state |-> "disconnected", status |-> Absent]

(* monitor.close(), store.update, and the pause *)
Lose ==
    /\ phase' = "asleep"
    /\ entry' = ReportedLoss
    /\ gone' = TRUE
    /\ channel' = <<>>
    /\ request' = 0
    /\ subscribed' = {}
    /\ UNCHANGED <<requestId, subscription, status, running, answering,
                   available, printer, mute, troubles, missed, atConnect>>

ConnectFails == phase = "connect" /\ Lose

Retry ==
    /\ phase = "asleep"
    /\ phase' = "connect"
    /\ UNCHANGED <<requestId, subscription, status, entry, channel, moonraker,
                   missed, atConnect>>

(* request() drops every frame that is not its answer *)
SkipFrame ==
    /\ phase \in Waiting
    /\ Arrived
    /\ Head(channel).kind # "invalid"
    /\ ~Answers(Head(channel))
    /\ channel' = Tail(channel)
    /\ missed' = IF Head(channel).kind = "update" THEN missed \cup {"overtaken"}
                 ELSE missed
    /\ UNCHANGED <<own, moonraker, atConnect>>

(* CORE_OBJECTS, and whatever has the name of a sensor or a fan *)
SubscriptionFor(objects) == objects \cap Wanted

(* the list of objects: subscription_for, and the second request *)
ReadList ==
    /\ phase = "list"
    /\ Arrived
    /\ Answers(Head(channel)) /\ Head(channel).kind = "answer"
    /\ channel' = Tail(channel)
    /\ subscription' = SubscriptionFor(Head(channel).objects)
    /\ requestId' = requestId + 1
    /\ request' = requestId'
    /\ phase' = "subscribe"
    /\ UNCHANGED <<status, entry, running, gone, answering, subscribed,
                   available, printer, mute, troubles, missed, atConnect>>

(* defect: an update replaces the status *)
MergedReplace(current, update) == update

(* merge_status: the fields of an update replace those it names *)
Merged(current, update) ==
    [f \in Fields |-> IF update[f] # 0 THEN update[f] ELSE current[f]]

(* the snapshot is handed to the store at once *)
Report(update) ==
    /\ status' = Merged(status, update)
    /\ entry' = [state |-> "connected", status |-> status']

ReadStatus ==
    /\ phase = "subscribe"
    /\ Arrived
    /\ Answers(Head(channel)) /\ Head(channel).kind = "answer"
    /\ channel' = Tail(channel)
    /\ Report(Head(channel).status)
    /\ phase' = "streaming"
    /\ UNCHANGED <<requestId, subscription, moonraker, missed, atConnect>>

ReadUpdate ==
    /\ phase = "streaming"
    /\ Arrived
    /\ Head(channel).kind = "update"
    /\ channel' = Tail(channel)
    /\ Report(Head(channel).status)
    /\ UNCHANGED <<phase, requestId, subscription, moonraker, missed, atConnect>>

(* every other notification is ignored, Klipper's restart among them *)
IgnoreFrame ==
    /\ phase = "streaming"
    /\ Arrived
    /\ Head(channel).kind \notin {"update", "invalid"}
    /\ channel' = Tail(channel)
    /\ UNCHANGED <<own, moonraker, missed, atConnect>>

(* a frame that cannot be read, is too long or holds no usable status, or  *)
(* an error for an answer                                                  *)
ReadFailure ==
    /\ Arrived
    /\ \/ Head(channel).kind = "invalid"
       \/ phase \in Waiting /\ Answers(Head(channel)) /\ Head(channel).kind = "error"
    /\ Lose

(* defect: the end of the stream is waited out like silence *)
ReadEofNever == phase \in Waiting /\ channel = <<>> /\ gone /\ Lose

ReadEof == phase \in Reading /\ channel = <<>> /\ gone /\ Lose

------------------------------------------------------------------------------
(* Moonraker. *)

Push(message) == channel' = Append(channel, message)
CanSend == running /\ ~mute /\ ~gone /\ Len(channel) < MaxQueue
Trouble == troubles < MaxTroubles /\ troubles' = troubles + 1

AnswerList ==
    /\ CanSend /\ request = 1
    /\ request' = 0
    /\ Push(ListAnswer)
    /\ UNCHANGED <<own, running, gone, answering, subscribed, available,
                   printer, mute, troubles, missed, atConnect>>

(* the subscription is in force before its answer is sent *)
AcceptSubscription ==
    /\ CanSend /\ request = 2 /\ subscribed = {}
    /\ subscribed' = subscription \cap available
    /\ answering' = Of(subscribed')
    /\ UNCHANGED <<own, channel, running, gone, request, available, printer,
                   mute, troubles, missed, atConnect>>

AnswerSubscription ==
    /\ CanSend /\ request = 2
    /\ subscribed # {} \/ subscription \cap available = {}
       \/ "unsubscribed" \in missed
    /\ request' = 0
    /\ Push(SubscribeAnswer)
    /\ UNCHANGED <<own, running, gone, answering, subscribed, available,
                   printer, mute, troubles, missed, atConnect>>

(* a request that is refused *)
AnswerError ==
    /\ CanSend /\ request # 0
    /\ Trouble
    /\ request' = 0
    /\ Push(Message("error", request))
    /\ UNCHANGED <<own, running, gone, answering, subscribed, available,
                   printer, mute, missed, atConnect>>

(* a field changes; subscribers are told *)
Change(f) ==
    /\ f \in available
    /\ printer[f] < MaxValue
    /\ printer' = [printer EXCEPT ![f] = @ + 1]
    /\ \/ /\ f \in subscribed /\ CanSend
          /\ Push(UpdateOf(f))
          /\ UNCHANGED missed
       \/ /\ f \notin subscribed
          /\ UNCHANGED <<channel, missed>>
       \/ /\ f \in subscribed /\ mute
          /\ missed' = missed \cup {"mute"}
          /\ UNCHANGED channel
    /\ UNCHANGED <<own, running, gone, request, answering, subscribed,
                   available, mute, troubles, atConnect>>

(* notifications the monitor does not use, and frames it cannot *)
Disturb(kind) ==
    /\ CanSend
    /\ Trouble
    /\ Push(Message(kind, 0))
    /\ UNCHANGED <<own, running, gone, request, answering, subscribed,
                   available, printer, mute, missed, atConnect>>

(* Klipper comes back, perhaps with other objects; the connection stays    *)
KlipperRestart(fields) ==
    /\ CanSend
    /\ Trouble
    /\ available' = fields
    /\ subscribed' = {}
    /\ missed' = IF phase \in {"subscribe", "streaming"}
                 THEN missed \cup {"unsubscribed"} ELSE missed
    /\ Push(Message("other", 0))
    /\ UNCHANGED <<own, running, gone, request, answering, printer, mute,
                   atConnect>>

FallSilent ==
    /\ running /\ ~mute
    /\ Trouble
    /\ mute' = TRUE
    /\ UNCHANGED <<own, channel, running, gone, request, answering, subscribed,
                   available, printer, missed, atConnect>>

(* also an operator's answer to a mute Moonraker *)
Stop ==
    /\ running
    /\ running' = FALSE
    /\ mute' = FALSE
    /\ gone' = TRUE
    /\ request' = 0
    /\ subscribed' = {}
    /\ UNCHANGED <<own, channel, answering, available, printer, troubles,
                   missed, atConnect>>

Start ==
    /\ ~running
    /\ running' = TRUE
    /\ UNCHANGED <<own, channel, gone, request, answering, subscribed,
                   available, printer, mute, troubles, missed, atConnect>>

MonitorStep ==
    \/ Connect \/ ConnectFails \/ Retry
    \/ SkipFrame \/ ReadList \/ ReadStatus \/ ReadUpdate \/ IgnoreFrame
    \/ ReadFailure \/ ReadEof

MoonrakerAnswers == AnswerList \/ AcceptSubscription \/ AnswerSubscription

MoonrakerStep ==
    \/ MoonrakerAnswers \/ AnswerError
    \/ \E f \in Fields : Change(f)
    \/ \E kind \in {"other", "invalid"} : Disturb(kind)
    \/ \E fields \in SUBSET Fields \ {{}} : KlipperRestart(fields)
    \/ FallSilent \/ Stop \/ Start

Next == MonitorStep \/ MoonrakerStep

Spec == Init /\ [][Next]_vars

(* The event loop runs what can run and a connection to a listening        *)
(* Moonraker succeeds in the end (its open is retried).  A Moonraker that  *)
(* answers does so some time; it need not be fair in anything else.        *)
Fairness ==
    /\ WF_vars(MonitorStep)
    /\ SF_vars(Connect)
    /\ WF_vars(MoonrakerAnswers)

FairSpec == Spec /\ Fairness

------------------------------------------------------------------------------
(* Properties. *)

(* Every variable keeps its shape. *)
TypeOK ==
    /\ phase \in Reading \cup {"connect", "asleep"}
    /\ requestId \in 0..2
    /\ subscription \subseteq Fields
    /\ status \in [Fields -> Values]
    /\ entry \in [state : {"none", "connected", "disconnected"},
                  status : [Fields -> Values]]
    /\ Len(channel) <= MaxQueue
    /\ running \in BOOLEAN /\ gone \in BOOLEAN /\ mute \in BOOLEAN
    /\ request \in 0..2
    /\ answering \in [Fields -> Values]
    /\ subscribed \subseteq Fields /\ available \subseteq Fields
    /\ printer \in [Fields -> Values]
    /\ troubles \in Nat
    /\ missed \subseteq {"overtaken", "unsubscribed", "mute"}
    /\ atConnect \in [Fields -> Values]

(* A monitor that has read everything reports the printer as it is.  It    *)
(* does not when a change came before the answer to the subscription       *)
(* (monitor.py:47), when Klipper restarted on a connection that stayed     *)
(* (monitor.py:93: nobody subscribes again), or when Moonraker is mute.    *)
UpToDate ==
    phase = "streaming" /\ channel = <<>> /\ ~gone /\ missed = {} =>
        \A f \in subscription \cap available : entry.status[f] = printer[f]

(* monitor.py:72: a reported status has nothing in it from before its      *)
(* connection: no older value, and no object that is not there any more.   *)
NothingFromBefore ==
    phase = "streaming" =>
        \A f \in Fields :
            entry.status[f] # 0 =>
                f \in subscription /\ entry.status[f] >= atConnect[f]

(* service.py:118: when Moonraker has closed the connection, the printer   *)
(* is reported as disconnected some time later.                            *)
LossReported ==
    gone /\ entry.state = "connected" ~> entry.state = "disconnected"

(* The monitor is for ever back to streaming, unless Moonraker is stopped  *)
(* or mute.                                                                *)
Reconnects ==
    []<>((phase = "streaming" /\ ~gone) \/ ~running \/ mute)

==============================================================================
