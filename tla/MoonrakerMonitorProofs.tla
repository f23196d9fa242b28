------------------------ MODULE MoonrakerMonitorProofs ------------------------
(***************************************************************************)
(* Proofs about MoonrakerMonitor, for any fields and any bounds.           *)
(*                                                                         *)
(* That a monitor which has read everything shows the printer as it is     *)
(* says nothing of a channel with frames in it, so it is no induction      *)
(* hypothesis.  CaughtUp is: applied in order, what is in the channel      *)
(* brings the status to the printer's values, in every phase from the      *)
(* subscription on.                                                        *)
(***************************************************************************)
EXTENDS MoonrakerMonitor, SequenceTheorems, TLAPS

Kinds == {"answer", "error", "update", "other", "invalid"}
Messages == [kind : Kinds, id : 0..2, status : [Fields -> Values],
             objects : SUBSET Fields]
IsReply(message) == message.kind \in {"answer", "error"}

(* Only an answer and an update say something of the printer. *)
ChannelOK ==
    /\ channel \in Seq(Messages)
    /\ \A i \in DOMAIN channel :
          channel[i].kind \in {"error", "other", "invalid"}
              => channel[i].status = Absent

(* One request at a time is open, and one reply to it at most is under way. *)
OneReply ==
    /\ \A i, j \in DOMAIN channel :
          IsReply(channel[i]) /\ IsReply(channel[j]) => i = j
    /\ request # 0 => \A i \in DOMAIN channel : ~IsReply(channel[i])

(* Where the exchange is in each phase. *)
Exchange ==
    /\ phase \notin Reading =>
          channel = <<>> /\ gone /\ subscribed = {} /\ request = 0
    /\ phase = "list" =>
          /\ requestId = 1 /\ request \in {0, 1}
          /\ subscription = {} /\ subscribed = {}
    /\ phase = "subscribe" => requestId = 2 /\ request \in {0, 2}
    /\ phase = "streaming" =>
          /\ request = 0
          /\ \A i \in DOMAIN channel : ~IsReply(channel[i])

(* A value is of this connection when it is of a field subscribed to and   *)
(* not older than the connection.                                          *)
OfThisConnection(values) ==
    \A f \in Fields : values[f] # 0 => f \in subscription
                                       /\ values[f] >= atConnect[f]

Current ==
    /\ OfThisConnection(status)
    /\ OfThisConnection(answering)
    /\ \A i \in DOMAIN channel : OfThisConnection(channel[i].status)
    /\ \A f \in Fields : printer[f] >= atConnect[f] /\ printer[f] >= 1
    /\ subscribed \subseteq subscription

(* What is reported is what was merged. *)
Reported == phase = "streaming" => entry.status = status

(* Frame k is the last one from i on that says something of f. *)
LastFrom(f, i, k) ==
    /\ k \in DOMAIN channel /\ i <= k
    /\ channel[k].status[f] # 0
    /\ \A j \in DOMAIN channel : j > k => channel[j].status[f] = 0

(* Applied from frame i on, the channel brings f to the printer's value. *)
Leads(f, i) ==
    \/ \E k \in DOMAIN channel : /\ LastFrom(f, i, k)
                                 /\ channel[k].status[f] = printer[f]
    \/ /\ status[f] = printer[f]
       /\ \A j \in DOMAIN channel : j >= i => channel[j].status[f] = 0

(* A change is under way that comes before frame i; it will be dropped. *)
Overtaken(i) ==
    \E j \in DOMAIN channel : j < i /\ channel[j].kind = "update"

Followed == subscription \cap available

(* The subscription is accepted: what will be answered is as it is, or the *)
(* changes since then are ahead of the answer.                             *)
Accepted ==
    phase = "subscribe" /\ request = 2 /\ subscribed # {} =>
        /\ subscribed = Followed
        /\ \/ Overtaken(Len(channel) + 1)
           \/ \A f \in Followed : answering[f] = printer[f]

(* The answer is under way. *)
Answered ==
    phase = "subscribe" =>
        \A i \in DOMAIN channel : channel[i].kind = "answer" =>
            /\ subscribed = Followed
            /\ Overtaken(i) \/ \A f \in Followed : Leads(f, i)

(* The answer has been read. *)
Following ==
    phase = "streaming" =>
        /\ subscribed = Followed
        /\ \A f \in Followed : Leads(f, 1)

CaughtUp == missed = {} /\ ~gone => Accepted /\ Answered /\ Following

IndInv ==
    /\ TypeOK
    /\ ChannelOK
    /\ OneReply
    /\ Exchange
    /\ Current
    /\ Reported
    /\ CaughtUp

------------------------------------------------------------------------------
(* Frames. *)

(* The frames Moonraker sends are messages, and only an answer and an      *)
(* update say something.                                                   *)
LEMMA MessageFacts ==
    /\ \A kind \in Kinds, id \in 0..2 :
          /\ Message(kind, id) \in Messages
          /\ Message(kind, id).kind = kind
          /\ Message(kind, id).status = Absent
    /\ available \subseteq Fields =>
          /\ ListAnswer \in Messages /\ ListAnswer.kind = "answer"
          /\ ListAnswer.status = Absent
    /\ answering \in [Fields -> Values] =>
          /\ SubscribeAnswer \in Messages /\ SubscribeAnswer.kind = "answer"
          /\ SubscribeAnswer.status = answering
  <1>1. Absent \in [Fields -> Values]
    BY MonitorAssumption DEF Absent, Values
  <1> QED
    BY <1>1
    DEF Message, Messages, Kinds, ListAnswer, SubscribeAnswer

(* An update speaks of one field. *)
LEMMA UpdateFacts ==
    ASSUME NEW f \in Fields, printer \in [Fields -> Values],
           printer[f] < MaxValue
    PROVE  /\ UpdateOf(f) \in Messages /\ UpdateOf(f).kind = "update"
           /\ UpdateOf(f).status[f] = printer[f] + 1
           /\ \A g \in Fields \ {f} : UpdateOf(f).status[g] = 0
  <1>1. Absent \in [Fields -> Values]
    BY MonitorAssumption DEF Absent, Values
  <1>2. printer[f] + 1 \in Values
    BY MonitorAssumption DEF Values
  <1> DEFINE new == [Absent EXCEPT ![f] = printer[f] + 1]
  <1>3. /\ new \in [Fields -> Values] /\ new[f] = printer[f] + 1
        /\ \A g \in Fields \ {f} : new[g] = 0
    BY <1>1, <1>2 DEF Absent
  <1> HIDE DEF new
  <1>4. UpdateOf(f) = [Message("update", 0) EXCEPT !.status = new]
    BY DEF UpdateOf, new
  <1> QED
    BY <1>1, <1>3, <1>4 DEF Message, Messages, Kinds

(* A frame is appended. *)
LEMMA PushFacts ==
    ASSUME channel \in Seq(Messages), NEW m \in Messages, Push(m)
    PROVE  /\ channel' \in Seq(Messages)
           /\ Len(channel) \in Nat /\ Len(channel') = Len(channel) + 1
           /\ DOMAIN channel = 1..Len(channel)
           /\ DOMAIN channel' = 1..(Len(channel) + 1)
           /\ channel'[Len(channel) + 1] = m
           /\ \A i \in DOMAIN channel : channel'[i] = channel[i]
  BY DEF Push

(* The first frame is taken off. *)
LEMMA TakeFacts ==
    ASSUME channel \in Seq(Messages), channel # <<>>, channel' = Tail(channel)
    PROVE  /\ channel' \in Seq(Messages)
           /\ Len(channel) \in Nat /\ Len(channel) >= 1
           /\ Len(channel') = Len(channel) - 1
           /\ 1 \in DOMAIN channel /\ Head(channel) = channel[1]
           /\ DOMAIN channel = 1..Len(channel)
           /\ DOMAIN channel' = 1..(Len(channel) - 1)
           /\ \A i \in DOMAIN channel' : /\ channel'[i] = channel[i + 1]
                                         /\ i + 1 \in DOMAIN channel
  OBVIOUS

(* A frame that says nothing of a field changes nothing for it. *)
LEMMA LeadsPush ==
    ASSUME channel \in Seq(Messages), NEW m \in Messages, Push(m),
           NEW f \in Fields, NEW i \in Nat, m.status[f] = 0,
           printer'[f] = printer[f], status' = status, Leads(f, i)
    PROVE  Leads(f, i)'
  <1>1. \A j \in DOMAIN channel' :
           \/ j \in DOMAIN channel /\ channel'[j] = channel[j]
           \/ channel'[j].status[f] = 0
    BY PushFacts
  <1>2. \A j \in DOMAIN channel : j \in DOMAIN channel' /\ channel'[j] = channel[j]
    BY PushFacts
  <1>3. CASE \E k \in DOMAIN channel : LastFrom(f, i, k)
                                       /\ channel[k].status[f] = printer[f]
    <2>1. PICK k \in DOMAIN channel : LastFrom(f, i, k)
                                      /\ channel[k].status[f] = printer[f]
      BY <1>3
    <2>2. k \in DOMAIN channel' /\ LastFrom(f, i, k)'
          /\ channel'[k].status[f] = printer'[f]
      BY <1>1, <1>2, <2>1 DEF LastFrom
    <2> QED
      BY <2>2 DEF Leads
  <1>4. CASE /\ status[f] = printer[f]
             /\ \A j \in DOMAIN channel : j >= i => channel[j].status[f] = 0
    BY <1>1, <1>4 DEF Leads
  <1> QED
    BY <1>3, <1>4 DEF Leads

(* A change that is pushed is the last word on its field. *)
LEMMA LeadsChange ==
    ASSUME channel \in Seq(Messages), NEW m \in Messages, Push(m),
           NEW f \in Fields, NEW i \in Nat, i <= Len(channel) + 1,
           m.status[f] = printer'[f], m.status[f] # 0
    PROVE  Leads(f, i)'
  <1>0. PICK k : k = Len(channel) + 1
    OBVIOUS
  <1>1. k \in DOMAIN channel' /\ channel'[k] = m /\ i <= k
        /\ \A j \in DOMAIN channel' : ~(j > k)
    BY <1>0, PushFacts
  <1>2. LastFrom(f, i, k)'
    BY <1>1 DEF LastFrom
  <1> QED
    BY <1>1, <1>2 DEF Leads

(* A frame ahead of those that matter is dropped. *)
LEMMA LeadsDrop ==
    ASSUME channel \in Seq(Messages), channel # <<>>, channel' = Tail(channel),
           NEW f \in Fields, NEW i \in Nat,
           i >= 1, Leads(f, i + 1), printer' = printer, status' = status
    PROVE  Leads(f, i)'
  <1>1. CASE \E k \in DOMAIN channel : LastFrom(f, i + 1, k)
                                       /\ channel[k].status[f] = printer[f]
    <2>1. PICK k \in DOMAIN channel : LastFrom(f, i + 1, k)
                                      /\ channel[k].status[f] = printer[f]
      BY <1>1
    <2>2. /\ k - 1 \in DOMAIN channel' /\ channel'[k - 1] = channel[k]
          /\ k - 1 \in Nat /\ i <= k - 1
      BY <2>1, TakeFacts DEF LastFrom
    <2>3. \A j \in DOMAIN channel' : j > k - 1 => channel'[j].status[f] = 0
      BY <2>1, TakeFacts DEF LastFrom
    <2>4. LastFrom(f, i, k - 1)' /\ channel'[k - 1].status[f] = printer'[f]
      BY <2>1, <2>2, <2>3 DEF LastFrom
    <2> QED
      BY <2>2, <2>4 DEF Leads
  <1>2. CASE /\ status[f] = printer[f]
             /\ \A j \in DOMAIN channel : j >= i + 1 => channel[j].status[f] = 0
    <2>1. \A j \in DOMAIN channel' : j >= i => channel'[j].status[f] = 0
      BY <1>2, TakeFacts
    <2> QED
      BY <1>2, <2>1 DEF Leads
  <1> QED
    BY <1>1, <1>2 DEF Leads

(* The first frame is merged into the status. *)
LEMMA LeadsMerge ==
    ASSUME channel \in Seq(Messages), channel # <<>>, channel' = Tail(channel),
           NEW f \in Fields, Leads(f, 1), printer' = printer,
           status'[f] = IF Head(channel).status[f] # 0
                        THEN Head(channel).status[f] ELSE status[f]
    PROVE  Leads(f, 1)'
  <1>1. CASE \E k \in DOMAIN channel : /\ LastFrom(f, 1, k) /\ k # 1
                                       /\ channel[k].status[f] = printer[f]
    <2>1. PICK k \in DOMAIN channel : /\ LastFrom(f, 1, k) /\ k # 1
                                      /\ channel[k].status[f] = printer[f]
      BY <1>1
    <2>2. /\ k - 1 \in DOMAIN channel' /\ channel'[k - 1] = channel[k]
          /\ k - 1 \in Nat /\ 1 <= k - 1
      BY <2>1, TakeFacts DEF LastFrom
    <2>3. \A j \in DOMAIN channel' : j > k - 1 => channel'[j].status[f] = 0
      BY <2>1, TakeFacts DEF LastFrom
    <2>4. LastFrom(f, 1, k - 1)' /\ channel'[k - 1].status[f] = printer'[f]
      BY <2>1, <2>2, <2>3 DEF LastFrom
    <2> QED
      BY <2>2, <2>4 DEF Leads
  <1>2. CASE LastFrom(f, 1, 1) /\ channel[1].status[f] = printer[f]
    <2>1. \A j \in DOMAIN channel' : channel'[j].status[f] = 0
      BY <1>2, TakeFacts DEF LastFrom
    <2>2. status'[f] = printer'[f]
      BY <1>2, TakeFacts DEF LastFrom
    <2> QED
      BY <2>1, <2>2 DEF Leads
  <1>3. CASE /\ status[f] = printer[f]
             /\ \A j \in DOMAIN channel : j >= 1 => channel[j].status[f] = 0
    <2>1. \A j \in DOMAIN channel' : channel'[j].status[f] = 0
      BY <1>3, TakeFacts
    <2>2. status'[f] = printer'[f]
      BY <1>3, TakeFacts
    <2> QED
      BY <2>1, <2>2 DEF Leads
  <1> QED
    BY <1>1, <1>2, <1>3 DEF Leads

------------------------------------------------------------------------------
(* What the steps have in common. *)

(* A frame is pushed: a reply to the open request, or something else. *)
LEMMA PushKeeps ==
    ASSUME IndInv, CanSend, NEW m \in Messages, Push(m),
           m.kind \in {"error", "other", "invalid"} => m.status = Absent,
           OfThisConnection(m.status),
           IsReply(m) => request # 0 /\ request' = 0,
           ~IsReply(m) => request' = request,
           phase = "list" => subscribed' = {},
           own' = own, atConnect' = atConnect
    PROVE  /\ ChannelOK' /\ OneReply' /\ Exchange' /\ Reported'
           /\ Len(channel') <= MaxQueue
           /\ \A i \in DOMAIN channel' : OfThisConnection(channel[i].status)'
  <1>1. /\ channel \in Seq(Messages) /\ ~gone /\ Len(channel) < MaxQueue
        /\ MaxQueue \in Nat
    BY MonitorAssumption DEF IndInv, ChannelOK, CanSend
  <1>2. \A i \in DOMAIN channel' :
           \/ i \in DOMAIN channel /\ channel'[i] = channel[i]
           \/ i = Len(channel) + 1 /\ channel'[i] = m
    BY <1>1, PushFacts
  <1>3. /\ channel' \in Seq(Messages) /\ Len(channel') <= MaxQueue
        /\ Len(channel) + 1 \notin DOMAIN channel
    BY <1>1, PushFacts
  <1>4. ChannelOK'
    BY <1>2, <1>3 DEF IndInv, ChannelOK, Absent
  <1>5. OneReply'
    BY <1>2 DEF IndInv, OneReply, IsReply
  <1>6. Exchange'
    <2>1. phase \in Reading
      BY <1>1 DEF IndInv, Exchange
    <2> QED
      BY <1>2, <2>1 DEF IndInv, Exchange, IsReply, own, Reading, Waiting
  <1>7. \A i \in DOMAIN channel' : OfThisConnection(channel[i].status)'
    BY <1>2 DEF IndInv, Current, OfThisConnection, own
  <1>8. Reported'
    BY DEF IndInv, Reported, own
  <1> QED
    BY <1>3, <1>4, <1>5, <1>6, <1>7, <1>8

(* A frame is taken off. *)
LEMMA TakeKeeps ==
    ASSUME IndInv, channel # <<>>, channel' = Tail(channel)
    PROVE  /\ ChannelOK' /\ Len(channel') <= MaxQueue
           /\ \A i, j \in DOMAIN channel' :
                 IsReply(channel'[i]) /\ IsReply(channel'[j]) => i = j
           /\ request # 0 \/ phase = "streaming" \/ IsReply(Head(channel))
                 => \A i \in DOMAIN channel' : ~IsReply(channel'[i])
           /\ \A i \in DOMAIN channel' : OfThisConnection(channel'[i].status)
           /\ Head(channel) \in Messages
           /\ OfThisConnection(Head(channel).status)
  <1>1. channel \in Seq(Messages) /\ Len(channel) <= MaxQueue /\ MaxQueue \in Nat
    BY MonitorAssumption DEF IndInv, ChannelOK, TypeOK
  <1>2. /\ Len(channel') <= MaxQueue /\ channel' \in Seq(Messages)
        /\ Head(channel) = channel[1] /\ 1 \in DOMAIN channel
        /\ \A i \in DOMAIN channel' : /\ channel'[i] = channel[i + 1]
                                      /\ i + 1 \in DOMAIN channel
                                      /\ i \in Nat /\ i >= 1
    BY <1>1, TakeFacts
  <1>3. ChannelOK'
    BY <1>2 DEF IndInv, ChannelOK, Absent
  <1>4. \A i, j \in DOMAIN channel' :
           IsReply(channel'[i]) /\ IsReply(channel'[j]) => i = j
    <2>1. \A i, j \in DOMAIN channel' :
             IsReply(channel'[i]) /\ IsReply(channel'[j]) => i + 1 = j + 1
      BY <1>2 DEF IndInv, OneReply
    <2> QED
      BY <1>2, <2>1
  <1>5. request # 0 \/ phase = "streaming" =>
           \A i \in DOMAIN channel' : ~IsReply(channel'[i])
    BY <1>2 DEF IndInv, OneReply, Exchange
  <1>6. ASSUME IsReply(Head(channel)), NEW i \in DOMAIN channel',
               IsReply(channel'[i])
        PROVE  FALSE
    <2>1. i + 1 = 1
      BY <1>2, <1>6 DEF IndInv, OneReply
    <2> QED
      BY <1>2, <2>1
  <1>7. \A i \in DOMAIN channel' : OfThisConnection(channel'[i].status)
    BY <1>2 DEF IndInv, Current
  <1>8. Head(channel) \in Messages /\ OfThisConnection(Head(channel).status)
    <2>1. channel[1] \in Messages
      BY <1>1, <1>2
    <2> QED
      BY <1>2, <2>1 DEF IndInv, Current
  <1> QED
    BY <1>2, <1>3, <1>4, <1>5, <1>6, <1>7, <1>8

(* A frame that says nothing is pushed and nothing else changes for the    *)
(* monitor: it is as caught up as it was.                                  *)
LEMMA QuietPush ==
    ASSUME IndInv, NEW m \in Messages, Push(m), m.status = Absent,
           phase # "list" => m.kind # "answer",
           request' \in {request, 0},
           UNCHANGED <<own, gone, answering, subscribed, available, printer,
                       missed>>
    PROVE  CaughtUp'
  <1>1. channel \in Seq(Messages)
    BY DEF IndInv, ChannelOK
  <1>2. \A f \in Fields : m.status[f] = 0
    BY DEF Absent
  <1>3. \A f \in Fields, i \in Nat : Leads(f, i) => Leads(f, i)'
    BY <1>1, <1>2, LeadsPush DEF own
  <1>4. Followed' = Followed
    BY DEF Followed, own
  <1>5. /\ \A i \in DOMAIN channel : channel'[i] = channel[i] /\ i \in Nat
        /\ \A i \in DOMAIN channel : i \in DOMAIN channel'
        /\ \A i \in DOMAIN channel' : \/ i \in DOMAIN channel
                                      \/ channel'[i].kind = m.kind
        /\ Len(channel') = Len(channel) + 1 /\ Len(channel) \in Nat
    BY <1>1, PushFacts
  <1>6. \A i \in Nat : Overtaken(i) => Overtaken(i)'
    BY <1>5 DEF Overtaken
  <1>7. Overtaken(Len(channel) + 1) => Overtaken(Len(channel) + 1)'
    <2>1. \A j \in DOMAIN channel : j < Len(channel) + 1 => j < Len(channel') + 1
      BY <1>5
    <2> QED
      BY <1>5, <2>1 DEF Overtaken
  <1> SUFFICES ASSUME missed = {}, ~gone
               PROVE  Accepted' /\ Answered' /\ Following'
    BY DEF CaughtUp
  <1>8. Accepted /\ Answered /\ Following
    BY DEF IndInv, CaughtUp
  <1>9. Accepted'
    BY <1>4, <1>7, <1>8 DEF Accepted, own
  <1>10. Answered'
    <2> SUFFICES ASSUME phase = "subscribe", NEW i \in DOMAIN channel',
                        channel'[i].kind = "answer"
                 PROVE  /\ subscribed' = Followed'
                        /\ Overtaken(i)' \/ \A f \in Followed' : Leads(f, i)'
      BY DEF Answered, own
    <2>1. i \in DOMAIN channel /\ channel[i].kind = "answer" /\ i \in Nat
      BY <1>5
    <2>2. Followed \subseteq Fields
      BY DEF Followed, IndInv, TypeOK
    <2> QED
      BY <1>3, <1>4, <1>6, <1>8, <2>1, <2>2 DEF Answered
  <1>11. Following'
    <2>1. Followed \subseteq Fields
      BY DEF Followed, IndInv, TypeOK
    <2> QED
      BY <1>3, <1>4, <1>8, <2>1 DEF Following, own
  <1> QED
    BY <1>9, <1>10, <1>11

------------------------------------------------------------------------------
(* The monitor. *)

(* A new connection: nothing of the last one is left. *)
LEMMA ConnectStep ==
    ASSUME IndInv, Connect
    PROVE  IndInv'
  <1>1. /\ phase' = "list" /\ requestId' = 1 /\ request' = 1
        /\ status' = Absent /\ subscription' = {} /\ channel' = <<>>
        /\ gone' = FALSE /\ subscribed' = {} /\ answering' = Absent
        /\ missed' = {}
        /\ atConnect' = printer
        /\ UNCHANGED <<entry, running, available, printer, mute, troubles>>
    BY DEF Connect, FirstRequest, FreshStatus
  <1>2. Absent \in [Fields -> Values] /\ MaxQueue \in Nat
    BY MonitorAssumption DEF Absent, Values
  <1>3. printer \in [Fields -> Values] /\ \A f \in Fields : printer[f] \in Nat
    BY MonitorAssumption DEF IndInv, TypeOK, Values
  <1>4. TypeOK'
    <2>1. Len(channel') <= MaxQueue
      BY <1>1, <1>2
    <2>2. /\ entry' \in [state : {"none", "connected", "disconnected"},
                         status : [Fields -> Values]]
          /\ running' \in BOOLEAN /\ mute' \in BOOLEAN
          /\ available' \subseteq Fields /\ troubles' \in Nat
          /\ printer' \in [Fields -> Values]
      BY <1>1 DEF IndInv, TypeOK
    <2>3. /\ status' \in [Fields -> Values] /\ answering' \in [Fields -> Values]
          /\ atConnect' \in [Fields -> Values]
      BY <1>1, <1>2, <1>3
    <2>4. /\ requestId' \in 0..2 /\ request' \in 0..2
          /\ subscription' \subseteq Fields /\ subscribed' \subseteq Fields
          /\ missed' \subseteq {"overtaken", "unsubscribed", "mute"}
          /\ phase' \in Reading \cup {"connect", "asleep"}
      BY <1>1 DEF Reading, Waiting
    <2>5. gone' \in BOOLEAN
      BY <1>1
    <2> QED
      BY <2>1, <2>2, <2>3, <2>4, <2>5 DEF TypeOK
  <1>5. ChannelOK' /\ OneReply' /\ Exchange' /\ Reported'
    BY <1>1 DEF ChannelOK, OneReply, Exchange, Reported, Reading, Waiting
  <1>6. Current'
    BY <1>1, <1>3 DEF IndInv, Current, OfThisConnection, Absent
  <1>7. CaughtUp'
    BY <1>1 DEF CaughtUp, Accepted, Answered, Following
  <1> QED
    BY <1>4, <1>5, <1>6, <1>7 DEF IndInv

(* The connection is given up and the loss reported. *)
LEMMA LoseStep ==
    ASSUME IndInv, Lose
    PROVE  IndInv'
  <1>1. /\ phase' = "asleep" /\ entry' = ReportedLoss /\ gone'
        /\ channel' = <<>> /\ request' = 0 /\ subscribed' = {}
        /\ UNCHANGED <<requestId, subscription, status, running, answering,
                       available, printer, mute, troubles, missed, atConnect>>
    BY DEF Lose
  <1>2. Absent \in [Fields -> Values] /\ MaxQueue \in Nat
    BY MonitorAssumption DEF Absent, Values
  <1>3. TypeOK'
    <2>1. Len(channel') <= MaxQueue
      BY <1>1, <1>2
    <2>2. entry' \in [state : {"none", "connected", "disconnected"},
                      status : [Fields -> Values]]
      BY <1>1, <1>2 DEF ReportedLoss
    <2> QED
      BY <1>1, <2>1, <2>2 DEF IndInv, TypeOK, Reading, Waiting
  <1>4. ChannelOK' /\ OneReply' /\ Exchange' /\ Reported'
    BY <1>1 DEF ChannelOK, OneReply, Exchange, Reported, Reading, Waiting
  <1>5. Current'
    BY <1>1 DEF IndInv, Current, OfThisConnection
  <1>6. CaughtUp'
    BY <1>1 DEF CaughtUp
  <1> QED
    BY <1>3, <1>4, <1>5, <1>6 DEF IndInv

(* The pause is over. *)
LEMMA RetryStep ==
    ASSUME IndInv, Retry
    PROVE  IndInv'
  <1>1. /\ phase = "asleep" /\ phase' = "connect"
        /\ UNCHANGED <<requestId, subscription, status, entry, channel,
                       moonraker, missed, atConnect>>
    BY DEF Retry
  <1>2. TypeOK'
    BY <1>1 DEF IndInv, TypeOK, moonraker, Reading, Waiting
  <1>3. ChannelOK' /\ OneReply' /\ Exchange' /\ Reported' /\ Current'
    BY <1>1
    DEF IndInv, ChannelOK, OneReply, Exchange, Reported, Current,
        OfThisConnection, moonraker, Reading, Waiting
  <1>4. CaughtUp'
    BY <1>1 DEF IndInv, CaughtUp, Accepted, Answered, Following, moonraker
  <1> QED
    BY <1>2, <1>3, <1>4 DEF IndInv

(* A frame that is not the answer is dropped: a change with it. *)
LEMMA SkipFrameStep ==
    ASSUME IndInv, SkipFrame
    PROVE  IndInv'
  <1>1. /\ phase \in {"list", "subscribe"} /\ channel # <<>>
        /\ channel' = Tail(channel) /\ ~Answers(Head(channel))
        /\ Head(channel).kind # "invalid"
        /\ missed' = IF Head(channel).kind = "update"
                     THEN missed \cup {"overtaken"} ELSE missed
        /\ UNCHANGED <<own, moonraker, atConnect>>
    BY DEF SkipFrame, Arrived, Waiting
  <1>2. channel \in Seq(Messages)
    BY DEF IndInv, ChannelOK
  <1>3. TypeOK'
    <2>1. missed' \subseteq {"overtaken", "unsubscribed", "mute"}
      BY <1>1 DEF IndInv, TypeOK
    <2>2. Len(channel') <= MaxQueue
      BY <1>1, TakeKeeps
    <2> QED
      BY <1>1, <2>1, <2>2 DEF IndInv, TypeOK, own, moonraker
  <1>4. ChannelOK' /\ Reported'
    BY <1>1, TakeKeeps DEF IndInv, Reported, own
  <1>5. OneReply'
    BY <1>1, TakeKeeps DEF OneReply, moonraker
  <1>6. Exchange'
    BY <1>1, TakeKeeps
    DEF IndInv, Exchange, own, moonraker, Reading, Waiting
  <1>7. Current'
    <2>1. \A i \in DOMAIN channel' : OfThisConnection(channel'[i].status)
      BY <1>1, TakeKeeps
    <2> QED
      BY <1>1, <2>1 DEF IndInv, Current, OfThisConnection, own, moonraker
  <1>8. CaughtUp'
    <2> SUFFICES ASSUME missed' = {}, ~gone'
                 PROVE  Accepted' /\ Answered' /\ Following'
      BY DEF CaughtUp
    <2>1. /\ missed = {} /\ ~gone /\ Head(channel).kind # "update"
          /\ Accepted /\ Answered
      BY <1>1 DEF IndInv, CaughtUp, moonraker
    <2>2. /\ 1 \in DOMAIN channel /\ channel[1] = Head(channel)
          /\ DOMAIN channel = 1..Len(channel) /\ Len(channel) \in Nat
          /\ DOMAIN channel' = 1..Len(channel') /\ Len(channel') = Len(channel) - 1
          /\ \A i \in DOMAIN channel' : /\ channel'[i] = channel[i + 1]
                                        /\ i + 1 \in DOMAIN channel
                                        /\ i \in Nat /\ i >= 1
      BY <1>1, <1>2, TakeFacts
    <2>3. ASSUME NEW i \in Nat, Overtaken(i + 1)
          PROVE  Overtaken(i)'
      <3>1. PICK j \in DOMAIN channel : j < i + 1 /\ channel[j].kind = "update"
        BY <2>3 DEF Overtaken
      <3>2. j # 1
        BY <2>1, <2>2, <3>1
      <3>3. j - 1 \in DOMAIN channel' /\ j - 1 < i /\ channel'[j - 1] = channel[j]
        BY <2>2, <3>1, <3>2
      <3> QED
        BY <3>1, <3>3 DEF Overtaken
    <2>4. Followed' = Followed /\ Followed \subseteq Fields
      BY <1>1 DEF Followed, own, moonraker, IndInv, TypeOK
    <2>5. Accepted'
      <3>1. ASSUME Overtaken(Len(channel) + 1)
            PROVE  Overtaken(Len(channel) + 1)'
        <4>1. PICK n \in Nat : n = Len(channel)
          BY <2>2
        <4>2. Overtaken(n)'
          BY <2>3, <3>1, <4>1
        <4>3. Len(channel') + 1 = n
          BY <2>2, <4>1
        <4> QED
          BY <4>2, <4>3 DEF Overtaken
      <3> QED
        BY <1>1, <2>1, <2>4, <3>1 DEF Accepted, own, moonraker
    <2>6. Answered'
      <3> SUFFICES ASSUME phase = "subscribe", NEW i \in DOMAIN channel',
                          channel'[i].kind = "answer"
                   PROVE  /\ subscribed' = Followed'
                          /\ Overtaken(i)' \/ \A f \in Followed' : Leads(f, i)'
        BY <1>1 DEF Answered, own
      <3>1. /\ i + 1 \in DOMAIN channel /\ channel[i + 1].kind = "answer"
            /\ i \in Nat /\ i >= 1
        BY <2>2
      <3>2. /\ subscribed = Followed
            /\ Overtaken(i + 1) \/ \A f \in Followed : Leads(f, i + 1)
        BY <2>1, <3>1 DEF Answered
      <3>3. ASSUME NEW f \in Followed, Leads(f, i + 1)
            PROVE  Leads(f, i)'
        BY <1>1, <1>2, <2>4, <3>1, <3>3, LeadsDrop DEF own, moonraker
      <3> QED
        BY <1>1, <2>3, <2>4, <3>1, <3>2, <3>3 DEF moonraker
    <2>7. Following'
      BY <1>1 DEF Following, own
    <2> QED
      BY <2>5, <2>6, <2>7
  <1> QED
    BY <1>3, <1>4, <1>5, <1>6, <1>7, <1>8 DEF IndInv

(* The list of objects: the monitor subscribes. *)
LEMMA ReadListStep ==
    ASSUME IndInv, ReadList
    PROVE  IndInv'
  <1>1. /\ phase = "list" /\ channel # <<>> /\ IsReply(Head(channel))
        /\ channel' = Tail(channel)
        /\ subscription' = Head(channel).objects \cap Wanted
        /\ requestId' = requestId + 1 /\ request' = requestId'
        /\ phase' = "subscribe"
        /\ UNCHANGED <<status, entry, running, gone, answering, subscribed,
                       available, printer, mute, troubles, missed, atConnect>>
    BY DEF ReadList, Arrived, Answers, IsReply, SubscriptionFor
  <1>2. /\ requestId = 1 /\ requestId' = 2 /\ request' = 2
        /\ subscription = {} /\ subscribed = {}
    BY <1>1 DEF IndInv, Exchange
  <1>3. /\ ChannelOK' /\ Len(channel') <= MaxQueue
        /\ \A i \in DOMAIN channel' : ~IsReply(channel'[i])
        /\ \A i \in DOMAIN channel' : OfThisConnection(channel'[i].status)
        /\ Head(channel) \in Messages
    BY <1>1, TakeKeeps
  <1>4. TypeOK'
    <2>1. subscription' \subseteq Fields
      BY <1>1, <1>3 DEF Messages
    <2> QED
      BY <1>1, <1>2, <1>3, <2>1 DEF IndInv, TypeOK, Reading, Waiting
  <1>5. OneReply'
    BY <1>3 DEF OneReply, IsReply
  <1>6. Exchange' /\ Reported'
    BY <1>1, <1>2 DEF Exchange, Reported, Reading, Waiting
  <1>7. Current'
    BY <1>1, <1>2, <1>3 DEF IndInv, Current, OfThisConnection
  <1>8. CaughtUp'
    BY <1>1, <1>2, <1>3
    DEF CaughtUp, Accepted, Answered, Following, IsReply
  <1> QED
    BY <1>3, <1>4, <1>5, <1>6, <1>7, <1>8 DEF IndInv

(* What merging leaves of the two statuses. *)
LEMMA MergedFacts ==
    ASSUME NEW old \in [Fields -> Values], NEW update \in [Fields -> Values]
    PROVE  /\ Merged(old, update) \in [Fields -> Values]
           /\ \A f \in Fields :
                 Merged(old, update)[f] = IF update[f] # 0 THEN update[f]
                                          ELSE old[f]
  BY DEF Merged

(* The first frame is merged into the status and the status reported. *)
LEMMA ReportFacts ==
    ASSUME IndInv, channel # <<>>, channel' = Tail(channel),
           Report(Head(channel).status),
           subscription' = subscription, atConnect' = atConnect
    PROVE  /\ status' \in [Fields -> Values]
           /\ entry' \in [state : {"none", "connected", "disconnected"},
                          status : [Fields -> Values]]
           /\ entry'.status = status' /\ OfThisConnection(status)'
           /\ \A f \in Fields :
                 status'[f] = IF Head(channel).status[f] # 0
                              THEN Head(channel).status[f] ELSE status[f]
  <1>1. status \in [Fields -> Values] /\ Head(channel).status \in [Fields -> Values]
    BY TakeKeeps DEF IndInv, TypeOK, Messages
  <1>2. /\ status' = Merged(status, Head(channel).status)
        /\ entry' = [state |-> "connected", status |-> status']
    BY DEF Report
  <1>3. /\ status' \in [Fields -> Values]
        /\ \A f \in Fields :
              status'[f] = IF Head(channel).status[f] # 0
                           THEN Head(channel).status[f] ELSE status[f]
    BY <1>1, <1>2, MergedFacts
  <1>4. OfThisConnection(status)'
    <2>1. OfThisConnection(status) /\ OfThisConnection(Head(channel).status)
      BY TakeKeeps DEF IndInv, Current
    <2> QED
      BY <1>3, <2>1 DEF OfThisConnection
  <1> QED
    BY <1>2, <1>3, <1>4

(* The answer to the subscription is read: from here on the channel leads  *)
(* the monitor to the printer, or a change was dropped before.             *)
LEMMA ReadStatusStep ==
    ASSUME IndInv, ReadStatus
    PROVE  IndInv'
  <1>1. /\ phase = "subscribe" /\ channel # <<>> /\ IsReply(Head(channel))
        /\ Head(channel).kind = "answer"
        /\ channel' = Tail(channel) /\ Report(Head(channel).status)
        /\ phase' = "streaming"
        /\ UNCHANGED <<requestId, subscription, moonraker, missed, atConnect>>
    BY DEF ReadStatus, Arrived, Answers, IsReply
  <1>2. channel \in Seq(Messages)
    BY DEF IndInv, ChannelOK
  <1>3. /\ ChannelOK' /\ Len(channel') <= MaxQueue
        /\ \A i \in DOMAIN channel' : ~IsReply(channel'[i])
        /\ \A i \in DOMAIN channel' : OfThisConnection(channel'[i].status)
    BY <1>1, TakeKeeps
  <1>4. /\ status' \in [Fields -> Values]
        /\ entry' \in [state : {"none", "connected", "disconnected"},
                       status : [Fields -> Values]]
        /\ entry'.status = status' /\ OfThisConnection(status)'
        /\ \A f \in Fields :
              status'[f] = IF Head(channel).status[f] # 0
                           THEN Head(channel).status[f] ELSE status[f]
    BY <1>1, ReportFacts
  <1>5. request = 0 /\ requestId = 2
    <2>1. /\ 1 \in DOMAIN channel /\ IsReply(channel[1])
          /\ requestId = 2
      BY <1>1, <1>2, TakeFacts DEF IndInv, Exchange
    <2> QED
      BY <2>1 DEF IndInv, OneReply
  <1>6. TypeOK'
    BY <1>1, <1>3, <1>4 DEF IndInv, TypeOK, moonraker, Reading, Waiting
  <1>7. OneReply' /\ Exchange' /\ Reported'
    BY <1>1, <1>3, <1>4, <1>5
    DEF OneReply, Exchange, Reported, IsReply, moonraker, Reading, Waiting
  <1>8. Current'
    BY <1>1, <1>3, <1>4
    DEF IndInv, Current, OfThisConnection, moonraker
  <1>9. CaughtUp'
    <2> SUFFICES ASSUME missed = {}, ~gone
                 PROVE  Accepted' /\ Answered' /\ Following'
      BY <1>1 DEF CaughtUp, moonraker
    <2>1. /\ 1 \in DOMAIN channel /\ channel[1].kind = "answer"
          /\ DOMAIN channel = 1..Len(channel) /\ Len(channel) \in Nat
      BY <1>1, <1>2, TakeFacts
    <2>2. ~Overtaken(1)
      BY <2>1 DEF Overtaken
    <2>3. subscribed = Followed /\ \A f \in Followed : Leads(f, 1)
      BY <1>1, <2>1, <2>2 DEF IndInv, CaughtUp, Answered
    <2>4. Followed' = Followed /\ Followed \subseteq Fields
      BY <1>1 DEF Followed, moonraker, IndInv, TypeOK
    <2>5. \A f \in Followed : Leads(f, 1)'
      BY <1>1, <1>2, <1>4, <2>3, <2>4, LeadsMerge DEF moonraker
    <2> QED
      BY <1>1, <2>3, <2>4, <2>5 DEF Accepted, Answered, Following, moonraker
  <1> QED
    BY <1>3, <1>6, <1>7, <1>8, <1>9 DEF IndInv

(* A change is read and reported. *)
LEMMA ReadUpdateStep ==
    ASSUME IndInv, ReadUpdate
    PROVE  IndInv'
  <1>1. /\ phase = "streaming" /\ channel # <<>>
        /\ channel' = Tail(channel) /\ Report(Head(channel).status)
        /\ UNCHANGED <<phase, requestId, subscription, moonraker, missed,
                       atConnect>>
    BY DEF ReadUpdate, Arrived
  <1>2. channel \in Seq(Messages)
    BY DEF IndInv, ChannelOK
  <1>3. /\ ChannelOK' /\ Len(channel') <= MaxQueue
        /\ \A i \in DOMAIN channel' : ~IsReply(channel'[i])
        /\ \A i \in DOMAIN channel' : OfThisConnection(channel'[i].status)
    BY <1>1, TakeKeeps
  <1>4. /\ status' \in [Fields -> Values]
        /\ entry' \in [state : {"none", "connected", "disconnected"},
                       status : [Fields -> Values]]
        /\ entry'.status = status' /\ OfThisConnection(status)'
        /\ \A f \in Fields :
              status'[f] = IF Head(channel).status[f] # 0
                           THEN Head(channel).status[f] ELSE status[f]
    BY <1>1, ReportFacts
  <1>5. TypeOK'
    BY <1>1, <1>3, <1>4 DEF IndInv, TypeOK, moonraker
  <1>6. OneReply' /\ Exchange' /\ Reported'
    BY <1>1, <1>3, <1>4
    DEF IndInv, OneReply, Exchange, Reported, IsReply, moonraker, Reading,
        Waiting
  <1>7. Current'
    BY <1>1, <1>3, <1>4
    DEF IndInv, Current, OfThisConnection, moonraker
  <1>8. CaughtUp'
    <2> SUFFICES ASSUME missed = {}, ~gone
                 PROVE  Accepted' /\ Answered' /\ Following'
      BY <1>1 DEF CaughtUp, moonraker
    <2>1. subscribed = Followed /\ \A f \in Followed : Leads(f, 1)
      BY <1>1 DEF IndInv, CaughtUp, Following
    <2>2. Followed' = Followed /\ Followed \subseteq Fields
      BY <1>1 DEF Followed, moonraker, IndInv, TypeOK
    <2>3. \A f \in Followed : Leads(f, 1)'
      BY <1>1, <1>2, <1>4, <2>1, <2>2, LeadsMerge DEF moonraker
    <2> QED
      BY <1>1, <2>1, <2>2, <2>3 DEF Accepted, Answered, Following, moonraker
  <1> QED
    BY <1>3, <1>5, <1>6, <1>7, <1>8 DEF IndInv

(* A frame the monitor has no use for is ignored. *)
LEMMA IgnoreFrameStep ==
    ASSUME IndInv, IgnoreFrame
    PROVE  IndInv'
  <1>1. /\ phase = "streaming" /\ channel # <<>>
        /\ channel' = Tail(channel)
        /\ Head(channel).kind \notin {"update", "invalid"}
        /\ UNCHANGED <<own, moonraker, missed, atConnect>>
    BY DEF IgnoreFrame, Arrived
  <1>2. channel \in Seq(Messages)
    BY DEF IndInv, ChannelOK
  <1>3. /\ ChannelOK' /\ Len(channel') <= MaxQueue
        /\ \A i \in DOMAIN channel' : ~IsReply(channel'[i])
        /\ \A i \in DOMAIN channel' : OfThisConnection(channel'[i].status)
    BY <1>1, TakeKeeps
  <1>4. \A f \in Fields : Head(channel).status[f] = 0
    <2>1. /\ 1 \in DOMAIN channel /\ channel[1] = Head(channel)
          /\ channel[1] \in Messages
      BY <1>1, <1>2, TakeFacts, TakeKeeps
    <2>2. ~IsReply(channel[1])
      BY <1>1, <2>1 DEF IndInv, Exchange
    <2>3. channel[1].status = Absent
      BY <1>1, <2>1, <2>2 DEF IndInv, ChannelOK, IsReply, Messages, Kinds
    <2> QED
      BY <2>1, <2>3 DEF Absent
  <1>5. TypeOK'
    BY <1>1, <1>3 DEF IndInv, TypeOK, own, moonraker
  <1>6. OneReply' /\ Exchange' /\ Reported'
    BY <1>1, <1>3
    DEF IndInv, OneReply, Exchange, Reported, IsReply, own, moonraker, Reading,
        Waiting
  <1>7. Current'
    BY <1>1, <1>3
    DEF IndInv, Current, OfThisConnection, own, moonraker
  <1>8. CaughtUp'
    <2> SUFFICES ASSUME missed = {}, ~gone
                 PROVE  Accepted' /\ Answered' /\ Following'
      BY <1>1 DEF CaughtUp, moonraker
    <2>1. subscribed = Followed /\ \A f \in Followed : Leads(f, 1)
      BY <1>1 DEF IndInv, CaughtUp, Following
    <2>2. Followed' = Followed /\ Followed \subseteq Fields
      BY <1>1 DEF Followed, own, moonraker, IndInv, TypeOK
    <2>3. \A f \in Followed : Leads(f, 1)'
      BY <1>1, <1>2, <1>4, <2>1, <2>2, LeadsMerge DEF own, moonraker
    <2> QED
      BY <1>1, <2>1, <2>2, <2>3
      DEF Accepted, Answered, Following, own, moonraker
  <1> QED
    BY <1>3, <1>5, <1>6, <1>7, <1>8 DEF IndInv

(* So every step of the monitor's keeps the invariant. *)
LEMMA MonitorSteps ==
    ASSUME IndInv, MonitorStep
    PROVE  IndInv'
  <1>1. CASE Connect \/ Retry
    BY <1>1, ConnectStep, RetryStep
  <1>2. CASE ConnectFails \/ ReadFailure \/ ReadEof
    BY <1>2, LoseStep DEF ConnectFails, ReadFailure, ReadEof
  <1>3. CASE SkipFrame \/ ReadList \/ ReadStatus
    BY <1>3, SkipFrameStep, ReadListStep, ReadStatusStep
  <1>4. CASE ReadUpdate \/ IgnoreFrame
    BY <1>4, ReadUpdateStep, IgnoreFrameStep
  <1> QED
    BY <1>1, <1>2, <1>3, <1>4 DEF MonitorStep

------------------------------------------------------------------------------
(* Moonraker. *)

(* The list of objects is answered. *)
LEMMA AnswerListStep ==
    ASSUME IndInv, AnswerList
    PROVE  IndInv'
  <1>1. /\ CanSend /\ request = 1 /\ request' = 0 /\ Push(ListAnswer)
        /\ UNCHANGED <<own, running, gone, answering, subscribed, available,
                       printer, mute, troubles, missed, atConnect>>
    BY DEF AnswerList
  <1>2. /\ ListAnswer \in Messages /\ ListAnswer.kind = "answer"
        /\ ListAnswer.status = Absent
    BY MessageFacts DEF IndInv, TypeOK
  <1>3. phase = "list"
    BY <1>1 DEF IndInv, Exchange, Reading, Waiting
  <1>4. subscribed' = {}
    BY <1>1, <1>3 DEF IndInv, Exchange
  <1>5. /\ ChannelOK' /\ OneReply' /\ Exchange' /\ Reported'
        /\ Len(channel') <= MaxQueue
        /\ \A i \in DOMAIN channel' : OfThisConnection(channel[i].status)'
    <2>1. OfThisConnection(ListAnswer.status)
      BY <1>2 DEF OfThisConnection, Absent
    <2> QED
      BY <1>1, <1>2, <1>4, <2>1, PushKeeps DEF IsReply
  <1>6. TypeOK'
    BY <1>1, <1>5 DEF IndInv, TypeOK, own
  <1>7. Current'
    BY <1>1, <1>5 DEF IndInv, Current, OfThisConnection, own
  <1>8. CaughtUp'
    BY <1>1, <1>2, <1>3, QuietPush
  <1> QED
    BY <1>5, <1>6, <1>7, <1>8 DEF IndInv

(* The subscription is accepted: the answer will hold what is true now. *)
LEMMA AcceptSubscriptionStep ==
    ASSUME IndInv, AcceptSubscription
    PROVE  IndInv'
  <1>1. /\ request = 2 /\ subscribed = {}
        /\ subscribed' = Followed
        /\ answering' = [f \in Fields |-> IF f \in subscribed' THEN printer[f]
                                          ELSE 0]
        /\ UNCHANGED <<own, channel, running, gone, request, available, printer,
                       mute, troubles, missed, atConnect>>
    BY DEF AcceptSubscription, Followed, Of
  <1>2. phase = "subscribe"
    BY <1>1 DEF IndInv, Exchange, Reading, Waiting
  <1>3. Followed' = Followed /\ Followed \subseteq Fields
        /\ Followed \subseteq subscription
    BY <1>1 DEF Followed, own, IndInv, TypeOK
  <1>4. 0 \in Values
    BY MonitorAssumption DEF Values
  <1>5. TypeOK'
    <2>1. answering' \in [Fields -> Values]
      BY <1>1, <1>4 DEF IndInv, TypeOK
    <2> QED
      BY <1>1, <1>3, <2>1 DEF IndInv, TypeOK, own
  <1>6. ChannelOK' /\ OneReply' /\ Exchange' /\ Reported'
    BY <1>1, <1>2
    DEF IndInv, ChannelOK, OneReply, Exchange, Reported, own, Reading, Waiting
  <1>7. Current'
    BY <1>1, <1>3 DEF IndInv, Current, OfThisConnection, own
  <1>8. CaughtUp'
    <2>1. \A i \in DOMAIN channel : ~IsReply(channel[i])
      BY <1>1 DEF IndInv, OneReply
    <2>2. \A f \in Followed : answering'[f] = printer'[f]
      BY <1>1, <1>3
    <2> QED
      BY <1>1, <1>2, <1>3, <2>1, <2>2
      DEF CaughtUp, Accepted, Answered, Following, IsReply, own
  <1> QED
    BY <1>5, <1>6, <1>7, <1>8 DEF IndInv

(* The subscription is answered, after the changes since it was accepted. *)
LEMMA AnswerSubscriptionStep ==
    ASSUME IndInv, AnswerSubscription
    PROVE  IndInv'
  <1>1. /\ CanSend /\ request = 2 /\ request' = 0 /\ Push(SubscribeAnswer)
        /\ \/ subscribed # {} \/ Followed = {}
           \/ "unsubscribed" \in missed
        /\ UNCHANGED <<own, running, gone, answering, subscribed, available,
                       printer, mute, troubles, missed, atConnect>>
    BY DEF AnswerSubscription, Followed
  <1>2. /\ SubscribeAnswer \in Messages /\ SubscribeAnswer.kind = "answer"
        /\ SubscribeAnswer.status = answering
    BY MessageFacts DEF IndInv, TypeOK
  <1>3. phase = "subscribe"
    BY <1>1 DEF IndInv, Exchange, Reading, Waiting
  <1>4. /\ ChannelOK' /\ OneReply' /\ Exchange' /\ Reported'
        /\ Len(channel') <= MaxQueue
        /\ \A i \in DOMAIN channel' : OfThisConnection(channel[i].status)'
    <2>1. OfThisConnection(SubscribeAnswer.status)
      BY <1>2 DEF IndInv, Current
    <2> QED
      BY <1>1, <1>2, <1>3, <2>1, PushKeeps DEF IsReply
  <1>5. TypeOK'
    BY <1>1, <1>4 DEF IndInv, TypeOK, own
  <1>6. Current'
    BY <1>1, <1>4 DEF IndInv, Current, OfThisConnection, own
  <1>7. CaughtUp'
    <2> SUFFICES ASSUME missed = {}, ~gone
                 PROVE  Accepted' /\ Answered' /\ Following'
      BY <1>1 DEF CaughtUp
    <2>1. channel \in Seq(Messages)
      BY DEF IndInv, ChannelOK
    <2>2. Followed' = Followed /\ Followed \subseteq Fields
      BY <1>1 DEF Followed, own, IndInv, TypeOK
    <2>3. /\ subscribed = Followed
          /\ \/ Overtaken(Len(channel) + 1)
             \/ \A f \in Followed : answering[f] = printer[f]
      <3>1. CASE subscribed # {}
        BY <1>1, <1>3, <3>1 DEF IndInv, CaughtUp, Accepted
      <3>2. CASE subscribed = {}
        BY <1>1, <3>2
      <3> QED
        BY <3>1, <3>2
    <2>4. ASSUME NEW i \in DOMAIN channel', channel'[i].kind = "answer"
          PROVE  Overtaken(i)' \/ \A f \in Followed : Leads(f, i)'
      <3>1. PICK n \in Nat : n = Len(channel)
        BY <2>1
      <3>2. i = n + 1
        <4>1. \A j \in DOMAIN channel : ~IsReply(channel[j])
          BY <1>1 DEF IndInv, OneReply
        <4> QED
          BY <1>1, <1>2, <2>1, <2>4, <3>1, <4>1, PushFacts DEF IsReply
      <3>3. CASE Overtaken(Len(channel) + 1)
        <4>1. PICK j \in DOMAIN channel : j < n + 1 /\ channel[j].kind = "update"
          BY <3>1, <3>3 DEF Overtaken
        <4>2. j \in DOMAIN channel' /\ channel'[j] = channel[j]
          BY <1>1, <1>2, <2>1, <4>1, PushFacts
        <4> QED
          BY <3>2, <4>1, <4>2 DEF Overtaken
      <3>4. CASE \A f \in Followed : answering[f] = printer[f]
        <4>1. ASSUME NEW f \in Followed
              PROVE  Leads(f, i)'
          <5>1. f \in Fields /\ i \in Nat /\ i <= Len(channel) + 1
            BY <2>2, <3>1, <3>2
          <5>2. /\ SubscribeAnswer.status[f] = printer'[f]
                /\ SubscribeAnswer.status[f] # 0
            <6>1. printer[f] >= 1 /\ printer[f] \in Nat
              BY <5>1, MonitorAssumption DEF IndInv, Current, TypeOK, Values
            <6> QED
              BY <1>1, <1>2, <3>4, <6>1
          <5> QED
            BY <1>1, <1>2, <2>1, <5>1, <5>2, LeadsChange
        <4> QED
          BY <4>1
      <3> QED
        BY <2>3, <3>3, <3>4
    <2> QED
      BY <1>1, <1>3, <2>2, <2>3, <2>4
      DEF Accepted, Answered, Following, own
  <1> QED
    BY <1>4, <1>5, <1>6, <1>7 DEF IndInv

(* A request is refused. *)
LEMMA AnswerErrorStep ==
    ASSUME IndInv, AnswerError
    PROVE  IndInv'
  <1> DEFINE m == Message("error", request)
  <1>1. /\ CanSend /\ request # 0 /\ request' = 0 /\ Push(m)
        /\ troubles' = troubles + 1
        /\ UNCHANGED <<own, running, gone, answering, subscribed, available,
                       printer, mute, missed, atConnect>>
    BY DEF AnswerError, Trouble
  <1>2. m \in Messages /\ m.kind = "error" /\ m.status = Absent
    <2>1. request \in 0..2
      BY DEF IndInv, TypeOK
    <2> QED
      BY <2>1, MessageFacts DEF Kinds
  <1> HIDE DEF m
  <1>3. /\ ChannelOK' /\ OneReply' /\ Exchange' /\ Reported'
        /\ Len(channel') <= MaxQueue
        /\ \A i \in DOMAIN channel' : OfThisConnection(channel[i].status)'
    <2>1. OfThisConnection(m.status)
      BY <1>2 DEF OfThisConnection, Absent
    <2>2. phase = "list" => subscribed' = {}
      BY <1>1 DEF IndInv, Exchange
    <2> QED
      BY <1>1, <1>2, <2>1, <2>2, PushKeeps DEF IsReply
  <1>4. TypeOK'
    BY <1>1, <1>3 DEF IndInv, TypeOK, own
  <1>5. Current'
    BY <1>1, <1>3 DEF IndInv, Current, OfThisConnection, own
  <1>6. CaughtUp'
    BY <1>1, <1>2, QuietPush
  <1> QED
    BY <1>3, <1>4, <1>5, <1>6 DEF IndInv

(* Some other notification, or garbage. *)
LEMMA DisturbStep ==
    ASSUME IndInv, NEW kind \in {"other", "invalid"}, Disturb(kind)
    PROVE  IndInv'
  <1> DEFINE m == Message(kind, 0)
  <1>1. /\ CanSend /\ request' = request /\ Push(m) /\ troubles' = troubles + 1
        /\ UNCHANGED <<own, running, gone, answering, subscribed, available,
                       printer, mute, missed, atConnect>>
    BY DEF Disturb, Trouble
  <1>2. m \in Messages /\ m.kind = kind /\ m.status = Absent
    BY MessageFacts DEF Kinds
  <1> HIDE DEF m
  <1>3. /\ ChannelOK' /\ OneReply' /\ Exchange' /\ Reported'
        /\ Len(channel') <= MaxQueue
        /\ \A i \in DOMAIN channel' : OfThisConnection(channel[i].status)'
    <2>1. OfThisConnection(m.status)
      BY <1>2 DEF OfThisConnection, Absent
    <2>2. phase = "list" => subscribed' = {}
      BY <1>1 DEF IndInv, Exchange
    <2> QED
      BY <1>1, <1>2, <2>1, <2>2, PushKeeps DEF IsReply
  <1>4. TypeOK'
    BY <1>1, <1>3 DEF IndInv, TypeOK, own
  <1>5. Current'
    BY <1>1, <1>3 DEF IndInv, Current, OfThisConnection, own
  <1>6. CaughtUp'
    BY <1>1, <1>2, QuietPush
  <1> QED
    BY <1>3, <1>4, <1>5, <1>6 DEF IndInv

(* Klipper restarts: the subscription is lost, and that is remembered      *)
(* unless there was none.                                                  *)
LEMMA KlipperRestartStep ==
    ASSUME IndInv, NEW fields \in SUBSET Fields, KlipperRestart(fields)
    PROVE  IndInv'
  <1> DEFINE m == Message("other", 0)
  <1>1. /\ CanSend /\ request' = request /\ Push(m) /\ troubles' = troubles + 1
        /\ available' = fields /\ subscribed' = {}
        /\ missed' = IF phase \in {"subscribe", "streaming"}
                     THEN missed \cup {"unsubscribed"} ELSE missed
        /\ UNCHANGED <<own, running, gone, answering, printer, mute, atConnect>>
    BY DEF KlipperRestart, Trouble
  <1>2. m \in Messages /\ m.kind = "other" /\ m.status = Absent
    BY MessageFacts DEF Kinds
  <1> HIDE DEF m
  <1>3. /\ ChannelOK' /\ OneReply' /\ Exchange' /\ Reported'
        /\ Len(channel') <= MaxQueue
        /\ \A i \in DOMAIN channel' : OfThisConnection(channel[i].status)'
    <2>1. OfThisConnection(m.status)
      BY <1>2 DEF OfThisConnection, Absent
    <2> QED
      BY <1>1, <1>2, <2>1, PushKeeps DEF IsReply
  <1>4. TypeOK'
    <2>1. missed' \subseteq {"overtaken", "unsubscribed", "mute"}
      BY <1>1 DEF IndInv, TypeOK
    <2> QED
      BY <1>1, <1>3, <2>1 DEF IndInv, TypeOK, own
  <1>5. Current'
    BY <1>1, <1>3 DEF IndInv, Current, OfThisConnection, own
  <1>6. CaughtUp'
    BY <1>1 DEF CaughtUp, Accepted, Answered, Following, own
  <1> QED
    BY <1>3, <1>4, <1>5, <1>6 DEF IndInv

(* A field changes. *)
LEMMA ChangeStep ==
    ASSUME IndInv, NEW f \in Fields, Change(f)
    PROVE  IndInv'
  <1>1. /\ printer[f] < MaxValue
        /\ printer' = [printer EXCEPT ![f] = @ + 1]
        /\ \/ /\ f \in subscribed /\ CanSend
              /\ Push(UpdateOf(f))
              /\ UNCHANGED missed
           \/ f \notin subscribed /\ UNCHANGED <<channel, missed>>
           \/ missed' = missed \cup {"mute"} /\ UNCHANGED channel
        /\ UNCHANGED <<own, running, gone, request, answering, subscribed,
                       available, mute, troubles, atConnect>>
    BY DEF Change
  <1>2. printer \in [Fields -> Values] /\ MaxValue \in Nat
    BY MonitorAssumption DEF IndInv, TypeOK
  <1>3. /\ printer' \in [Fields -> Values] /\ printer'[f] = printer[f] + 1
        /\ \A g \in Fields \ {f} : printer'[g] = printer[g]
    <2>1. printer[f] + 1 \in Values
      BY <1>1, <1>2 DEF Values
    <2> QED
      BY <1>1, <1>2, <2>1
  <1>4. \A g \in Fields : printer'[g] >= printer[g] /\ printer[g] \in Nat
                          /\ atConnect[g] \in Nat
    <2>1. atConnect \in [Fields -> Values] /\ Values \subseteq Nat
      BY MonitorAssumption DEF Values, IndInv, TypeOK
    <2>2. ASSUME NEW g \in Fields
          PROVE  printer'[g] >= printer[g] /\ printer[g] \in Nat
      <3>1. printer[g] \in Nat
        BY <1>2, <2>1
      <3> QED
        BY <1>3, <3>1
    <2> QED
      BY <2>1, <2>2
  <1>5. Followed' = Followed /\ Followed \subseteq Fields
    BY <1>1 DEF Followed, own, IndInv, TypeOK
  <1>6. CASE f \in subscribed /\ CanSend /\ Push(UpdateOf(f)) /\ missed' = missed
    <2>1. /\ UpdateOf(f) \in Messages /\ UpdateOf(f).kind = "update"
          /\ UpdateOf(f).status[f] = printer[f] + 1
          /\ \A g \in Fields \ {f} : UpdateOf(f).status[g] = 0
      BY <1>1, <1>2, UpdateFacts
    <2>2. PICK m \in Messages : m = UpdateOf(f)
      BY <2>1
    <2>3. phase # "list"
      BY <1>6 DEF IndInv, Exchange
    <2>4. /\ ChannelOK' /\ OneReply' /\ Exchange' /\ Reported'
          /\ Len(channel') <= MaxQueue
          /\ \A i \in DOMAIN channel' : OfThisConnection(channel[i].status)'
      <3>1. OfThisConnection(m.status)
        <4>1. f \in subscription /\ printer[f] + 1 >= atConnect[f]
          BY <1>4, <1>6 DEF IndInv, Current
        <4> QED
          BY <2>1, <2>2, <4>1 DEF OfThisConnection
      <3> QED
        BY <1>1, <1>6, <2>1, <2>2, <2>3, <3>1, PushKeeps DEF IsReply
    <2>5. TypeOK'
      BY <1>1, <1>3, <1>6, <2>4 DEF IndInv, TypeOK, own
    <2>6. Current'
      BY <1>1, <1>4, <2>4 DEF IndInv, Current, OfThisConnection, own
    <2>7. CaughtUp'
      <3> SUFFICES ASSUME missed = {}, ~gone
                   PROVE  Accepted' /\ Answered' /\ Following'
        BY <1>1, <1>6 DEF CaughtUp
      <3>1. channel \in Seq(Messages) /\ Accepted /\ Answered /\ Following
        BY DEF IndInv, ChannelOK, CaughtUp
      <3>2. Push(m)
        BY <1>6, <2>2
      <3>3. /\ \A i \in DOMAIN channel : i \in DOMAIN channel'
                                         /\ channel'[i] = channel[i]
                                         /\ i \in Nat /\ i <= Len(channel) + 1
            /\ \A i \in DOMAIN channel' : \/ i \in DOMAIN channel
                                          \/ channel'[i].kind = "update"
            /\ Len(channel) + 1 \in DOMAIN channel'
            /\ channel'[Len(channel) + 1].kind = "update"
            /\ Len(channel') + 1 > Len(channel) + 1
        BY <2>1, <2>2, <3>1, <3>2, PushFacts
      <3>4. ASSUME NEW g \in Followed, NEW i \in Nat, Leads(g, i),
                   i <= Len(channel) + 1
            PROVE  Leads(g, i)'
        <4>1. CASE g = f
          <5>1. m.status[g] = printer'[g] /\ m.status[g] # 0
            BY <1>3, <1>4, <2>1, <2>2, <4>1
          <5> QED
            BY <1>5, <3>1, <3>2, <3>4, <5>1, LeadsChange
        <4>2. CASE g # f
          <5>1. g \in Fields /\ m.status[g] = 0 /\ printer'[g] = printer[g]
            BY <1>3, <1>5, <2>1, <2>2, <4>2
          <5> QED
            BY <1>1, <3>1, <3>2, <3>4, <5>1, LeadsPush DEF own
        <4> QED
          BY <4>1, <4>2
      <3>5. Accepted'
        <4>1. Overtaken(Len(channel) + 1)'
          BY <3>3 DEF Overtaken
        <4> QED
          BY <1>1, <1>5, <3>1, <4>1 DEF Accepted, own
      <3>6. Answered'
        <4> SUFFICES ASSUME phase = "subscribe", NEW i \in DOMAIN channel',
                            channel'[i].kind = "answer"
                     PROVE  /\ subscribed' = Followed'
                            /\ \/ Overtaken(i)'
                               \/ \A g \in Followed' : Leads(g, i)'
          BY <1>1 DEF Answered, own
        <4>1. /\ i \in DOMAIN channel /\ channel[i].kind = "answer"
              /\ i \in Nat /\ i <= Len(channel) + 1
          BY <3>3
        <4>2. Overtaken(i) => Overtaken(i)'
          BY <3>3 DEF Overtaken
        <4> QED
          BY <1>1, <1>5, <3>1, <3>4, <4>1, <4>2 DEF Answered
      <3>7. Following'
        <4>1. 1 \in Nat /\ 1 <= Len(channel) + 1
          BY <3>1
        <4> QED
          BY <1>1, <1>5, <3>1, <3>4, <4>1 DEF Following, own
      <3> QED
        BY <3>5, <3>6, <3>7
    <2> QED
      BY <2>4, <2>5, <2>6, <2>7 DEF IndInv
  <1>7. CASE channel' = channel /\ (f \in subscribed => missed' # {})
             /\ missed' \in {missed, missed \cup {"mute"}}
    <2>1. TypeOK'
      BY <1>1, <1>3, <1>7 DEF IndInv, TypeOK, own
    <2>2. ChannelOK' /\ OneReply' /\ Exchange' /\ Reported'
      BY <1>1, <1>7
      DEF IndInv, ChannelOK, OneReply, Exchange, Reported, own, Reading, Waiting
    <2>3. Current'
      BY <1>1, <1>4, <1>7 DEF IndInv, Current, OfThisConnection, own
    <2>4. CaughtUp'
      <3> SUFFICES ASSUME missed' = {}, ~gone
                   PROVE  Accepted' /\ Answered' /\ Following'
        BY <1>1 DEF CaughtUp
      <3>1. missed = {} /\ f \notin subscribed
            /\ Accepted /\ Answered /\ Following
        BY <1>7 DEF IndInv, CaughtUp
      <3>2. \A g \in Followed : \A i : g # f /\ Leads(g, i) => Leads(g, i)'
        BY <1>1, <1>3, <1>5, <1>7 DEF Leads, LastFrom, own
      <3>3. \A i : Overtaken(i) => Overtaken(i)'
        BY <1>7 DEF Overtaken
      <3>4. Accepted'
        BY <1>1, <1>3, <1>5, <1>7, <3>1, <3>3 DEF Accepted, own, Overtaken
      <3>5. Answered'
        BY <1>1, <1>5, <1>7, <3>1, <3>2, <3>3 DEF Answered, own
      <3>6. Following'
        BY <1>1, <1>5, <1>7, <3>1, <3>2 DEF Following, own
      <3> QED
        BY <3>4, <3>5, <3>6
    <2> QED
      BY <2>1, <2>2, <2>3, <2>4 DEF IndInv
  <1> QED
    BY <1>1, <1>6, <1>7

(* Moonraker falls silent, stops or starts. *)
LEMMA OtherSteps ==
    ASSUME IndInv, FallSilent \/ Stop \/ Start
    PROVE  IndInv'
  <1>1. /\ UNCHANGED <<own, channel, answering, available, printer, missed,
                       atConnect>>
        /\ \/ UNCHANGED <<gone, request, subscribed>>
           \/ gone' = TRUE /\ request' = 0 /\ subscribed' = {}
    BY DEF FallSilent, Stop, Start
  <1>2. TypeOK'
    <2>1. /\ running \in BOOLEAN /\ mute \in BOOLEAN /\ gone \in BOOLEAN
          /\ troubles \in Nat
      BY DEF IndInv, TypeOK
    <2>2. running' \in BOOLEAN /\ mute' \in BOOLEAN /\ gone' \in BOOLEAN
      BY <2>1 DEF FallSilent, Stop, Start
    <2>3. troubles' \in Nat
      BY <2>1 DEF FallSilent, Stop, Start, Trouble
    <2>4. request' \in 0..2 /\ subscribed' \subseteq Fields
      BY <1>1 DEF IndInv, TypeOK
    <2> QED
      BY <1>1, <2>2, <2>3, <2>4 DEF IndInv, TypeOK, own
  <1>3. ChannelOK' /\ OneReply' /\ Exchange' /\ Reported'
    BY <1>1
    DEF IndInv, ChannelOK, OneReply, Exchange, Reported, own, Reading, Waiting
  <1>4. Current'
    BY <1>1 DEF IndInv, Current, OfThisConnection, own
  <1>5. CaughtUp'
    BY <1>1
    DEF IndInv, CaughtUp, Accepted, Answered, Following, Followed, Leads,
        LastFrom, Overtaken, own
  <1> QED
    BY <1>2, <1>3, <1>4, <1>5 DEF IndInv

(* So every step of Moonraker's keeps the invariant. *)
LEMMA MoonrakerSteps ==
    ASSUME IndInv, MoonrakerStep
    PROVE  IndInv'
  <1>1. CASE MoonrakerAnswers \/ AnswerError
    BY <1>1, AnswerListStep, AcceptSubscriptionStep, AnswerSubscriptionStep,
       AnswerErrorStep DEF MoonrakerAnswers
  <1>2. CASE \E f \in Fields : Change(f)
    BY <1>2, ChangeStep
  <1>3. CASE \E kind \in {"other", "invalid"} : Disturb(kind)
    BY <1>3, DisturbStep
  <1>4. CASE \E fields \in SUBSET Fields \ {{}} : KlipperRestart(fields)
    BY <1>4, KlipperRestartStep
  <1>5. CASE FallSilent \/ Stop \/ Start
    BY <1>5, OtherSteps
  <1> QED
    BY <1>1, <1>2, <1>3, <1>4, <1>5 DEF MoonrakerStep

------------------------------------------------------------------------------
(* The theorems. *)

(* At the start nothing is under way. *)
LEMMA InitOK == Init => IndInv
  <1> SUFFICES ASSUME Init PROVE IndInv
    OBVIOUS
  <1>1. Absent \in [Fields -> Values] /\ 1 \in Values /\ MaxQueue \in Nat
    BY MonitorAssumption DEF Absent, Values
  <1>2. /\ phase = "connect" /\ requestId = 0 /\ subscription = {}
        /\ status = Absent /\ entry = [state |-> "none", status |-> Absent]
        /\ channel = <<>> /\ running \in BOOLEAN /\ gone = TRUE /\ request = 0
        /\ answering = Absent /\ subscribed = {} /\ available \subseteq Fields
        /\ printer = [f \in Fields |-> 1] /\ mute = FALSE /\ troubles = 0
        /\ missed = {} /\ atConnect = Absent
    BY DEF Init
  <1>3. TypeOK
    <2>1. Len(channel) <= MaxQueue /\ printer \in [Fields -> Values]
      BY <1>1, <1>2
    <2>2. running \in BOOLEAN /\ gone \in BOOLEAN /\ mute \in BOOLEAN
      BY <1>2
    <2>3. /\ status \in [Fields -> Values] /\ answering \in [Fields -> Values]
          /\ atConnect \in [Fields -> Values]
          /\ entry \in [state : {"none", "connected", "disconnected"},
                        status : [Fields -> Values]]
      BY <1>1, <1>2
    <2>4. /\ phase \in Reading \cup {"connect", "asleep"}
          /\ requestId \in 0..2 /\ request \in 0..2 /\ troubles \in Nat
          /\ subscription \subseteq Fields /\ subscribed \subseteq Fields
          /\ available \subseteq Fields
          /\ missed \subseteq {"overtaken", "unsubscribed", "mute"}
      BY <1>2
    <2> QED
      BY <2>1, <2>2, <2>3, <2>4 DEF TypeOK
  <1>4. ChannelOK /\ OneReply /\ Exchange /\ Reported
    BY <1>2 DEF ChannelOK, OneReply, Exchange, Reported, Reading, Waiting
  <1>5. Current
    BY <1>2 DEF Current, OfThisConnection, Absent
  <1>6. CaughtUp
    BY <1>2 DEF CaughtUp
  <1> QED
    BY <1>3, <1>4, <1>5, <1>6 DEF IndInv

(* Every step keeps the invariant. *)
LEMMA NextOK ==
    ASSUME IndInv, [Next]_vars
    PROVE  IndInv'
  <1>1. CASE UNCHANGED vars
    BY <1>1
    DEF vars, own, moonraker, IndInv, TypeOK, ChannelOK, OneReply, Exchange,
        Current, OfThisConnection, Reported, CaughtUp, Accepted, Answered,
        Following, Followed, Leads, LastFrom, Overtaken
  <1> QED
    BY <1>1, MonitorSteps, MoonrakerSteps DEF Next

(* The invariant holds in every state of every behaviour. *)
THEOREM Invariance == Spec => []IndInv
  <1>1. Init => IndInv
    BY InitOK
  <1>2. IndInv /\ [Next]_vars => IndInv'
    BY NextOK
  <1> QED
    BY <1>1, <1>2, PTL DEF Spec

(* Every variable keeps its shape. *)
THEOREM TypeTheorem == Spec => []TypeOK
  BY Invariance, PTL DEF IndInv

(* A reported status has nothing in it from before its connection. *)
THEOREM CurrentTheorem == Spec => []NothingFromBefore
  <1>1. IndInv => NothingFromBefore
    BY DEF IndInv, Reported, Current, OfThisConnection, NothingFromBefore
  <1> QED
    BY <1>1, Invariance, PTL

(* A monitor that has read everything reports the printer as it is, unless *)
(* a change overtook the answer, Klipper restarted or Moonraker is mute.   *)
THEOREM UpToDateTheorem == Spec => []UpToDate
  <1>1. IndInv => UpToDate
    <2> SUFFICES ASSUME IndInv, phase = "streaming", channel = <<>>, ~gone,
                        missed = {}, NEW f \in subscription \cap available
                 PROVE  entry.status[f] = printer[f]
      BY DEF UpToDate
    <2>1. Leads(f, 1) /\ DOMAIN channel = {}
      BY DEF IndInv, CaughtUp, Following, Followed
    <2> QED
      BY <2>1 DEF Leads, IndInv, Reported
  <1> QED
    BY <1>1, Invariance, PTL
===============================================================================
