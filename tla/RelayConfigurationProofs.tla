----------------------- MODULE RelayConfigurationProofs -----------------------
(* Theorems about RelayConfiguration for every set of commands, devices and *)
(* challenges and any number of interrupted commands.                       *)
EXTENDS RelayConfiguration, FiniteSetTheorems, TLAPS

USE ConfigurationAssumption

(* A command that has something to do holds the lock.                       *)
LockInv == \A w \in Commands : job[w] # Idle => lock = w

------------------------------------------------------------------------------
(* What is left of a command's plan, by what it was asked to do, and what   *)
(* is true of the files at that point.                                      *)

(* initialize has written the files before the rest of its plan             *)
Initializing(p) ==
    \/ /\ files = {}
       /\ p = InitializePlan
    \/ /\ files = {"ca"}
       /\ p = <<To("tls", "caKey"), To("tls", "cert"), To("tls", "key"),
                To("state", {}), To("config", NewConfig)>>
    \/ /\ files = {"ca", "caKey"}
       /\ p = <<To("tls", "cert"), To("tls", "key"), To("state", {}),
                To("config", NewConfig)>>
    \/ /\ files = {"ca", "caKey", "cert"}
       /\ p = <<To("tls", "key"), To("state", {}), To("config", NewConfig)>>
    \/ /\ files = TlsFiles
       /\ p = <<To("state", {}), To("config", NewConfig)>>
    \/ /\ files = TlsFiles \cup {"state"}
       /\ p = <<To("config", NewConfig)>>

(* enable or disable is about to change the configuration it has checked    *)
Switching(p) ==
    \E enabled \in BOOLEAN :
        /\ p = <<To("config", [config EXCEPT !.enabled = enabled])>>
        /\ ConfigLoads
        /\ enabled => config.devices # {}

(* remove-device likewise                                                   *)
Removing(p, d) ==
    /\ p = <<To("config", [config EXCEPT !.devices = @ \ {d}])>>
    /\ ConfigLoads
    /\ config.enabled => config.devices # {d}

(* the request is out, or about to be, and its challenge not yet pending    *)
Requesting(p, c) ==
    /\ \/ p = <<To("request", c), To("state", pending \cup {c})>>
       \/ p = <<To("state", pending \cup {c})>>
    /\ StateLoads
    /\ target[c] # NoDevice
    /\ c \notin pending \cup consumed
    /\ added[c] = 0

(* the receipt matches, and its device is not yet on the list               *)
Adding(p, c) ==
    /\ p = <<To("config", WithDevice(c)), To("state", pending \ {c})>>
    /\ ConfigLoads
    /\ c \in receipts /\ c \in pending
    /\ Acceptable(WithDevice(c))
    /\ added[c] <= crashes

(* the device is on the list, and the challenge still pending               *)
Consuming(p, c) ==
    /\ p = <<To("state", pending \ {c})>>
    /\ ConfigLoads
    /\ c \in receipts /\ c \in pending
    /\ target[c] \in config.devices

PlanOK(p, a) ==
    /\ a.kind \in {"none", "refused"} => p = <<>>
    /\ a.kind = "done" => p = <<>> \/ Initializing(p) \/ Switching(p)
    /\ a.kind = "remove" => p = <<>> \/ Removing(p, a.device)
    /\ a.kind = "request" =>
          \/ Requesting(p, a.challenge)
          \/ p = <<>> /\ a.challenge \in pending
    /\ a.kind = "import" =>
          \/ Adding(p, a.challenge) \/ Consuming(p, a.challenge)
          \/ p = <<>> /\ target[a.challenge] \in config.devices

JobInv == \A w \in Commands : PlanOK(job[w].plan, job[w].answer)

------------------------------------------------------------------------------
(* The files between commands.                                              *)

(* The configuration is the last file to appear, and can always be loaded.  *)
Loadable ==
    /\ "config" \in files => files = Files
    /\ "config" \notin files => config = NewConfig
    /\ Acceptable(config)

(* Without a state file there are no challenges, and nothing was reported.  *)
NoState == ~StateLoads => pending = {} /\ told = {}

(* Requests and receipts exist only for challenges that have a device, and  *)
(* a challenge that was taken out is not pending.                           *)
Known ==
    /\ receipts \subseteq requests
    /\ \A c \in Challenges :
          c \in requests \cup pending \cup consumed \/ added[c] # 0
              => target[c] # NoDevice
    /\ pending \cap consumed = {}

(* A command is about to take the challenge of a listed device out.         *)
Finishing(c) ==
    \E w \in Commands : /\ job[w].answer = [kind |-> "import", challenge |-> c]
                        /\ job[w].plan = <<To("state", pending \ {c})>>

(* A challenge that has been used once more than commands were interrupted  *)
(* is gone, or going.                                                       *)
UsedUp ==
    \A c \in Challenges :
        \/ added[c] <= crashes
        \/ added[c] = crashes + 1 /\ (c \in pending => Finishing(c))

IndInv ==
    /\ TypeOK
    /\ LockInv
    /\ JobInv
    /\ Loadable
    /\ NoState
    /\ Known
    /\ ReportedIsKept
    /\ UsedUp

------------------------------------------------------------------------------
(* Plans and answers.                                                       *)

(* An effect has its type when its content does.                            *)
LEMMA EffectTypes ==
    /\ \A file \in TlsFiles : To("tls", file) \in Effect
    /\ \A set \in SUBSET Challenges : To("state", set) \in Effect
    /\ \A cfg \in Config : To("config", cfg) \in Effect
    /\ \A c \in Challenges : To("request", c) \in Effect
  BY DEF To, Effect

(* The content of a well-typed effect.                                      *)
LEMMA ContentTypes ==
    ASSUME NEW e \in Effect
    PROVE  /\ e.file = "tls" => e.content \in TlsFiles
           /\ e.file = "state" => e.content \in SUBSET Challenges
           /\ e.file = "config" => e.content \in Config
           /\ e.file = "request" => e.content \in Challenges
  BY DEF Effect

(* An answer is determined by its kind and what it is about.                *)
LEMMA AnswerShape ==
    ASSUME NEW a \in Answer
    PROVE  /\ a.kind \in {"none", "done", "refused", "request", "import", "remove"}
           /\ a.kind \in {"request", "import"} => a.challenge \in Challenges
           /\ a.kind = "import" => a = [kind |-> "import", challenge |-> a.challenge]
           /\ a.kind = "remove" => a.device \in Devices
  BY DEF Answer

(* The answers commands start with.                                         *)
LEMMA AnswerTypes ==
    /\ Done \in Answer /\ Refused \in Answer
    /\ \A c \in Challenges : /\ [kind |-> "request", challenge |-> c] \in Answer
                             /\ [kind |-> "import", challenge |-> c] \in Answer
    /\ \A d \in Devices : [kind |-> "remove", device |-> d] \in Answer
  BY DEF Done, Refused, Answer

(* The head and the tail of the plans in use.                               *)
LEMMA Tuples ==
    ASSUME NEW a, NEW b, NEW c, NEW d, NEW e, NEW f
    PROVE  /\ Head(<<a>>) = a /\ Tail(<<a>>) = <<>>
           /\ Head(<<a, b>>) = a /\ Tail(<<a, b>>) = <<b>>
           /\ Head(<<a, b, c>>) = a /\ Tail(<<a, b, c>>) = <<b, c>>
           /\ Head(<<a, b, c, d>>) = a /\ Tail(<<a, b, c, d>>) = <<b, c, d>>
           /\ Head(<<a, b, c, d, e>>) = a /\ Tail(<<a, b, c, d, e>>) = <<b, c, d, e>>
           /\ Head(<<a, b, c, d, e, f>>) = a
           /\ Tail(<<a, b, c, d, e, f>>) = <<b, c, d, e, f>>
  OBVIOUS

(* The first effect of a plan and what follows it have their types.         *)
LEMMA HeadFacts ==
    ASSUME NEW plan \in Seq(Effect), plan # <<>>
    PROVE  Head(plan) \in Effect /\ Tail(plan) \in Seq(Effect)
  OBVIOUS

(* A job with another plan keeps its answer.                                *)
LEMMA ReplacePlan ==
    ASSUME NEW x, NEW y, NEW a, NEW j, j = [plan |-> x, answer |-> a]
    PROVE  [j EXCEPT !.plan = y] = [plan |-> y, answer |-> a]
  OBVIOUS

(* Effects of different plans are told apart by their file.                 *)
LEMMA ToFields ==
    ASSUME NEW file, NEW content
    PROVE  To(file, content).file = file /\ To(file, content).content = content
  BY DEF To

------------------------------------------------------------------------------
(* The holder of the lock.                                                  *)

(* What is known of a command's job.                                        *)
LEMMA JobFacts ==
    ASSUME IndInv, NEW w \in Commands
    PROVE  /\ job[w].plan \in Seq(Effect) /\ job[w].answer \in Answer
           /\ PlanOK(job[w].plan, job[w].answer)
           /\ job[w] = [plan |-> job[w].plan, answer |-> job[w].answer]
           /\ job[w].plan # <<>> => job[w] # Idle
  BY DEF IndInv, TypeOK, JobInv, Idle

(* Two commands never have something to do at once.                         *)
LEMMA OthersIdle ==
    ASSUME IndInv, NEW w \in Commands, job[w] # Idle \/ lock = Nobody,
           NEW v \in Commands \ {w}
    PROVE  job[v] = Idle
  BY DEF IndInv, LockInv

(* So none but the holder of the lock takes a challenge out.                *)
LEMMA OnlyHolderFinishes ==
    ASSUME IndInv, NEW w \in Commands, job[w] # Idle \/ lock = Nobody,
           job[w].answer.kind # "import" \/ job[w].plan = <<>>
    PROVE  \A c \in Challenges : ~Finishing(c)
  <1>1. ASSUME NEW c \in Challenges, NEW v \in Commands,
               job[v].answer = [kind |-> "import", challenge |-> c],
               job[v].plan = <<To("state", pending \ {c})>>
        PROVE  FALSE
    <2>1. job[v].plan # <<>> /\ job[v].answer.kind = "import"
      BY <1>1
    <2>2. job[v] # Idle
      BY <2>1 DEF Idle
    <2>3. v = w
      BY <2>2, OthersIdle
    <2> QED
      BY <2>1, <2>3
  <1> QED
    BY <1>1 DEF Finishing

(* An idle command satisfies the condition on plans.                        *)
LEMMA IdleFine ==
    ASSUME NEW v, job'[v] = Idle
    PROVE  PlanOK(job[v].plan, job[v].answer)'
  <1>1. job'[v].plan = <<>> /\ job'[v].answer.kind = "none"
    BY DEF Idle
  <1> QED
    BY <1>1 DEF PlanOK

(* When one command's job changes and the others are idle, the condition on *)
(* plans is left to be shown for that job.                                  *)
LEMMA OneJob ==
    ASSUME IndInv, NEW w \in Commands, NEW p \in Seq(Effect), NEW a \in Answer,
           job' = [job EXCEPT ![w] = [plan |-> p, answer |-> a]],
           lock' = w, \A v \in Commands \ {w} : job[v] = Idle,
           PlanOK(p, a)'
    PROVE  /\ job' \in [Commands -> [plan : Seq(Effect), answer : Answer]]
           /\ LockInv' /\ JobInv'
  <1>1. job \in [Commands -> [plan : Seq(Effect), answer : Answer]]
    BY DEF IndInv, TypeOK
  <1>2. /\ job' \in [Commands -> [plan : Seq(Effect), answer : Answer]]
        /\ job'[w].plan = p /\ job'[w].answer = a
        /\ \A v \in Commands \ {w} : job'[v] = Idle
    BY <1>1
  <1>3. LockInv'
    BY <1>2 DEF LockInv
  <1>4. JobInv'
    <2>1. ASSUME NEW v \in Commands PROVE PlanOK(job[v].plan, job[v].answer)'
      BY <1>2, IdleFine
    <2> QED
      BY <2>1 DEF JobInv
  <1> QED
    BY <1>2, <1>3, <1>4

(* A command that ends leaves everybody idle.                               *)
LEMMA AllIdle ==
    ASSUME IndInv, NEW w \in Commands, job[w] # Idle,
           job' = [job EXCEPT ![w] = Idle], lock' = Nobody
    PROVE  /\ \A v \in Commands : job'[v] = Idle
           /\ job' \in [Commands -> [plan : Seq(Effect), answer : Answer]]
           /\ LockInv' /\ JobInv'
  <1>1. job \in [Commands -> [plan : Seq(Effect), answer : Answer]]
    BY DEF IndInv, TypeOK
  <1>2. \A v \in Commands : job'[v] = Idle
    BY <1>1, OthersIdle
  <1>3. Idle \in [plan : Seq(Effect), answer : Answer]
    BY DEF Idle, Answer
  <1>4. LockInv' /\ JobInv'
    BY <1>2, IdleFine DEF LockInv, JobInv
  <1> QED
    BY <1>1, <1>2, <1>3, <1>4

(* A command that carries out the first effect of its plan: what is left is *)
(* the rest of the plan.                                                    *)
LEMMA AdvanceStep ==
    ASSUME IndInv, NEW w \in Commands, NEW p, NEW a, p = job[w].plan,
           a = job[w].answer, p # <<>>, Advance(w), lock' = lock,
           PlanOK(Tail(p), a)'
    PROVE  /\ job' \in [Commands -> [plan : Seq(Effect), answer : Answer]]
           /\ job'[w].plan = Tail(p) /\ job'[w].answer = a
           /\ LockInv' /\ JobInv'
  <1>1. /\ p \in Seq(Effect) /\ a \in Answer
        /\ job[w] = [plan |-> p, answer |-> a] /\ job[w] # Idle
        /\ job \in [Commands -> [plan : Seq(Effect), answer : Answer]]
    BY JobFacts DEF IndInv, TypeOK
  <1>2. PICK rest \in Seq(Effect) : rest = Tail(p)
    BY <1>1, HeadFacts
  <1>3. [job[w] EXCEPT !.plan = rest] = [plan |-> rest, answer |-> a]
    BY <1>1, ReplacePlan
  <1>4. job' = [job EXCEPT ![w] = [job[w] EXCEPT !.plan = rest]]
    BY <1>2 DEF Advance
  <1>5. job' = [job EXCEPT ![w] = [plan |-> rest, answer |-> a]]
    BY <1>3, <1>4
  <1>6. /\ \A v \in Commands \ {w} : job[v] = Idle
        /\ lock' = w
    BY <1>1, OthersIdle DEF IndInv, LockInv
  <1>7. PlanOK(rest, a)'
    BY <1>2
  <1>8. /\ job' \in [Commands -> [plan : Seq(Effect), answer : Answer]]
        /\ LockInv' /\ JobInv'
    BY <1>1, <1>5, <1>6, <1>7, OneJob
  <1> QED
    BY <1>1, <1>2, <1>5, <1>8

------------------------------------------------------------------------------
(* Deciding.                                                                *)

(* Taking the lock with a plan that fits the files preserves the invariant. *)
LEMMA StartStep ==
    ASSUME IndInv, NEW w \in Commands, NEW plan \in Seq(Effect), NEW answer \in Answer,
           Start(w, plan, answer),
           target' \in [Challenges -> Devices \cup {NoDevice}],
           \A c \in Challenges : target[c] # NoDevice => target'[c] = target[c],
           PlanOK(plan, answer)'
    PROVE  IndInv'
  <1>1. /\ job[w] = Idle /\ lock = Nobody /\ lock' = w
        /\ job' = [job EXCEPT ![w] = [plan |-> plan, answer |-> answer]]
        /\ UNCHANGED <<files, pending, config, requests, receipts, crashes, told,
                       consumed, added, listed>>
    BY DEF Start, LockGranted, disk, history
  <1>2. \A v \in Commands \ {w} : job[v] = Idle
    BY <1>1, OthersIdle
  <1>3. /\ job' \in [Commands -> [plan : Seq(Effect), answer : Answer]]
        /\ LockInv' /\ JobInv'
    BY <1>1, <1>2, OneJob
  <1>4. TypeOK'
    BY <1>1, <1>3 DEF IndInv, TypeOK
  <1>5. Loadable' /\ NoState' /\ ReportedIsKept'
    BY <1>1 DEF IndInv, Loadable, Acceptable, NoState, StateLoads, ReportedIsKept
  <1>6. Known'
    <2>1. \A c \in Challenges : target[c] # NoDevice => target'[c] # NoDevice
      OBVIOUS
    <2> QED
      BY <1>1, <2>1 DEF IndInv, Known
  <1>7. UsedUp'
    <2>1. \A c \in Challenges : ~Finishing(c)
      BY <1>1, OnlyHolderFinishes DEF Idle
    <2> QED
      BY <1>1, <2>1 DEF IndInv, UsedUp
  <1> QED
    BY <1>3, <1>4, <1>5, <1>6, <1>7 DEF IndInv

(* A command that refuses, or has nothing to write, has an empty plan.      *)
LEMMA EmptyStep ==
    ASSUME IndInv, NEW w \in Commands, NEW answer \in {Done, Refused},
           Start(w, <<>>, answer), UNCHANGED target
    PROVE  IndInv'
  <1>0. PICK plan : plan = <<>>
    OBVIOUS
  <1>1. plan = <<>> /\ plan \in Seq(Effect)
    BY <1>0
  <1>2. answer \in Answer /\ answer.kind \in {"done", "refused"}
    BY AnswerTypes DEF Done, Refused
  <1>3. PlanOK(plan, answer)'
    BY <1>1, <1>2 DEF PlanOK
  <1>4. target \in [Challenges -> Devices \cup {NoDevice}]
    BY DEF IndInv, TypeOK
  <1> QED
    BY <1>1, <1>2, <1>3, <1>4, StartStep

(* A refused command plans nothing and answers so.                          *)
LEMMA RefuseStep ==
    ASSUME IndInv, NEW w \in Commands, Refuse(w)
    PROVE  IndInv'
  BY EmptyStep DEF Refuse

(* initialize starts only in an empty directory.                            *)
LEMMA InitializeStep ==
    ASSUME IndInv, NEW w \in Commands, Initialize(w)
    PROVE  IndInv'
  <1>1. CASE files = {} /\ Start(w, InitializePlan, Done) /\ UNCHANGED target
    <2>1. PICK plan : plan = InitializePlan
      OBVIOUS
    <2>2. /\ To("tls", "ca") \in Effect /\ To("tls", "caKey") \in Effect
          /\ To("tls", "cert") \in Effect /\ To("tls", "key") \in Effect
          /\ To("state", {}) \in Effect /\ To("config", NewConfig) \in Effect
      BY EffectTypes DEF TlsFiles, NewConfig, Config
    <2>3. plan \in Seq(Effect)
      BY <2>1, <2>2 DEF InitializePlan
    <2>4. files' = {}
      BY <1>1 DEF Start, disk
    <2>5. Initializing(plan)'
      BY <2>1, <2>4 DEF Initializing, InitializePlan
    <2>6. PlanOK(plan, Done)'
      BY <2>5 DEF PlanOK, Done
    <2>7. target \in [Challenges -> Devices \cup {NoDevice}]
      BY DEF IndInv, TypeOK
    <2> QED
      BY <1>1, <2>1, <2>3, <2>6, <2>7, AnswerTypes, StartStep
  <1> QED
    BY <1>1, RefuseStep DEF Initialize

(* A request gets a challenge that nobody has seen.                         *)
LEMMA RequestStep ==
    ASSUME IndInv, NEW w \in Commands, NEW c \in Challenges, NEW d \in Devices,
           CreateEnrollmentRequest(w, c, d)
    PROVE  IndInv'
  <1> DEFINE answer == [kind |-> "request", challenge |-> c]
  <1>1. PICK plan : plan = RequestPlan(c)
    OBVIOUS
  <1>2. /\ target[c] = NoDevice /\ StateLoads
        /\ target' = [target EXCEPT ![c] = d]
        /\ Start(w, plan, answer)
        /\ target \in [Challenges -> Devices \cup {NoDevice}]
        /\ pending \subseteq Challenges
    BY <1>1 DEF CreateEnrollmentRequest, IndInv, TypeOK
  <1>3. To("request", c) \in Effect /\ To("state", pending \cup {c}) \in Effect
    BY <1>2, EffectTypes
  <1>4. plan \in Seq(Effect) /\ answer \in Answer
    <2>1. answer \in Answer
      BY AnswerTypes
    <2>2. plan \in Seq(Effect)
      BY <1>1, <1>3 DEF RequestPlan
    <2> QED
      BY <2>1, <2>2
  <1>5. UNCHANGED <<files, pending, consumed, added>>
    BY <1>2 DEF Start, disk, history
  <1>6. added[c] = 0 /\ c \notin pending \cup consumed
    BY <1>2 DEF IndInv, Known
  <1>7. target'[c] # NoDevice
    BY <1>2
  <1>8. Requesting(plan, c)'
    BY <1>1, <1>2, <1>5, <1>6, <1>7 DEF Requesting, RequestPlan, StateLoads
  <1>9. PlanOK(plan, answer)'
    BY <1>8 DEF PlanOK
  <1>10. /\ target' \in [Challenges -> Devices \cup {NoDevice}]
         /\ \A e \in Challenges : target[e] # NoDevice => target'[e] = target[e]
    BY <1>2
  <1> QED
    BY <1>2, <1>4, <1>9, <1>10, StartStep

(* A receipt is accepted only for a challenge that is pending.              *)
LEMMA ReceiptStep ==
    ASSUME IndInv, NEW w \in Commands, NEW c \in Challenges, AddReceipt(w, c)
    PROVE  IndInv'
  <1> DEFINE answer == [kind |-> "import", challenge |-> c]
  <1>1. CASE /\ ConfigLoads /\ Matches(c) /\ Acceptable(WithDevice(c))
             /\ Start(w, ImportPlan(c), answer) /\ UNCHANGED target
    <2>1. PICK plan : plan = ImportPlan(c)
      OBVIOUS
    <2>2. UNCHANGED <<files, pending, config, receipts, crashes, added>>
      BY <1>1 DEF Start, disk, history
    <2>3. /\ target \in [Challenges -> Devices \cup {NoDevice}]
          /\ pending \subseteq Challenges /\ config \in Config
          /\ added \in [Challenges -> Nat]
      BY DEF IndInv, TypeOK
    <2>4. c \in receipts /\ c \in pending /\ target[c] \in Devices
      BY <1>1, <2>3 DEF Matches, IndInv, Known
    <2>5. WithDevice(c) \in Config
      BY <2>3, <2>4 DEF WithDevice, Config
    <2>6. /\ To("state", pending \ {c}) \in Effect
          /\ To("config", WithDevice(c)) \in Effect
      BY <2>3, <2>5, EffectTypes
    <2>7. plan \in Seq(Effect) /\ answer \in Answer
      <3>1. answer \in Answer
        BY AnswerTypes
      <3>2. plan \in Seq(Effect)
        BY <2>1, <2>6 DEF ImportPlan
      <3> QED
        BY <3>1, <3>2
    <2>8. added[c] <= crashes
      <3>1. job[w] = Idle
        BY <1>1 DEF Start
      <3>2. lock = Nobody
        BY <1>1 DEF Start, LockGranted
      <3>3. ~Finishing(c)
        BY <3>1, <3>2, OnlyHolderFinishes DEF Idle
      <3> QED
        BY <2>4, <3>3 DEF IndInv, UsedUp
    <2>9. Adding(plan, c)' \/ Consuming(plan, c)'
      <3>1. CASE target[c] \in config.devices
        BY <1>1, <2>1, <2>2, <2>4, <3>1 DEF ImportPlan, Consuming, ConfigLoads, StateLoads
      <3>2. CASE target[c] \notin config.devices
        BY <1>1, <2>1, <2>2, <2>4, <2>8, <3>2
           DEF ImportPlan, Adding, ConfigLoads, StateLoads, WithDevice, Acceptable
      <3> QED
        BY <3>1, <3>2
    <2>10. PlanOK(plan, answer)'
      BY <2>9 DEF PlanOK
    <2> QED
      BY <1>1, <2>1, <2>3, <2>7, <2>10, StartStep
  <1> QED
    BY <1>1, RefuseStep DEF AddReceipt

(* enable and disable check the list they are about to switch.              *)
LEMMA SetEnabledStep ==
    ASSUME IndInv, NEW w \in Commands, NEW enabled \in BOOLEAN, SetEnabled(w, enabled)
    PROVE  IndInv'
  <1> DEFINE switched == [config EXCEPT !.enabled = enabled]
  <1>1. CASE /\ ConfigLoads /\ (enabled => config.devices # {})
             /\ Start(w, <<To("config", switched)>>, Done) /\ UNCHANGED target
    <2>1. PICK plan : plan = <<To("config", switched)>>
      OBVIOUS
    <2>2. UNCHANGED <<files, config>>
      BY <1>1 DEF Start, disk
    <2>3. /\ target \in [Challenges -> Devices \cup {NoDevice}]
          /\ config \in Config
      BY DEF IndInv, TypeOK
    <2>4. switched \in Config
      BY <2>3 DEF Config
    <2>5. plan \in Seq(Effect)
      BY <2>1, <2>4, EffectTypes
    <2>6. Switching(plan)'
      <3>1. plan = <<To("config", [config' EXCEPT !.enabled = enabled])>>
        BY <2>1, <2>2
      <3>2. ConfigLoads' /\ (enabled => config'.devices # {})
        BY <1>1, <2>2 DEF ConfigLoads, StateLoads
      <3> QED
        BY <3>1, <3>2 DEF Switching
    <2>7. PlanOK(plan, Done)'
      BY <2>6 DEF PlanOK, Done
    <2> QED
      BY <1>1, <2>1, <2>3, <2>5, <2>7, AnswerTypes, StartStep
  <1> QED
    BY <1>1, RefuseStep DEF SetEnabled

(* remove-device checks that an enabled receiver keeps a device.            *)
LEMMA RemoveDeviceStep ==
    ASSUME IndInv, NEW w \in Commands, NEW d \in Devices, RemoveDevice(w, d)
    PROVE  IndInv'
  <1> DEFINE without == [config EXCEPT !.devices = @ \ {d}]
             answer == [kind |-> "remove", device |-> d]
  <1>1. CASE /\ ConfigLoads /\ (config.enabled => config.devices # {d})
             /\ Start(w, <<To("config", without)>>, answer) /\ UNCHANGED target
    <2>1. PICK plan : plan = <<To("config", without)>>
      OBVIOUS
    <2>2. UNCHANGED <<files, config>>
      BY <1>1 DEF Start, disk
    <2>3. /\ target \in [Challenges -> Devices \cup {NoDevice}]
          /\ config \in Config
      BY DEF IndInv, TypeOK
    <2>4. without \in Config
      BY <2>3 DEF Config
    <2>5. plan \in Seq(Effect) /\ answer \in Answer
      BY <2>1, <2>4, EffectTypes, AnswerTypes
    <2>6. Removing(plan, d)'
      <3>1. plan = <<To("config", [config' EXCEPT !.devices = @ \ {d}])>>
        BY <2>1, <2>2
      <3>2. ConfigLoads' /\ (config'.enabled => config'.devices # {d})
        BY <1>1, <2>2 DEF ConfigLoads, StateLoads
      <3> QED
        BY <3>1, <3>2 DEF Removing
    <2>7. PlanOK(plan, answer)'
      BY <2>6 DEF PlanOK
    <2> QED
      BY <1>1, <2>1, <2>3, <2>5, <2>7, StartStep
  <1> QED
    BY <1>1, RefuseStep DEF RemoveDevice

(* Every decision preserves the invariant.                                  *)
LEMMA DecideStep ==
    ASSUME IndInv, NEW w \in Commands, Decide(w)
    PROVE  IndInv'
  <1>1. CASE Status(w)
    BY <1>1, EmptyStep, RefuseStep DEF Status
  <1> QED
    BY <1>1, InitializeStep, RequestStep, RefuseStep, ReceiptStep, SetEnabledStep,
       RemoveDeviceStep DEF Decide, RequestRefused

------------------------------------------------------------------------------
(* Carrying a command out.                                                  *)

(* A command with something left to do is one of these.                     *)
LEMMA PlanCases ==
    ASSUME IndInv, NEW w \in Commands, NEW p, NEW a, p = job[w].plan,
           a = job[w].answer, p # <<>>
    PROVE  \/ a.kind = "done" /\ (Initializing(p) \/ Switching(p))
           \/ a.kind = "remove" /\ Removing(p, a.device)
           \/ a.kind = "request" /\ Requesting(p, a.challenge)
           \/ a.kind = "import" /\ (Adding(p, a.challenge) \/ Consuming(p, a.challenge))
  <1>1. a \in Answer /\ PlanOK(p, a)
    BY JobFacts
  <1> QED
    BY <1>1, AnswerShape DEF PlanOK

(* The file each of them writes next.                                       *)
LEMMA NextFile ==
    ASSUME NEW p, NEW c, NEW d
    PROVE  /\ Switching(p) \/ Removing(p, d) \/ Adding(p, c) => Head(p).file = "config"
           /\ Consuming(p, c) => Head(p).file = "state"
           /\ Requesting(p, c) => Head(p).file \in {"request", "state"}
  <1>1. Switching(p) => Head(p).file = "config"
    BY Tuples, ToFields DEF Switching
  <1>2. Removing(p, d) => Head(p).file = "config"
    BY Tuples, ToFields DEF Removing
  <1>3. Adding(p, c) => Head(p).file = "config"
    BY Tuples, ToFields DEF Adding
  <1>4. Consuming(p, c) => Head(p).file = "state"
    BY Tuples, ToFields DEF Consuming
  <1>5. Requesting(p, c) => Head(p).file \in {"request", "state"}
    BY Tuples, ToFields DEF Requesting
  <1> QED
    BY <1>1, <1>2, <1>3, <1>4, <1>5

(* A TLS file is written by initialize only, and no earlier than the ones   *)
(* before it.                                                               *)
LEMMA WriteTlsStep ==
    ASSUME IndInv, NEW w \in Commands, WriteTls(w)
    PROVE  IndInv'
  <1>1. PICK p, a : p = job[w].plan /\ a = job[w].answer
    OBVIOUS
  <1>2. /\ p # <<>> /\ Head(p).file = "tls"
        /\ files' = files \cup {Head(p).content} /\ Advance(w)
        /\ UNCHANGED <<lock, pending, config, requests, target, receipts, crashes,
                       told, consumed, added, listed>>
    BY <1>1 DEF WriteTls, NextIs, Content, history
  <1>3. a.kind = "done" /\ Initializing(p)
    BY <1>1, <1>2, PlanCases, NextFile
  <1>4. /\ Initializing(Tail(p))'
        /\ "config" \notin files' /\ "state" \notin files' /\ "state" \notin files
        /\ "config" \notin files /\ files' \subseteq Files
    <2>1. CASE files = {} /\ p = InitializePlan
      <3>1. /\ Head(p) = To("tls", "ca")
            /\ Tail(p) = <<To("tls", "caKey"), To("tls", "cert"), To("tls", "key"),
                           To("state", {}), To("config", NewConfig)>>
        BY <2>1, Tuples DEF InitializePlan
      <3>2. files' = {"ca"}
        BY <1>2, <2>1, <3>1, ToFields
      <3> QED
        BY <2>1, <3>1, <3>2 DEF Initializing, Files, TlsFiles
    <2>2. CASE /\ files = {"ca"}
               /\ p = <<To("tls", "caKey"), To("tls", "cert"), To("tls", "key"),
                        To("state", {}), To("config", NewConfig)>>
      <3>1. /\ Head(p) = To("tls", "caKey")
            /\ Tail(p) = <<To("tls", "cert"), To("tls", "key"), To("state", {}),
                           To("config", NewConfig)>>
        BY <2>2, Tuples
      <3>2. files' = {"ca", "caKey"}
        BY <1>2, <2>2, <3>1, ToFields
      <3> QED
        BY <2>2, <3>1, <3>2 DEF Initializing, Files, TlsFiles
    <2>3. CASE /\ files = {"ca", "caKey"}
               /\ p = <<To("tls", "cert"), To("tls", "key"), To("state", {}),
                        To("config", NewConfig)>>
      <3>1. /\ Head(p) = To("tls", "cert")
            /\ Tail(p) = <<To("tls", "key"), To("state", {}), To("config", NewConfig)>>
        BY <2>3, Tuples
      <3>2. files' = {"ca", "caKey", "cert"}
        BY <1>2, <2>3, <3>1, ToFields
      <3> QED
        BY <2>3, <3>1, <3>2 DEF Initializing, Files, TlsFiles
    <2>4. CASE /\ files = {"ca", "caKey", "cert"}
               /\ p = <<To("tls", "key"), To("state", {}), To("config", NewConfig)>>
      <3>1. /\ Head(p) = To("tls", "key")
            /\ Tail(p) = <<To("state", {}), To("config", NewConfig)>>
        BY <2>4, Tuples
      <3>2. files' = TlsFiles
        BY <1>2, <2>4, <3>1, ToFields DEF TlsFiles
      <3> QED
        BY <2>4, <3>1, <3>2 DEF Initializing, Files, TlsFiles
    <2>5. CASE p = <<To("state", {}), To("config", NewConfig)>>
               \/ p = <<To("config", NewConfig)>>
      BY <1>2, <2>5, Tuples, ToFields
    <2> QED
      BY <1>3, <2>1, <2>2, <2>3, <2>4, <2>5 DEF Initializing
  <1>5. PlanOK(Tail(p), a)'
    BY <1>3, <1>4 DEF PlanOK
  <1>6. /\ job' \in [Commands -> [plan : Seq(Effect), answer : Answer]]
        /\ LockInv' /\ JobInv'
    BY <1>1, <1>2, <1>5, AdvanceStep
  <1>7. TypeOK'
    BY <1>2, <1>4, <1>6 DEF IndInv, TypeOK
  <1>8. Loadable' /\ NoState' /\ ReportedIsKept' /\ Known'
    BY <1>2, <1>4 DEF IndInv, Loadable, Acceptable, NoState, StateLoads,
       ReportedIsKept, Known
  <1>9. UsedUp'
    <2>1. \A c \in Challenges : ~Finishing(c)
      BY <1>1, <1>2, <1>3, JobFacts, OnlyHolderFinishes
    <2> QED
      BY <1>2, <2>1 DEF IndInv, UsedUp
  <1> QED
    BY <1>6, <1>7, <1>8, <1>9 DEF IndInv

(* The request file is there before its challenge is pending.               *)
LEMMA WriteRequestStep ==
    ASSUME IndInv, NEW w \in Commands, WriteRequest(w)
    PROVE  IndInv'
  <1>1. PICK p, a : p = job[w].plan /\ a = job[w].answer
    OBVIOUS
  <1>2. /\ p # <<>> /\ Head(p).file = "request"
        /\ requests' = requests \cup {Head(p).content} /\ Advance(w)
        /\ UNCHANGED <<lock, files, pending, config, target, receipts, crashes,
                       told, consumed, added, listed>>
    BY <1>1 DEF WriteRequest, NextIs, Content, history
  <1>3. ~Initializing(p)
    BY <1>2, Tuples, ToFields DEF Initializing, InitializePlan
  <1>4. a.kind = "request" /\ Requesting(p, a.challenge)
    BY <1>1, <1>2, <1>3, PlanCases, NextFile
  <1>5. PICK c \in Challenges : c = a.challenge
    BY <1>1, <1>4, JobFacts, AnswerShape
  <1>6. p = <<To("request", c), To("state", pending \cup {c})>>
    BY <1>2, <1>4, <1>5, Tuples, ToFields DEF Requesting
  <1>7. Head(p).content = c /\ Tail(p) = <<To("state", pending \cup {c})>>
    BY <1>6, Tuples, ToFields
  <1>8. PlanOK(Tail(p), a)'
    <2>1. Requesting(Tail(p), c)'
      BY <1>2, <1>4, <1>5, <1>7 DEF Requesting, StateLoads
    <2> QED
      BY <1>4, <1>5, <2>1 DEF PlanOK
  <1>9. /\ job' \in [Commands -> [plan : Seq(Effect), answer : Answer]]
        /\ LockInv' /\ JobInv'
    BY <1>1, <1>2, <1>8, AdvanceStep
  <1>10. TypeOK'
    BY <1>2, <1>5, <1>7, <1>9 DEF IndInv, TypeOK
  <1>11. Loadable' /\ NoState' /\ ReportedIsKept'
    BY <1>2 DEF IndInv, Loadable, Acceptable, NoState, StateLoads, ReportedIsKept
  <1>12. Known'
    BY <1>2, <1>4, <1>5, <1>7 DEF IndInv, Known, Requesting
  <1>13. UsedUp'
    <2>1. \A e \in Challenges : ~Finishing(e)
      BY <1>1, <1>2, <1>4, JobFacts, OnlyHolderFinishes
    <2> QED
      BY <1>2, <2>1 DEF IndInv, UsedUp
  <1> QED
    BY <1>9, <1>10, <1>11, <1>12, <1>13 DEF IndInv

(* The state is replaced by one with, or without, the challenge at hand.    *)
LEMMA WriteStateStep ==
    ASSUME IndInv, NEW w \in Commands, WriteState(w)
    PROVE  IndInv'
  <1>1. PICK p, a : p = job[w].plan /\ a = job[w].answer
    OBVIOUS
  <1>2. /\ p # <<>> /\ Head(p).file = "state"
        /\ pending' = Head(p).content /\ files' = files \cup {"state"}
        /\ consumed' = IF a.kind = "import" THEN consumed \cup {a.challenge}
                       ELSE consumed
        /\ Advance(w)
        /\ UNCHANGED <<lock, config, requests, target, receipts, crashes,
                       told, added, listed>>
    BY <1>1 DEF WriteState, NextIs, Content, Imports
  <1>3. /\ p \in Seq(Effect) /\ a \in Answer /\ job[w] # Idle
        /\ pending' \subseteq Challenges /\ consumed' \subseteq Challenges
        /\ files' \subseteq Files
    <2>1. p \in Seq(Effect) /\ a \in Answer /\ job[w] # Idle
      BY <1>1, <1>2, JobFacts
    <2>2. pending' \subseteq Challenges
      BY <1>2, <2>1, HeadFacts, ContentTypes
    <2>3. consumed' \subseteq Challenges /\ files' \subseteq Files
      BY <1>2, <2>1, AnswerShape DEF IndInv, TypeOK, Files
    <2> QED
      BY <2>1, <2>2, <2>3
  <1>4. ASSUME PlanOK(Tail(p), a)'
        PROVE  TypeOK' /\ LockInv' /\ JobInv'
    <2>1. /\ job' \in [Commands -> [plan : Seq(Effect), answer : Answer]]
          /\ LockInv' /\ JobInv'
      BY <1>1, <1>2, <1>4, AdvanceStep
    <2> QED
      BY <1>2, <1>3, <2>1 DEF IndInv, TypeOK
  <1>5. CASE a.kind = "done" /\ Initializing(p)
    <2>1. files = TlsFiles /\ p = <<To("state", {}), To("config", NewConfig)>>
      BY <1>2, <1>5, Tuples, ToFields DEF Initializing, InitializePlan
    <2>2. /\ pending' = {} /\ files' = TlsFiles \cup {"state"}
          /\ Tail(p) = <<To("config", NewConfig)>>
      BY <1>2, <2>1, Tuples, ToFields
    <2>3. PlanOK(Tail(p), a)'
      <3>1. Initializing(Tail(p))'
        BY <2>2 DEF Initializing
      <3> QED
        BY <1>5, <3>1 DEF PlanOK
    <2>4. told = {} /\ "config" \notin files /\ "config" \notin files'
      BY <2>1, <2>2 DEF IndInv, NoState, StateLoads, TlsFiles
    <2>5. Loadable' /\ NoState' /\ ReportedIsKept'
      BY <1>2, <2>2, <2>4 DEF IndInv, Loadable, Acceptable, NoState, StateLoads,
         ReportedIsKept
    <2>7. Known'
      BY <1>2, <1>5, <2>2 DEF IndInv, Known
    <2>6. UsedUp'
      <3>1. \A c \in Challenges : ~Finishing(c)
        BY <1>1, <1>3, <1>5, OnlyHolderFinishes
      <3> QED
        BY <1>2, <2>2, <3>1 DEF IndInv, UsedUp
    <2> QED
      BY <1>4, <2>3, <2>5, <2>6, <2>7 DEF IndInv
  <1>6. CASE a.kind = "request" /\ Requesting(p, a.challenge)
    <2>1. PICK c \in Challenges : c = a.challenge
      BY <1>3, <1>6, AnswerShape
    <2>2. p = <<To("state", pending \cup {c})>>
      BY <1>2, <1>6, <2>1, Tuples, ToFields DEF Requesting
    <2>3. pending' = pending \cup {c} /\ Tail(p) = <<>> /\ consumed' = consumed
      BY <1>2, <1>6, <2>2, Tuples, ToFields
    <2>4. PlanOK(Tail(p), a)'
      BY <1>6, <2>1, <2>3 DEF PlanOK
    <2>5. /\ StateLoads /\ files' = files /\ added[c] = 0
          /\ target[c] # NoDevice /\ c \notin consumed
      BY <1>2, <1>6, <2>1 DEF Requesting, StateLoads
    <2>6. Loadable' /\ NoState' /\ ReportedIsKept' /\ Known'
      BY <1>2, <2>3, <2>5 DEF IndInv, Loadable, Acceptable, NoState, StateLoads,
         ReportedIsKept, Known
    <2>7. UsedUp'
      <3>1. \A e \in Challenges : ~Finishing(e)
        BY <1>1, <1>3, <1>6, OnlyHolderFinishes
      <3>2. crashes \in Nat /\ added[c] <= crashes
        BY <2>5 DEF IndInv, TypeOK
      <3> QED
        BY <1>2, <2>3, <3>1, <3>2 DEF IndInv, UsedUp
    <2> QED
      BY <1>4, <2>4, <2>6, <2>7 DEF IndInv
  <1>7. CASE a.kind = "import" /\ Consuming(p, a.challenge)
    <2>1. PICK c \in Challenges : c = a.challenge
      BY <1>3, <1>7, AnswerShape
    <2>2. /\ p = <<To("state", pending \ {c})>>
          /\ StateLoads /\ target[c] \in config.devices /\ c \in pending
      BY <1>7, <2>1 DEF Consuming, ConfigLoads
    <2>3. /\ pending' = pending \ {c} /\ Tail(p) = <<>>
          /\ consumed' = consumed \cup {c} /\ files' = files
      BY <1>2, <1>7, <2>1, <2>2, Tuples, ToFields DEF StateLoads
    <2>4. PlanOK(Tail(p), a)'
      BY <1>2, <1>7, <2>1, <2>2, <2>3 DEF PlanOK
    <2>5. Loadable' /\ NoState' /\ ReportedIsKept' /\ Known'
      BY <1>2, <2>2, <2>3 DEF IndInv, Loadable, Acceptable, NoState, StateLoads,
         ReportedIsKept, Known
    <2>6. UsedUp'
      <3>1. ASSUME NEW e \in Challenges, e # c PROVE ~Finishing(e)
        <4>1. ASSUME NEW v \in Commands, job[v].answer.kind = "import"
              PROVE  job[v].answer = a
          <5>1. job[v] # Idle
            BY <4>1 DEF Idle
          <5>2. v = w
            BY <1>3, <5>1, OthersIdle
          <5> QED
            BY <1>1, <5>2
        <4>2. a # [kind |-> "import", challenge |-> e]
          BY <2>1, <3>1
        <4> QED
          BY <4>1, <4>2 DEF Finishing
      <3>2. ASSUME NEW e \in Challenges
            PROVE  added[e] <= crashes
                   \/ (added[e] = crashes + 1 /\ e \notin pending')
        BY <2>3, <3>1, <3>2 DEF IndInv, UsedUp
      <3> QED
        BY <1>2, <3>2 DEF UsedUp
    <2> QED
      BY <1>4, <2>4, <2>5, <2>6 DEF IndInv
  <1>8. ~Switching(p) /\ ~Removing(p, a.device) /\ ~Adding(p, a.challenge)
    BY <1>2, NextFile
  <1> QED
    BY <1>1, <1>2, <1>5, <1>6, <1>7, <1>8, PlanCases

(* The configuration is replaced by one that has been checked.              *)
LEMMA WriteConfigStep ==
    ASSUME IndInv, NEW w \in Commands, WriteConfig(w)
    PROVE  /\ IndInv'
           /\ \A d \in config'.devices \ config.devices :
                 \E c \in receipts : target[c] = d /\ c \in pending
  <1>1. PICK p, a : p = job[w].plan /\ a = job[w].answer
    OBVIOUS
  <1>2. /\ p # <<>> /\ Head(p).file = "config"
        /\ config' = Head(p).content /\ files' = files \cup {"config"}
        /\ added' = IF a.kind = "import" THEN [added EXCEPT ![a.challenge] = @ + 1]
                    ELSE added
        /\ listed' = IF a.kind = "remove" THEN listed \ {a.device} ELSE listed
        /\ Advance(w)
        /\ UNCHANGED <<lock, pending, requests, target, receipts, crashes,
                       told, consumed>>
    BY <1>1 DEF WriteConfig, NextIs, Content, Imports
  <1>3. /\ p \in Seq(Effect) /\ a \in Answer /\ job[w] # Idle
        /\ config' \in Config /\ config \in Config
        /\ added \in [Challenges -> Nat] /\ added' \in [Challenges -> Nat]
        /\ listed' \subseteq listed /\ files' \subseteq Files
        /\ pending \subseteq Challenges
    <2>1. p \in Seq(Effect) /\ a \in Answer /\ job[w] # Idle
      BY <1>1, <1>2, JobFacts
    <2>2. config' \in Config
      BY <1>2, <2>1, HeadFacts, ContentTypes
    <2>3. /\ added \in [Challenges -> Nat] /\ config \in Config /\ files \subseteq Files
          /\ pending \subseteq Challenges
      BY DEF IndInv, TypeOK
    <2>4. added' \in [Challenges -> Nat]
      BY <1>2, <2>1, <2>3, AnswerShape
    <2> QED
      BY <1>2, <2>1, <2>2, <2>3, <2>4 DEF Files
  <1>4. ASSUME PlanOK(Tail(p), a)'
        PROVE  TypeOK' /\ LockInv' /\ JobInv' /\ job'[w].plan = Tail(p)
               /\ job'[w].answer = a
    <2>1. /\ job' \in [Commands -> [plan : Seq(Effect), answer : Answer]]
          /\ job'[w].plan = Tail(p) /\ job'[w].answer = a
          /\ LockInv' /\ JobInv'
      BY <1>1, <1>2, <1>4, AdvanceStep
    <2> QED
      BY <1>2, <1>3, <2>1 DEF IndInv, TypeOK
  <1>5. ASSUME a.kind # "import" PROVE UsedUp'
    <2>1. \A c \in Challenges : ~Finishing(c)
      BY <1>1, <1>3, <1>5, OnlyHolderFinishes
    <2> QED
      BY <1>2, <1>5, <2>1 DEF IndInv, UsedUp
  <1>6. NoState'
    BY <1>2 DEF IndInv, NoState, StateLoads
  <1>7. ASSUME a.kind # "import" PROVE Known'
    BY <1>2, <1>7 DEF IndInv, Known
  <1>8. CASE a.kind = "done" /\ Initializing(p)
    <2>1. files = TlsFiles \cup {"state"} /\ p = <<To("config", NewConfig)>>
      BY <1>2, <1>8, Tuples, ToFields DEF Initializing, InitializePlan
    <2>2. /\ config' = NewConfig /\ files' = Files /\ Tail(p) = <<>>
          /\ "config" \notin files /\ listed' = listed
      BY <1>2, <1>8, <2>1, Tuples, ToFields DEF Files, TlsFiles
    <2>3. config = NewConfig
      BY <2>2 DEF IndInv, Loadable
    <2>4. PlanOK(Tail(p), a)'
      BY <1>8, <2>2 DEF PlanOK
    <2>5. Loadable' /\ ReportedIsKept'
      BY <1>2, <2>2, <2>3 DEF IndInv, Loadable, Acceptable, ReportedIsKept
    <2> QED
      BY <1>4, <1>5, <1>6, <1>7, <1>8, <2>2, <2>3, <2>4, <2>5 DEF IndInv
  <1>9. CASE a.kind = "done" /\ Switching(p)
    <2>1. PICK enabled \in BOOLEAN :
             /\ p = <<To("config", [config EXCEPT !.enabled = enabled])>>
             /\ ConfigLoads
             /\ enabled => config.devices # {}
      BY <1>9 DEF Switching
    <2>2. /\ config' = [config EXCEPT !.enabled = enabled] /\ Tail(p) = <<>>
          /\ listed' = listed
      BY <1>2, <1>9, <2>1, Tuples, ToFields
    <2>3. config'.enabled = enabled /\ config'.devices = config.devices
      BY <1>3, <2>2 DEF Config
    <2>4. files = Files /\ files' = Files
      BY <1>2, <2>1 DEF IndInv, Loadable, ConfigLoads, Files
    <2>5. PlanOK(Tail(p), a)'
      BY <1>9, <2>2 DEF PlanOK
    <2>6. Loadable' /\ ReportedIsKept'
      BY <1>2, <2>1, <2>2, <2>3, <2>4
         DEF IndInv, Loadable, Acceptable, ReportedIsKept, Files
    <2> QED
      BY <1>4, <1>5, <1>6, <1>7, <1>9, <2>3, <2>5, <2>6 DEF IndInv
  <1>10. CASE a.kind = "remove" /\ Removing(p, a.device)
    <2>1. PICK d \in Devices : d = a.device
      BY <1>3, <1>10, AnswerShape
    <2>2. /\ p = <<To("config", [config EXCEPT !.devices = @ \ {d}])>>
          /\ ConfigLoads
          /\ config.enabled => config.devices # {d}
      BY <1>10, <2>1 DEF Removing
    <2>3. /\ config' = [config EXCEPT !.devices = @ \ {d}] /\ Tail(p) = <<>>
          /\ listed' = listed \ {d}
      BY <1>2, <1>10, <2>1, <2>2, Tuples, ToFields
    <2>4. /\ config'.enabled = config.enabled /\ config'.devices = config.devices \ {d}
          /\ config.devices \subseteq Devices
      BY <1>3, <2>3 DEF Config
    <2>5. files = Files /\ files' = Files
      BY <1>2, <2>2 DEF IndInv, Loadable, ConfigLoads, Files
    <2>6. PlanOK(Tail(p), a)'
      BY <1>10, <2>3 DEF PlanOK
    <2>7. Acceptable(config')
      <3>1. /\ IsFiniteSet(config.devices) /\ IsFiniteSet(config'.devices)
            /\ Cardinality(config'.devices) <= Cardinality(config.devices)
        BY <2>4, FS_Subset
      <3>2. Cardinality(config.devices) \in Nat /\ Cardinality(config'.devices) \in Nat
        BY <3>1, FS_CardinalityType
      <3>3. Acceptable(config)
        BY DEF IndInv, Loadable
      <3> QED
        BY <2>2, <2>4, <3>1, <3>2, <3>3 DEF Acceptable
    <2>8. Loadable' /\ ReportedIsKept'
      BY <1>2, <2>3, <2>4, <2>5, <2>7
         DEF IndInv, Loadable, Acceptable, ReportedIsKept, Files
    <2> QED
      BY <1>4, <1>5, <1>6, <1>7, <1>10, <2>4, <2>6, <2>8 DEF IndInv
  <1>11. CASE a.kind = "import" /\ Adding(p, a.challenge)
    <2>1. PICK c \in Challenges : c = a.challenge
      BY <1>3, <1>11, AnswerShape
    <2>2. /\ p = <<To("config", WithDevice(c)), To("state", pending \ {c})>>
          /\ ConfigLoads /\ c \in receipts /\ c \in pending
          /\ Acceptable(WithDevice(c))
          /\ added[c] <= crashes
      BY <1>11, <2>1 DEF Adding
    <2>3. /\ config' = WithDevice(c) /\ Tail(p) = <<To("state", pending \ {c})>>
          /\ listed' = listed /\ added' = [added EXCEPT ![c] = @ + 1]
      BY <1>2, <1>11, <2>1, <2>2, Tuples, ToFields
    <2>4. config'.devices = config.devices \cup {target[c]}
      BY <1>3, <2>3 DEF WithDevice, Config
    <2>5. files = Files /\ files' = Files
      BY <1>2, <2>2 DEF IndInv, Loadable, ConfigLoads, Files
    <2>6. PlanOK(Tail(p), a)'
      <3>1. Consuming(Tail(p), c)'
        BY <1>2, <2>2, <2>3, <2>4, <2>5 DEF Consuming, ConfigLoads, StateLoads, Files
      <3> QED
        BY <1>11, <2>1, <3>1 DEF PlanOK
    <2>7. Loadable' /\ ReportedIsKept'
      BY <1>2, <2>2, <2>3, <2>4, <2>5
         DEF IndInv, Loadable, Acceptable, ReportedIsKept, Files
    <2>8. Known'
      <3>1. target[c] # NoDevice
        BY <2>2 DEF IndInv, Known
      <3> QED
        BY <1>2, <1>3, <2>3, <3>1 DEF IndInv, Known
    <2>9. UsedUp'
      <3>1. a = [kind |-> "import", challenge |-> c]
        BY <1>3, <1>11, <2>1, AnswerShape
      <3>2. Finishing(c)'
        BY <1>2, <1>4, <2>3, <2>6, <3>1 DEF Finishing
      <3>3. ASSUME NEW e \in Challenges, e # c PROVE ~Finishing(e)
        <4>1. ASSUME NEW v \in Commands, job[v].answer.kind = "import"
              PROVE  job[v].answer = a
          <5>1. job[v] # Idle
            BY <4>1 DEF Idle
          <5>2. v = w
            BY <1>3, <5>1, OthersIdle
          <5> QED
            BY <1>1, <5>2
        <4>2. a # [kind |-> "import", challenge |-> e]
          BY <3>1, <3>3
        <4> QED
          BY <4>1, <4>2 DEF Finishing
      <3>4. ASSUME NEW e \in Challenges, e # c
            PROVE  added'[e] <= crashes
                   \/ (added'[e] = crashes + 1 /\ e \notin pending)
        BY <1>3, <2>3, <3>3, <3>4 DEF IndInv, UsedUp
      <3>5. added'[c] <= crashes + 1
        <4>1. added[c] \in Nat /\ crashes \in Nat /\ added \in [Challenges -> Nat]
          BY DEF IndInv, TypeOK
        <4> QED
          BY <2>2, <2>3, <4>1
      <3>6. added'[c] \in Nat /\ crashes \in Nat /\ UNCHANGED <<crashes, pending>>
        <4>1. added \in [Challenges -> Nat] /\ crashes \in Nat
          BY DEF IndInv, TypeOK
        <4> QED
          BY <1>2, <2>3, <4>1
      <3> QED
        BY <3>2, <3>4, <3>5, <3>6 DEF UsedUp
    <2> QED
      BY <1>4, <1>6, <2>2, <2>4, <2>6, <2>7, <2>8, <2>9 DEF IndInv
  <1>12. ~Consuming(p, a.challenge) /\ ~Requesting(p, a.challenge)
    BY <1>2, NextFile
  <1> QED
    BY <1>1, <1>2, <1>8, <1>9, <1>10, <1>11, <1>12, PlanCases

(* What the operator is told at the end is so.                              *)
LEMMA ReturnStep ==
    ASSUME IndInv, NEW w \in Commands, Return(w)
    PROVE  IndInv'
  <1>1. PICK a : a = job[w].answer
    OBVIOUS
  <1>2. /\ job[w] # Idle /\ job[w].plan = <<>>
        /\ lock' = Nobody /\ job' = [job EXCEPT ![w] = Idle]
        /\ told' = IF a.kind = "request" THEN told \cup {a.challenge} ELSE told
        /\ listed' = IF a.kind = "import" THEN listed \cup {target[a.challenge]}
                     ELSE listed
        /\ UNCHANGED <<files, pending, config, requests, target, receipts, crashes,
                       consumed, added>>
    BY <1>1 DEF Return, disk
  <1>3. /\ a \in Answer /\ PlanOK(<<>>, a)
        /\ \A v \in Commands : job'[v] = Idle
        /\ job' \in [Commands -> [plan : Seq(Effect), answer : Answer]]
        /\ LockInv' /\ JobInv'
    BY <1>1, <1>2, JobFacts, AllIdle
  <1>4. a.kind = "request" => a.challenge \in pending /\ a.challenge \in Challenges
    <2>1. a.kind = "request" => ~Requesting(<<>>, a.challenge)
      BY DEF Requesting
    <2> QED
      BY <1>3, <2>1, AnswerShape DEF PlanOK
  <1>5. a.kind = "import" => target[a.challenge] \in config.devices
    <2>1. ~Adding(<<>>, a.challenge) /\ ~Consuming(<<>>, a.challenge)
      BY DEF Adding, Consuming
    <2> QED
      BY <1>3, <2>1 DEF PlanOK
  <1>6. config.devices \subseteq Devices
    BY DEF IndInv, TypeOK, Config
  <1>7. TypeOK'
    BY <1>2, <1>3, <1>4, <1>5, <1>6 DEF IndInv, TypeOK
  <1>8. Loadable' /\ Known'
    BY <1>2 DEF IndInv, Loadable, Acceptable, Known
  <1>9. NoState' /\ ReportedIsKept'
    BY <1>2, <1>4, <1>5 DEF IndInv, NoState, StateLoads, ReportedIsKept
  <1>10. UsedUp'
    <2>1. \A c \in Challenges : ~Finishing(c)
      BY <1>2, OnlyHolderFinishes
    <2> QED
      BY <1>2, <2>1 DEF IndInv, UsedUp
  <1> QED
    BY <1>3, <1>7, <1>8, <1>9, <1>10 DEF IndInv

(* A command that dies leaves the files as they are, and nobody was told    *)
(* anything.                                                                *)
LEMMA CrashStep ==
    ASSUME IndInv, NEW w \in Commands, Crash(w)
    PROVE  IndInv'
  <1>1. /\ job[w] # Idle /\ crashes' = crashes + 1 /\ crashes \in Nat
        /\ lock' = Nobody /\ job' = [job EXCEPT ![w] = Idle]
        /\ UNCHANGED <<files, pending, config, requests, target, receipts, told,
                       consumed, added, listed>>
    BY DEF Crash, disk, history, IndInv, TypeOK
  <1>2. /\ job' \in [Commands -> [plan : Seq(Effect), answer : Answer]]
        /\ LockInv' /\ JobInv'
    BY <1>1, AllIdle
  <1>3. TypeOK'
    BY <1>1, <1>2 DEF IndInv, TypeOK
  <1>4. Loadable' /\ Known' /\ NoState' /\ ReportedIsKept'
    BY <1>1 DEF IndInv, Loadable, Acceptable, Known, NoState, StateLoads,
       ReportedIsKept
  <1>5. UsedUp'
    BY <1>1 DEF IndInv, TypeOK, UsedUp
  <1> QED
    BY <1>2, <1>3, <1>4, <1>5 DEF IndInv

(* Plans fit the files for as long as the files stay; more receipts do not  *)
(* matter.                                                                  *)
LEMMA JobsKept ==
    ASSUME IndInv, receipts \subseteq receipts',
           UNCHANGED <<files, pending, config, target, job, crashes, added,
                       consumed>>
    PROVE  JobInv'
  <1>1. ASSUME NEW p, NEW a, PlanOK(p, a) PROVE PlanOK(p, a)'
    <2>1. /\ Adding(p, a.challenge) => Adding(p, a.challenge)'
          /\ Consuming(p, a.challenge) => Consuming(p, a.challenge)'
      BY DEF Adding, Consuming, ConfigLoads, StateLoads, WithDevice, Acceptable
    <2>2. /\ Initializing(p) <=> Initializing(p)'
          /\ Switching(p) <=> Switching(p)'
          /\ Removing(p, a.device) <=> Removing(p, a.device)'
          /\ Requesting(p, a.challenge) <=> Requesting(p, a.challenge)'
      BY DEF Initializing, Switching, Removing, Requesting, ConfigLoads, StateLoads
    <2> QED
      BY <1>1, <2>1, <2>2 DEF PlanOK
  <1>2. ASSUME NEW w \in Commands PROVE PlanOK(job[w].plan, job[w].answer)'
    <2>1. PICK p, a : p = job[w].plan /\ a = job[w].answer /\ PlanOK(p, a)
      BY DEF IndInv, JobInv
    <2>2. PlanOK(p, a)'
      BY <1>1, <2>1
    <2>3. job'[w].plan = p /\ job'[w].answer = a
      BY <2>1
    <2> QED
      BY <2>2, <2>3
  <1> QED
    BY <1>2 DEF JobInv

(* The device signs in its own time, also while a command is under way.     *)
LEMMA DeviceSignsStep ==
    ASSUME IndInv, NEW c \in Challenges, DeviceSigns(c)
    PROVE  IndInv'
  <1>1. /\ c \in requests /\ receipts' = receipts \cup {c}
        /\ UNCHANGED <<lock, files, pending, config, requests, target, job, crashes,
                       told, consumed, added, listed>>
    BY DEF DeviceSigns, disk, history
  <1>3. JobInv'
    BY <1>1, JobsKept
  <1>4. TypeOK' /\ LockInv'
    BY <1>1 DEF IndInv, TypeOK, LockInv
  <1>5. Loadable' /\ Known' /\ NoState' /\ ReportedIsKept'
    BY <1>1 DEF IndInv, Loadable, Acceptable, Known, NoState, StateLoads,
       ReportedIsKept
  <1>6. UsedUp'
    BY <1>1 DEF IndInv, UsedUp, Finishing
  <1> QED
    BY <1>3, <1>4, <1>5, <1>6 DEF IndInv

------------------------------------------------------------------------------
(* Theorems.                                                                *)

(* Before initialize, everything is empty.                                  *)
LEMMA InitInd == Init => IndInv
  <1> SUFFICES ASSUME Init PROVE IndInv
    OBVIOUS
  <1>1. \A w \in Commands : job[w] = Idle
    BY DEF Init
  <1>2. Idle \in [plan : Seq(Effect), answer : Answer]
    BY DEF Idle, Answer
  <1>3. config \in Config /\ config.devices = {} /\ config.enabled = FALSE
    BY DEF Init, NewConfig, Config
  <1>4. TypeOK
    BY <1>2, <1>3 DEF Init, TypeOK
  <1>5. LockInv /\ JobInv
    BY <1>1 DEF LockInv, JobInv, PlanOK, Idle
  <1>6. Loadable
    <2>1. Cardinality(config.devices) <= MaxDevices
      BY <1>3, FS_EmptySet
    <2> QED
      BY <1>3, <2>1 DEF Init, Loadable, Acceptable
  <1>7. NoState /\ Known /\ ReportedIsKept /\ UsedUp
    BY <1>3 DEF Init, NoState, Known, ReportedIsKept, UsedUp
  <1> QED
    BY <1>4, <1>5, <1>6, <1>7 DEF IndInv

(* Every step preserves the invariant, and puts a device on the list only   *)
(* for its receipt.                                                         *)
LEMMA NextInd ==
    IndInv /\ [Next]_vars =>
        /\ IndInv'
        /\ \A d \in config'.devices \ config.devices :
              \E c \in receipts : target[c] = d /\ c \in pending
  <1> SUFFICES ASSUME IndInv, [Next]_vars
               PROVE  /\ IndInv'
                      /\ \A d \in config'.devices \ config.devices :
                            \E c \in receipts : target[c] = d /\ c \in pending
    OBVIOUS
  <1>1. CASE UNCHANGED vars
    <2>1. UNCHANGED <<lock, files, pending, config, requests, target, receipts, job,
                      crashes, told, consumed, added, listed>>
      BY <1>1 DEF vars, disk, history
    <2>2. TypeOK' /\ LockInv' /\ Loadable' /\ NoState' /\ Known' /\ ReportedIsKept'
          /\ UsedUp'
      BY <2>1 DEF IndInv, TypeOK, LockInv, Loadable, Acceptable, NoState,
         StateLoads, Known, ReportedIsKept, UsedUp, Finishing
    <2>3. JobInv'
      BY <2>1, JobsKept
    <2> QED
      BY <2>1, <2>2, <2>3 DEF IndInv
  <1>2. ASSUME NEW w \in Commands, WriteConfig(w)
        PROVE  /\ IndInv'
               /\ \A d \in config'.devices \ config.devices :
                     \E c \in receipts : target[c] = d /\ c \in pending
    BY <1>2, WriteConfigStep
  <1>3. ASSUME NEW w \in Commands,
               Decide(w) \/ WriteTls(w) \/ WriteRequest(w) \/ WriteState(w)
                         \/ Return(w) \/ Crash(w)
        PROVE  IndInv' /\ config' = config
    <2>1. IndInv'
      BY <1>3, DecideStep, WriteTlsStep, WriteRequestStep, WriteStateStep,
         ReturnStep, CrashStep
    <2>2. config' = config
      BY <1>3 DEF Decide, Initialize, CreateEnrollmentRequest, RequestRefused,
         AddReceipt, SetEnabled, RemoveDevice, Status, Refuse, Start, disk,
         WriteTls, WriteRequest, WriteState, Return, Crash
    <2> QED
      BY <2>1, <2>2
  <1>4. ASSUME NEW c \in Challenges, DeviceSigns(c)
        PROVE  IndInv' /\ config' = config
    BY <1>4, DeviceSignsStep DEF DeviceSigns, disk
  <1> QED
    BY <1>1, <1>2, <1>3, <1>4 DEF Next, Perform

(* The inductive invariant holds in every reachable state.                  *)
THEOREM Invariance == Spec => []IndInv
  <1>1. IndInv /\ [Next]_vars => IndInv'
    BY NextInd
  <1> QED
    BY InitInd, <1>1, PTL DEF Spec

(* Every variable keeps its shape.                                          *)
THEOREM TypeTheorem == Spec => []TypeOK
  <1>1. IndInv => TypeOK
    BY DEF IndInv
  <1> QED
    BY <1>1, Invariance, PTL

(* Wherever commands are interrupted, and however many, the receiver can    *)
(* load the configuration once it is there.                                 *)
THEOREM LoadableTheorem == Spec => []AlwaysLoadable
  <1>1. IndInv => AlwaysLoadable
    BY DEF IndInv, Loadable, Acceptable, AlwaysLoadable
  <1> QED
    BY <1>1, Invariance, PTL

(* No command undoes what another one has reported.                         *)
THEOREM ReportedTheorem == Spec => []ReportedIsKept
  <1>1. IndInv => ReportedIsKept
    BY DEF IndInv
  <1> QED
    BY <1>1, Invariance, PTL

(* A challenge is one-time but for one more use per interrupted command.    *)
THEOREM UsedOnceTheorem == Spec => []OneMoreUsePerCrash
  <1>1. IndInv => OneMoreUsePerCrash
    BY DEF IndInv, TypeOK, UsedUp, OneMoreUsePerCrash
  <1> QED
    BY <1>1, Invariance, PTL

(* A device enters the list only through its receipt for a challenge that   *)
(* is pending at that moment, also when commands are interrupted.           *)
THEOREM EntersTheorem == Spec => EntersOnlyByReceipt
  <1>1. IndInv /\ [Next]_vars =>
            [\A d \in config'.devices \ config.devices :
                \E c \in receipts : target[c] = d /\ c \in pending]_vars
    BY NextInd
  <1> QED
    BY <1>1, Invariance, PTL DEF Spec, EntersOnlyByReceipt

------------------------------------------------------------------------------
(* The two files as a RelayLedger.                                          *)

(* A configuration is two files' worth of nothing to begin with.            *)
LEMMA LedgerInit == Init => Ledger!Init
  BY DEF Init, NewConfig, Ledger!Init

(* What the ledger sees of a step that touches neither file, the challenges *)
(* nor the receipts.                                                        *)
LEMMA LedgerStutter ==
    ASSUME UNCHANGED <<target, pending, consumed, receipts, config.devices>>
    PROVE  [Ledger!Next]_(Ledger!vars)
  BY DEF Ledger!vars

(* A challenge is made when its request is decided on.                      *)
LEMMA DecideLedger ==
    ASSUME IndInv, NEW w \in Commands, Decide(w)
    PROVE  [Ledger!Next]_(Ledger!vars)
  <1>1. ASSUME NEW c \in Challenges, NEW d \in Devices,
               CreateEnrollmentRequest(w, c, d)
        PROVE  Ledger!Next
    <2>1. Ledger!Make(c, d)
      BY <1>1 DEF CreateEnrollmentRequest, Start, disk, history, Ledger!Make,
         Ledger!Made
    <2> QED
      BY <2>1 DEF Ledger!Next
  <1>2. ASSUME ~\E c \in Challenges, d \in Devices : CreateEnrollmentRequest(w, c, d)
        PROVE  UNCHANGED <<target, pending, consumed, receipts, config>>
    BY <1>2 DEF Decide, Initialize, RequestRefused, AddReceipt, SetEnabled,
       RemoveDevice, Status, Refuse, Start, disk, history
  <1> QED
    BY <1>1, <1>2, LedgerStutter

(* The state file is replaced: one challenge becomes pending, or one is     *)
(* taken, and nothing else happens.                                         *)
LEMMA WriteStateLedger ==
    ASSUME IndInv, NEW w \in Commands, WriteState(w)
    PROVE  [Ledger!Next]_(Ledger!vars)
  <1>1. PICK p, a : p = job[w].plan /\ a = job[w].answer
    OBVIOUS
  <1>2. /\ p # <<>> /\ Head(p).file = "state" /\ pending' = Head(p).content
        /\ consumed' = IF a.kind = "import" THEN consumed \cup {a.challenge}
                       ELSE consumed
        /\ UNCHANGED <<config, target, receipts>>
    BY <1>1 DEF WriteState, NextIs, Content, Imports
  <1>3. CASE a.kind = "done" /\ Initializing(p)
    <2>1. files = TlsFiles /\ p = <<To("state", {}), To("config", NewConfig)>>
      BY <1>2, <1>3, Tuples, ToFields DEF Initializing, InitializePlan
    <2>2. pending = {} /\ pending' = {}
      BY <1>2, <2>1, Tuples, ToFields DEF IndInv, NoState, StateLoads, TlsFiles
    <2> QED
      BY <1>2, <1>3, <2>2, LedgerStutter
  <1>4. CASE a.kind = "request" /\ Requesting(p, a.challenge)
    <2>1. PICK c \in Challenges : c = a.challenge
      BY <1>1, <1>4, JobFacts, AnswerShape
    <2>2. p = <<To("state", pending \cup {c})>>
      BY <1>2, <1>4, <2>1, Tuples, ToFields DEF Requesting
    <2>3. pending' = pending \cup {c}
      BY <1>2, <2>2, Tuples, ToFields
    <2>4. Ledger!Await(c)
      BY <1>2, <1>4, <2>1, <2>3 DEF Requesting, Ledger!Await, Ledger!Made
    <2> QED
      BY <2>4 DEF Ledger!Next
  <1>5. CASE a.kind = "import" /\ Consuming(p, a.challenge)
    <2>1. PICK c \in Challenges : c = a.challenge
      BY <1>1, <1>5, JobFacts, AnswerShape
    <2>2. /\ p = <<To("state", pending \ {c})>> /\ target[c] \in config.devices
          /\ c \in pending \cap receipts
      BY <1>5, <2>1 DEF Consuming
    <2>3. pending' = pending \ {c} /\ consumed' = consumed \cup {c}
      BY <1>2, <1>5, <2>1, <2>2, Tuples, ToFields
    <2>4. config'.devices = config.devices \cup {target[c]}
      BY <1>2, <2>2
    <2>5. Ledger!Import(c)
      BY <1>2, <2>2, <2>3, <2>4 DEF Ledger!Import
    <2> QED
      BY <2>5 DEF Ledger!Next
  <1>6. ~Switching(p) /\ ~Removing(p, a.device) /\ ~Adding(p, a.challenge)
    BY <1>2, NextFile
  <1> QED
    BY <1>1, <1>2, <1>3, <1>4, <1>5, <1>6, PlanCases

(* The configuration is replaced: one device comes onto the list by its     *)
(* receipt, or one is removed, and no other comes or goes.                  *)
LEMMA WriteConfigLedger ==
    ASSUME IndInv, NEW w \in Commands, WriteConfig(w)
    PROVE  [Ledger!Next]_(Ledger!vars)
  <1>1. PICK p, a : p = job[w].plan /\ a = job[w].answer
    OBVIOUS
  <1>2. /\ p # <<>> /\ Head(p).file = "config" /\ config' = Head(p).content
        /\ UNCHANGED <<pending, target, receipts, consumed>>
        /\ config \in Config
    BY <1>1 DEF WriteConfig, NextIs, Content, IndInv, TypeOK
  <1>3. CASE a.kind = "done" /\ (Initializing(p) \/ Switching(p))
    <2>1. CASE Initializing(p)
      <3>1. files = TlsFiles \cup {"state"} /\ p = <<To("config", NewConfig)>>
        BY <1>2, <2>1, Tuples, ToFields DEF Initializing, InitializePlan
      <3>2. config' = NewConfig /\ config = NewConfig
        BY <1>2, <3>1, Tuples, ToFields DEF IndInv, Loadable, TlsFiles
      <3> QED
        BY <1>2, <3>2, LedgerStutter
    <2>2. CASE Switching(p)
      <3>1. PICK enabled \in BOOLEAN :
               p = <<To("config", [config EXCEPT !.enabled = enabled])>>
        BY <2>2 DEF Switching
      <3>2. config'.devices = config.devices
        BY <1>2, <3>1, Tuples, ToFields DEF Config
      <3> QED
        BY <1>2, <3>2, LedgerStutter
    <2> QED
      BY <1>3, <2>1, <2>2
  <1>4. CASE a.kind = "remove" /\ Removing(p, a.device)
    <2>1. PICK d \in Devices : d = a.device
      BY <1>1, <1>4, JobFacts, AnswerShape
    <2>2. p = <<To("config", [config EXCEPT !.devices = @ \ {d}])>>
      BY <1>4, <2>1 DEF Removing
    <2>3. config'.devices = config.devices \ {d}
      BY <1>2, <2>2, Tuples, ToFields DEF Config
    <2>4. Ledger!Remove(d)
      BY <1>2, <2>3 DEF Ledger!Remove
    <2> QED
      BY <2>4 DEF Ledger!Next
  <1>5. CASE a.kind = "import" /\ Adding(p, a.challenge)
    <2>1. PICK c \in Challenges : c = a.challenge
      BY <1>1, <1>5, JobFacts, AnswerShape
    <2>2. /\ p = <<To("config", WithDevice(c)), To("state", pending \ {c})>>
          /\ c \in pending \cap receipts
      BY <1>5, <2>1 DEF Adding
    <2>3. config'.devices = config.devices \cup {target[c]}
      BY <1>2, <2>2, Tuples, ToFields DEF WithDevice, Config
    <2>4. Ledger!Import(c)
      BY <1>2, <2>2, <2>3 DEF Ledger!Import
    <2> QED
      BY <2>4 DEF Ledger!Next
  <1>6. ~Consuming(p, a.challenge) /\ ~Requesting(p, a.challenge)
    BY <1>2, NextFile
  <1> QED
    BY <1>1, <1>2, <1>3, <1>4, <1>5, <1>6, PlanCases

(* Every step is a step of the ledger, or none.                             *)
LEMMA LedgerNext ==
    ASSUME IndInv, [Next]_vars
    PROVE  [Ledger!Next]_(Ledger!vars)
  <1>1. CASE UNCHANGED vars
    BY <1>1, LedgerStutter DEF vars, disk, history
  <1>2. ASSUME NEW w \in Commands,
               WriteTls(w) \/ WriteRequest(w) \/ Return(w) \/ Crash(w)
        PROVE  [Ledger!Next]_(Ledger!vars)
    <2>1. UNCHANGED <<target, pending, consumed, receipts, config>>
      BY <1>2 DEF WriteTls, WriteRequest, Return, Crash, disk, history
    <2> QED
      BY <2>1, LedgerStutter
  <1>3. ASSUME NEW c \in Challenges, DeviceSigns(c)
        PROVE  [Ledger!Next]_(Ledger!vars)
    <2>1. target[c] # NoDevice
      BY <1>3 DEF DeviceSigns, IndInv, Known
    <2>2. Ledger!Sign(c)
      BY <1>3, <2>1 DEF DeviceSigns, disk, history, Ledger!Sign, Ledger!Made
    <2> QED
      BY <2>2 DEF Ledger!Next
  <1> QED
    BY <1>1, <1>2, <1>3, DecideLedger, WriteStateLedger, WriteConfigLedger
       DEF Next, Perform

(* Two files, replaced as a whole by commands of which any may die between  *)
(* the two, are a list and a set of challenges that change one entry at a   *)
(* time.                                                                    *)
THEOREM RelayLedgerTheorem == Spec => ImplementsRelayLedger
  <1>1. IndInv /\ [Next]_vars => [Ledger!Next]_(Ledger!vars)
    BY LedgerNext
  <1> QED
    BY <1>1, LedgerInit, Invariance, PTL DEF Spec, ImplementsRelayLedger, Ledger!Spec

==============================================================================
