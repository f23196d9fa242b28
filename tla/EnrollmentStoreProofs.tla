----------------------- MODULE EnrollmentStoreProofs -----------------------
(* Theorems about EnrollmentStore for every set of processes, ids and keys, *)
(* every number of attempts and every bound, crashes included.              *)
EXTENDS EnrollmentLedger, TLAPS

------------------------------------------------------------------------------
(* The inductive invariant.                                                 *)

(* An idle process has nothing to do; the lock names the one that is not.   *)
LockInv == \A w \in Workers : job[w] # Idle => lock = w

(* Every offer of s can still be consumed once, and its remaining attempts  *)
(* together with the verdicts already given stay within the limit.          *)
Sound(s) ==
    \A p \in Pairings : Offered(s, p) =>
        /\ p \in minted
        /\ enrolments[p] = 0
        /\ s.pairings[p].attempts > 0
        /\ guesses[p] + s.pairings[p].attempts <= PairingAttempts

(* s has already charged pairing p for a verdict that is still to be given. *)
Charged(s, p) ==
    Offered(s, p) => guesses[p] + 1 + s.pairings[p].attempts <= PairingAttempts

(* A state document a job with answer a may write.                          *)
Writable(s, a) ==
    /\ Sound(s)
    /\ a.kind = "wrong_code" => Charged(s, a.pairing)
    /\ a.kind = "enrolled" => /\ ~Offered(s, a.pairing)
                              /\ enrolments[a.pairing] = 0

IsState(e) == e.file = "state"

(* A plan writes the state at most once.                                    *)
PlanOK(plan, a) ==
    \A i \in DOMAIN plan : IsState(plan[i]) =>
        /\ Writable(plan[i].content, a)
        /\ \A j \in DOMAIN plan : IsState(plan[j]) => i = j

Pending(plan) == \E i \in DOMAIN plan : IsState(plan[i])

(* A wrong code is charged for, either already on disk or by the write that *)
(* is still to come.                                                        *)
AnswerOK(plan, a) ==
    /\ a.kind = "wrong_code" =>
          /\ a.pairing \in minted
          /\ guesses[a.pairing] < PairingAttempts
          /\ Pending(plan) \/ Charged(state, a.pairing)
    /\ a.kind = "enrolled" => a.pairing \in minted

JobInv ==
    \A w \in Workers : /\ PlanOK(job[w].plan, job[w].answer)
                       /\ AnswerOK(job[w].plan, job[w].answer)

FreshInv == \A p \in Pairings \ minted : enrolments[p] = 0 /\ guesses[p] = 0

IndInv == /\ TypeOK
          /\ LockInv
          /\ Sound(state)
          /\ JobInv
          /\ FreshInv
          /\ PairingOnce
          /\ GuessBound

------------------------------------------------------------------------------
(* Lemmas about the operations on a state document.                         *)

(* An open offer has the fields of a pairing record.                        *)
LEMMA OfferShape ==
    ASSUME NEW s \in State, NEW p \in Pairings, Offered(s, p)
    PROVE  s.pairings[p] \in PairingRecord
  BY DEF State, Offered

(* The document rotate_identity writes is a state document.                 *)
LEMMA EmptyStateType == EmptyState \in State
  BY DEF EmptyState, State

(* Pruning expired offers yields a document, and touches no offer it        *)
(* keeps.                                                                   *)
LEMMA PruneExpiredType ==
    ASSUME NEW s \in State, NEW t \in Nat
    PROVE  /\ PruneExpired(s, t) \in State
           /\ \A p \in Pairings : Offered(PruneExpired(s, t), p) =>
                 /\ Offered(s, p)
                 /\ PruneExpired(s, t).pairings[p] = s.pairings[p]
  BY DEF PruneExpired, State, Offered

(* Pruning used challenges yields a document with the same offers and       *)
(* peers.                                                                   *)
LEMMA PruneUsedType ==
    ASSUME NEW s \in State, NEW t \in Nat
    PROVE  /\ PruneUsedChallenges(s, t) \in State
           /\ PruneUsedChallenges(s, t).pairings = s.pairings
           /\ PruneUsedChallenges(s, t).peers = s.peers
  BY DEF PruneUsedChallenges, State

(* Deleting an offer yields a document without it and with all the          *)
(* others.                                                                  *)
LEMMA ClosePairingType ==
    ASSUME NEW s \in State, NEW p \in Pairings
    PROVE  /\ ClosePairing(s, p) \in State
           /\ ~Offered(ClosePairing(s, p), p)
           /\ \A o \in Pairings \ {p} :
                 ClosePairing(s, p).pairings[o] = s.pairings[o]
  BY DEF ClosePairing, State, Offered

(* A spent attempt yields a document; it only changes the offer it is       *)
(* spent on.                                                                *)
LEMMA SpendAttemptType ==
    ASSUME NEW s \in State, NEW p \in Pairings, Offered(s, p)
    PROVE  /\ SpendAttempt(s, p) \in State
           /\ Offered(SpendAttempt(s, p), p) =>
                 SpendAttempt(s, p).pairings[p].attempts
                     = s.pairings[p].attempts - 1
           /\ \A o \in Pairings \ {p} :
                 SpendAttempt(s, p).pairings[o] = s.pairings[o]
  <1>1. CASE s.pairings[p].attempts - 1 <= 0
    BY <1>1, ClosePairingType DEF SpendAttempt
  <1>2. CASE ~(s.pairings[p].attempts - 1 <= 0)
    <2>1. s.pairings[p] \in PairingRecord
      BY OfferShape
    <2>2. s.pairings[p].attempts - 1 \in Nat
      BY <2>1, <1>2 DEF PairingRecord
    <2>3. SpendAttempt(s, p)
            = [s EXCEPT !.pairings[p].attempts = s.pairings[p].attempts - 1]
      BY <1>2 DEF SpendAttempt, State
    <2> QED
      BY <2>1, <2>2, <2>3 DEF State, PairingRecord, Offered
  <1> QED
    BY <1>1, <1>2

(* Enrolling a peer yields a document in which the offer is gone.           *)
LEMMA EnrollPeerType ==
    ASSUME NEW s \in State, NEW p \in Pairings, NEW q \in Peers,
           NEW k \in Keys, NEW d \in Nat
    PROVE  /\ EnrollPeer(s, p, q, k, d) \in State
           /\ ~Offered(EnrollPeer(s, p, q, k, d), p)
           /\ \A o \in Pairings \ {p} :
                 EnrollPeer(s, p, q, k, d).pairings[o] = s.pairings[o]
  BY DEF EnrollPeer, State, PeerRecord, Offered

------------------------------------------------------------------------------
(* The verdict on a pairing code keeps the document writable.               *)

(* A spent attempt leaves the offer fewer attempts, or closes it.           *)
LEMMA SpendAttemptSound ==
    ASSUME TypeOK, NEW s \in State, Sound(s), NEW p \in Pairings, Offered(s, p)
    PROVE  /\ Sound(SpendAttempt(s, p))
           /\ Charged(SpendAttempt(s, p), p)
           /\ guesses[p] < PairingAttempts
           /\ p \in minted
  <1> DEFINE r == SpendAttempt(s, p)
  <1>1. /\ guesses[p] \in Nat /\ PairingAttempts \in Nat
        /\ s.pairings[p].attempts \in Nat
    BY OfferShape, BoundAssumption DEF TypeOK, PairingRecord
  <1>2. /\ p \in minted /\ enrolments[p] = 0 /\ s.pairings[p].attempts > 0
        /\ guesses[p] + s.pairings[p].attempts <= PairingAttempts
    BY DEF Sound
  <1>3. Offered(r, p) => r.pairings[p].attempts = s.pairings[p].attempts - 1
    BY SpendAttemptType
  <1>4. Offered(r, p) => s.pairings[p].attempts - 1 > 0
    BY <1>1, ClosePairingType DEF SpendAttempt
  <1>5. \A o \in Pairings \ {p} : r.pairings[o] = s.pairings[o]
    BY SpendAttemptType
  <1>6. Charged(r, p)
    BY <1>1, <1>2, <1>3 DEF Charged
  <1>7. Sound(r)
    <2> SUFFICES ASSUME NEW o \in Pairings, Offered(r, o)
                 PROVE  /\ o \in minted
                        /\ enrolments[o] = 0
                        /\ r.pairings[o].attempts > 0
                        /\ guesses[o] + r.pairings[o].attempts <= PairingAttempts
      BY DEF Sound
    <2>1. CASE o = p
      BY <2>1, <1>1, <1>2, <1>3, <1>4
    <2>2. CASE o # p
      BY <2>2, <1>5 DEF Sound, Offered
    <2> QED
      BY <2>1, <2>2
  <1> QED
    BY <1>1, <1>2, <1>6, <1>7

(* A document with fewer offers is as sound as the one it came from.        *)
LEMMA CloseSound ==
    ASSUME NEW s, NEW r, Sound(s), NEW p \in Pairings, ~Offered(r, p),
           \A o \in Pairings \ {p} : r.pairings[o] = s.pairings[o]
    PROVE  Sound(r)
  BY DEF Sound, Offered

(* Whatever the verdict on a code, the document to be written is sound      *)
(* and the answer agrees with it.                                           *)
LEMMA VerdictSound ==
    ASSUME TypeOK, NEW s \in State, Sound(s),
           NEW p \in Pairings, NEW q \in Peers, NEW k \in Keys, NEW d \in Nat,
           NEW codeOk \in BOOLEAN, NEW t \in Nat,
           NEW c \in Challenges \cup {NoChallenge},
           NEW v, v = Verdict(s, p, codeOk, q, t),
           NEW r, r = AfterVerdict(s, v, p, q, k, d),
           NEW a, a = VerdictAnswer(v, p, q, k, c, d)
    PROVE  /\ r \in State /\ a \in Answer /\ Writable(r, a)
           /\ a.kind = "wrong_code" => /\ a.pairing = p /\ p \in minted
                                       /\ guesses[p] < PairingAttempts
           /\ a.kind = "enrolled" => a.pairing = p /\ p \in minted
           /\ v = "enrolled" <=> a.kind = "enrolled"
           /\ v \in {"closed", "wrong_code", "conflict", "enrolled"}
  <1>1. CASE ~Consumable(s, p, t)
    <2>1. v = "closed" /\ r = ClosePairing(s, p) /\ a = Refused
      BY <1>1 DEF Verdict, AfterVerdict, VerdictAnswer
    <2>2. Sound(r) /\ r \in State
      BY <2>1, ClosePairingType, CloseSound
    <2> QED
      BY <2>1, <2>2 DEF Writable, Refused, Answer
  <1>2. CASE Consumable(s, p, t) /\ ~codeOk
    <2>1. v = "wrong_code" /\ r = SpendAttempt(s, p) /\ a = WrongCode(p)
      BY <1>2 DEF Verdict, AfterVerdict, VerdictAnswer
    <2>2. /\ Sound(r) /\ r \in State /\ Charged(r, p)
          /\ p \in minted /\ guesses[p] < PairingAttempts
      BY <2>1, <1>2, SpendAttemptType, SpendAttemptSound DEF Consumable
    <2> QED
      BY <2>1, <2>2 DEF Writable, WrongCode, Answer
  <1>3. CASE Consumable(s, p, t) /\ codeOk /\ Active(s, q)
    <2>1. v = "conflict" /\ r = ClosePairing(s, p) /\ a = Refused
      BY <1>3 DEF Verdict, AfterVerdict, VerdictAnswer
    <2>2. Sound(r) /\ r \in State
      BY <2>1, ClosePairingType, CloseSound
    <2> QED
      BY <2>1, <2>2 DEF Writable, Refused, Answer
  <1>4. CASE Consumable(s, p, t) /\ codeOk /\ ~Active(s, q)
    <2>1. v = "enrolled" /\ r = EnrollPeer(s, p, q, k, d)
      BY <1>4 DEF Verdict, AfterVerdict
    <2>2. a = [kind |-> "enrolled", pairing |-> p, peer |-> q, key |-> k,
               challenge |-> c, device |-> d]
      BY <2>1 DEF VerdictAnswer
    <2>3. Sound(r) /\ r \in State /\ ~Offered(r, p)
      BY <2>1, EnrollPeerType, CloseSound
    <2>4. p \in minted /\ enrolments[p] = 0
      BY <1>4 DEF Consumable, Sound
    <2>5. a \in Answer
      BY <2>2 DEF Answer, Enrolled
    <2> QED
      BY <2>1, <2>2, <2>3, <2>4, <2>5 DEF Writable
  <1> QED
    BY <1>1, <1>2, <1>3, <1>4

------------------------------------------------------------------------------
(* Plans.                                                                   *)

(* The three file effects are effects, and only a state effect carries a    *)
(* document.                                                                *)
LEMMA EffectTypes ==
    /\ \A g \in Nat : SetIdentity(g) \in Effect /\ ~IsState(SetIdentity(g))
    /\ \A s \in State : SetState(s) \in Effect /\ IsState(SetState(s))
    /\ \A e \in Events, o \in {"success", "rejected"},
          x \in Pairings \cup Challenges \cup Peers \cup Nat :
          Audit(e, o, x) \in Effect /\ ~IsState(Audit(e, o, x))
    /\ \A e \in Effect : IsState(e) => e.content \in State
  BY DEF Effect, SetIdentity, SetState, Audit, IsState, Record

(* What _ensure_identity_locked puts in front of a plan writes no state.    *)
LEMMA EnsureIdentityPlan ==
    /\ EnsureIdentity \in Seq(Effect)
    /\ \A i \in DOMAIN EnsureIdentity : ~IsState(EnsureIdentity[i])
  <1>1. CASE identity # 0
    BY <1>1 DEF EnsureIdentity
  <1>2. CASE identity = 0
    <2>1. /\ SetIdentity(1) \in Effect /\ ~IsState(SetIdentity(1))
          /\ Audit("identity.created", "success", 1) \in Effect
          /\ ~IsState(Audit("identity.created", "success", 1))
      BY EffectTypes DEF Events
    <2> QED
      BY <1>2, <2>1 DEF EnsureIdentity
  <1> QED
    BY <1>1, <1>2

(* Putting effects on other files in front of a plan only shifts its state  *)
(* writes.                                                                  *)
LEMMA Prefixed ==
    ASSUME NEW pre \in Seq(Effect), NEW plan \in Seq(Effect),
           \A i \in DOMAIN pre : ~IsState(pre[i])
    PROVE  /\ pre \o plan \in Seq(Effect)
           /\ \A i \in DOMAIN (pre \o plan) : IsState((pre \o plan)[i]) =>
                 /\ i - Len(pre) \in DOMAIN plan
                 /\ (pre \o plan)[i] = plan[i - Len(pre)]
           /\ \A i \in DOMAIN plan :
                 /\ i + Len(pre) \in DOMAIN (pre \o plan)
                 /\ (pre \o plan)[i + Len(pre)] = plan[i]
           /\ Len(pre) \in Nat
  OBVIOUS

(* What is left of a good plan after its first effect is a good plan.       *)
LEMMA PlanTail ==
    ASSUME NEW plan \in Seq(Effect), NEW a, PlanOK(plan, a), plan # <<>>
    PROVE  /\ Tail(plan) \in Seq(Effect)
           /\ PlanOK(Tail(plan), a)
           /\ IsState(Head(plan)) => /\ Writable(Head(plan).content, a)
                                     /\ ~Pending(Tail(plan))
           /\ ~IsState(Head(plan)) => (Pending(plan) <=> Pending(Tail(plan)))
  <1> DEFINE rest == Tail(plan)
  <1>1. /\ rest \in Seq(Effect) /\ Len(rest) = Len(plan) - 1
        /\ \A i \in DOMAIN rest : i + 1 \in DOMAIN plan /\ rest[i] = plan[i + 1]
        /\ 1 \in DOMAIN plan /\ Head(plan) = plan[1]
    OBVIOUS
  <1> HIDE DEF rest
  <1>2. PlanOK(rest, a)
    <2> SUFFICES ASSUME NEW i \in DOMAIN rest, IsState(rest[i])
                 PROVE  /\ Writable(rest[i].content, a)
                        /\ \A j \in DOMAIN rest : IsState(rest[j]) => i = j
      BY DEF PlanOK
    <2>1. /\ i + 1 \in DOMAIN plan /\ IsState(plan[i + 1])
          /\ Writable(plan[i + 1].content, a)
      BY <1>1 DEF PlanOK
    <2>2. ASSUME NEW j \in DOMAIN rest, IsState(rest[j]) PROVE i = j
      <3>1. i + 1 = j + 1
        BY <1>1, <2>1, <2>2 DEF PlanOK
      <3> QED
        BY <3>1, <1>1
    <2> QED
      BY <1>1, <2>1, <2>2
  <1>3. ASSUME IsState(Head(plan))
        PROVE  Writable(Head(plan).content, a) /\ ~Pending(rest)
    <2>1. Writable(plan[1].content, a)
      BY <1>1, <1>3 DEF PlanOK
    <2>2. ASSUME NEW i \in DOMAIN rest, IsState(rest[i]) PROVE FALSE
      <3>1. 1 = i + 1
        BY <1>1, <1>3, <2>2 DEF PlanOK
      <3> QED
        BY <3>1, <1>1
    <2> QED
      BY <1>1, <2>1, <2>2 DEF Pending
  <1>4. ASSUME ~IsState(Head(plan)) PROVE Pending(plan) <=> Pending(rest)
    <2>1. ASSUME NEW i \in DOMAIN plan, IsState(plan[i]) PROVE Pending(rest)
      <3>1. i - 1 \in DOMAIN rest /\ rest[i - 1] = plan[i]
        BY <1>1, <1>4, <2>1
      <3> QED
        BY <3>1, <2>1 DEF Pending
    <2> QED
      BY <1>1, <2>1 DEF Pending
  <1> QED
    BY <1>1, <1>2, <1>3, <1>4 DEF rest

------------------------------------------------------------------------------
(* Taking the lock.                                                         *)

USE NoneAssumption, BoundAssumption

(* A document, an answer or a plan stays as good when only minted grows.    *)
LEMMA MintedGrows ==
    ASSUME minted \subseteq minted', UNCHANGED <<state, enrolments, guesses>>,
           NEW plan, NEW a
    PROVE  /\ \A s : Sound(s) => Sound(s)'
           /\ Sound(state) => Sound(state)'
           /\ PlanOK(plan, a) => PlanOK(plan, a)'
           /\ AnswerOK(plan, a) => AnswerOK(plan, a)'
  <1>1. \A s : Sound(s) => Sound(s)'
    BY DEF Sound, Offered
  <1>2. Sound(state) => Sound(state)'
    BY DEF Sound, Offered
  <1>3. ASSUME NEW s PROVE Writable(s, a) => Writable(s, a)'
    BY <1>1 DEF Writable, Charged
  <1>4. PlanOK(plan, a) => PlanOK(plan, a)'
    BY <1>3 DEF PlanOK
  <1>5. AnswerOK(plan, a) => AnswerOK(plan, a)'
    BY DEF AnswerOK, Charged, Offered
  <1> QED
    BY <1>1, <1>2, <1>4, <1>5

(* Taking the lock with a good plan and a fitting answer preserves the      *)
(* invariant.                                                               *)
LEMMA StartStep ==
    ASSUME IndInv, NEW w \in Workers,
           NEW plan \in Seq(Effect), NEW a \in Answer,
           Start(w, plan, a), minted \subseteq minted', minted' \subseteq Pairings,
           PlanOK(plan, a)', AnswerOK(plan, a)'
    PROVE  IndInv'
  <1>0. PICK full : full = EnsureIdentity \o plan
    OBVIOUS
  <1>1. /\ job[w] = Idle /\ lock = Nobody /\ lock' = w
        /\ job' = [job EXCEPT ![w] = [plan |-> full, answer |-> a]]
        /\ UNCHANGED <<now, disk, issued, crashes, history>>
    BY <1>0 DEF Start, LockGranted
  <1>2. PICK n \in Nat :
           /\ full \in Seq(Effect)
           /\ \A i \in DOMAIN full : IsState(full[i]) =>
                 i - n \in DOMAIN plan /\ full[i] = plan[i - n]
           /\ \A i \in DOMAIN plan :
                 i + n \in DOMAIN full /\ full[i + n] = plan[i]
    <2>1. PICK pre : pre = EnsureIdentity
      OBVIOUS
    <2>2. pre \in Seq(Effect) /\ \A i \in DOMAIN pre : ~IsState(pre[i])
      BY <2>1, EnsureIdentityPlan
    <2>3. full = pre \o plan
      BY <1>0, <2>1
    <2> QED
      BY <2>2, <2>3, Prefixed
  <1>3. PlanOK(full, a)'
    <2> SUFFICES ASSUME NEW i \in DOMAIN full, IsState(full[i])
                 PROVE  /\ Writable(full[i].content, a)'
                        /\ \A j \in DOMAIN full : IsState(full[j]) => i = j
      BY DEF PlanOK, IsState
    <2>1. Writable(full[i].content, a)'
      BY <1>2 DEF PlanOK, IsState
    <2>2. ASSUME NEW j \in DOMAIN full, IsState(full[j]) PROVE i = j
      <3>1. i - n = j - n
        BY <1>2, <2>2 DEF PlanOK, IsState
      <3> QED
        BY <3>1, <1>2
    <2> QED
      BY <2>1, <2>2
  <1>4. AnswerOK(full, a)'
    BY <1>2 DEF AnswerOK, Pending, IsState
  <1>5. TypeOK'
    BY <1>1, <1>2 DEF IndInv, TypeOK, disk, history
  <1>6. LockInv'
    BY <1>1 DEF IndInv, LockInv, TypeOK
  <1>7. Sound(state)' /\ FreshInv'
    BY <1>1, MintedGrows DEF IndInv, FreshInv, disk, history
  <1>8. JobInv'
    <2> SUFFICES ASSUME NEW o \in Workers
                 PROVE  /\ PlanOK(job[o].plan, job[o].answer)'
                        /\ AnswerOK(job[o].plan, job[o].answer)'
      BY DEF JobInv
    <2>1. CASE o = w
      <3>1. job'[o].plan = full /\ job'[o].answer = a
        BY <1>1, <2>1 DEF IndInv, TypeOK
      <3> QED
        BY <3>1, <1>3, <1>4
    <2>2. CASE o # w
      <3>1. job'[o] = job[o] /\ job[o] = Idle
        BY <1>1, <2>2 DEF IndInv, TypeOK, LockInv
      <3>2. job'[o].plan = <<>> /\ job'[o].answer.kind = "none"
        BY <3>1 DEF Idle
      <3> QED
        BY <3>2 DEF PlanOK, AnswerOK
    <2> QED
      BY <2>1, <2>2
  <1>9. PairingOnce' /\ GuessBound'
    BY <1>1 DEF IndInv, PairingOnce, GuessBound, history
  <1> QED
    BY <1>5, <1>6, <1>7, <1>8, <1>9 DEF IndInv

(* The same, for the jobs that mint no pairing id.                          *)
LEMMA StartSame ==
    ASSUME IndInv, NEW w \in Workers,
           NEW plan \in Seq(Effect), NEW a \in Answer,
           Start(w, plan, a), UNCHANGED minted, PlanOK(plan, a), AnswerOK(plan, a)
    PROVE  IndInv'
  <1>1. /\ UNCHANGED <<state, enrolments, guesses>>
        /\ minted \subseteq minted' /\ minted' \subseteq Pairings
    BY DEF Start, disk, history, IndInv, TypeOK
  <1>2. PlanOK(plan, a)' /\ AnswerOK(plan, a)'
    BY <1>1, MintedGrows
  <1> QED
    BY <1>1, <1>2, StartStep

(* A job that writes no state and gives no verdict.                         *)
LEMMA QuietStart ==
    ASSUME IndInv, NEW w \in Workers, NEW plan \in Seq(Effect),
           \A i \in DOMAIN plan : ~IsState(plan[i]),
           NEW a \in {Done, Refused}, Start(w, plan, a), UNCHANGED minted
    PROVE  IndInv'
  <1>1. a \in Answer /\ a.kind \notin {"wrong_code", "enrolled"}
    BY DEF Done, Refused, Answer
  <1>2. PlanOK(plan, a) /\ AnswerOK(plan, a)
    BY <1>1 DEF PlanOK, AnswerOK
  <1> QED
    BY <1>1, <1>2, StartSame

(* A job that writes the state first and then only appends audit records.   *)
LEMMA WritePlan ==
    ASSUME NEW s \in State, NEW e \in Effect, ~IsState(e),
           NEW tail \in Seq(Effect),
           \A i \in DOMAIN tail : ~IsState(tail[i]),
           NEW plan, plan = <<SetState(s), e>> \o tail
    PROVE  /\ plan \in Seq(Effect)
           /\ \A i \in DOMAIN plan : IsState(plan[i]) <=> i = 1
           /\ 1 \in DOMAIN plan /\ plan[1].content = s
  <1>1. PICK x : x = SetState(s)
    OBVIOUS
  <1>2. x \in Effect /\ IsState(x) /\ x.content = s
    BY <1>1, EffectTypes DEF SetState
  <1>3. PICK head : head = <<x, e>>
    OBVIOUS
  <1>4. /\ head \in Seq(Effect) /\ Len(head) = 2 /\ DOMAIN head = 1..2
        /\ head[1] = x /\ head[2] = e
    BY <1>2, <1>3
  <1>5. plan = head \o tail
    BY <1>1, <1>3
  <1>6. plan \in Seq(Effect) /\ Len(plan) = 2 + Len(tail) /\ Len(tail) \in Nat
    BY <1>4, <1>5
  <1>7. \A i \in DOMAIN plan : plan[i] = IF i <= 2 THEN head[i] ELSE tail[i - 2]
    BY <1>4, <1>5, <1>6
  <1>8. plan[1] = x /\ 1 \in DOMAIN plan
    BY <1>4, <1>6, <1>7
  <1>9. ASSUME NEW i \in DOMAIN plan, i # 1 PROVE ~IsState(plan[i])
    <2>1. CASE i = 2
      BY <2>1, <1>4, <1>7
    <2>2. CASE i # 2
      <3>1. i > 2 /\ i - 2 \in DOMAIN tail
        BY <2>2, <1>6, <1>9
      <3> QED
        BY <3>1, <1>7
    <2> QED
      BY <2>1, <2>2
  <1> QED
    BY <1>2, <1>6, <1>8, <1>9

(* The plan of consume_pairing and revoke_peer: the state, then one audit   *)
(* record.                                                                  *)
LEMMA WritePair ==
    ASSUME NEW s \in State, NEW e \in Effect, ~IsState(e),
           NEW plan, plan = <<SetState(s), e>>
    PROVE  /\ plan \in Seq(Effect)
           /\ \A i \in DOMAIN plan : IsState(plan[i]) <=> i = 1
           /\ 1 \in DOMAIN plan /\ plan[1].content = s
  <1>1. SetState(s) \in Effect /\ IsState(SetState(s))
        /\ SetState(s).content = s
    BY EffectTypes DEF SetState
  <1> QED
    BY <1>1

(* A job that writes a sound document and audits it may start.              *)
LEMMA WriteStart ==
    ASSUME IndInv, NEW w \in Workers, NEW s \in State, NEW a \in Answer,
           Writable(s, a),
           NEW plan \in Seq(Effect),
           \A i \in DOMAIN plan : IsState(plan[i]) <=> i = 1,
           1 \in DOMAIN plan, plan[1].content = s,
           Start(w, plan, a), UNCHANGED minted,
           a.kind = "wrong_code" => /\ a.pairing \in minted
                                    /\ guesses[a.pairing] < PairingAttempts,
           a.kind = "enrolled" => a.pairing \in minted
    PROVE  IndInv'
  <1>1. PlanOK(plan, a)
    BY DEF PlanOK
  <1>2. AnswerOK(plan, a)
    BY DEF AnswerOK, Pending
  <1> QED
    BY <1>1, <1>2, StartSame

(* A job without effects may start.                                         *)
LEMMA EmptyStart ==
    ASSUME IndInv, NEW w \in Workers, NEW a \in {Done, Refused},
           Start(w, <<>>, a), UNCHANGED minted
    PROVE  IndInv'
  <1>1. PICK plan : plan = <<>>
    OBVIOUS
  <1>2. plan \in Seq(Effect) /\ \A i \in DOMAIN plan : ~IsState(plan[i])
    BY <1>1
  <1> QED
    BY <1>1, <1>2, QuietStart

(* identity, sign and list_peers preserve the invariant.                    *)
LEMMA ReadIdentityStep ==
    ASSUME IndInv, NEW w \in Workers, ReadIdentity(w)
    PROVE  IndInv'
  BY EmptyStart DEF ReadIdentity

(* sign_relay_challenge preserves the invariant.                            *)
LEMMA SignRelayChallengeStep ==
    ASSUME IndInv, NEW w \in Workers, NEW c \in Challenges,
           SignRelayChallenge(w, c)
    PROVE  IndInv'
  <1>0. PICK e : e = Audit("relay.challenge.signed", "success", c)
    OBVIOUS
  <1>1. e \in Effect /\ ~IsState(e)
    BY <1>0, EffectTypes DEF Events
  <1>2. PICK plan \in {<<>>, <<e>>}, a \in {Done, Refused} : Start(w, plan, a)
    BY <1>0 DEF SignRelayChallenge
  <1>3. plan \in Seq(Effect) /\ \A i \in DOMAIN plan : ~IsState(plan[i])
    <2>1. CASE plan = <<>>
      BY <2>1
    <2>2. CASE plan = <<e>>
      BY <1>1, <2>2
    <2> QED
      BY <1>2, <2>1, <2>2
  <1> QED
    BY <1>2, <1>3, QuietStart DEF SignRelayChallenge

(* consume_pairing preserves the invariant.                                 *)
LEMMA ConsumePairingStep ==
    ASSUME IndInv, NEW w \in Workers, NEW p \in Pairings,
           NEW codeOk \in BOOLEAN, NEW q \in Peers, NEW k \in Keys,
           ConsumePairing(w, p, codeOk, q, k)
    PROVE  IndInv'
  <1>1. PICK v : v = Verdict(state, p, codeOk, q, now)
    OBVIOUS
  <1>2. PICK s, a : /\ s = AfterVerdict(state, v, p, q, k, Device)
                    /\ a = VerdictAnswer(v, p, q, k, NoChallenge, Device)
    OBVIOUS
  <1>3. PICK plan : plan = ConsumePlan(s, v, p)
    OBVIOUS
  <1>4. Start(w, plan, a) /\ UNCHANGED minted
    BY <1>1, <1>2, <1>3 DEF ConsumePairing
  <1>5. TypeOK /\ Sound(state) /\ state \in State /\ now \in Nat /\ Device \in Nat
    BY DEF IndInv, TypeOK, Device
  <1>6. /\ s \in State /\ a \in Answer /\ Writable(s, a)
        /\ a.kind = "wrong_code" => /\ a.pairing = p /\ p \in minted
                                    /\ guesses[p] < PairingAttempts
        /\ a.kind = "enrolled" => a.pairing = p /\ p \in minted
    BY <1>1, <1>2, <1>5, VerdictSound
  <1>7. PICK e \in Effect : ~IsState(e) /\ plan = <<SetState(s), e>>
    BY <1>3, EffectTypes DEF ConsumePlan, Events
  <1>8. /\ plan \in Seq(Effect) /\ 1 \in DOMAIN plan /\ plan[1].content = s
        /\ \A i \in DOMAIN plan : IsState(plan[i]) <=> i = 1
    BY <1>6, <1>7, WritePair
  <1> QED
    BY <1>4, <1>6, <1>8, WriteStart

(* complete_relay_enrollment preserves the invariant.                       *)
LEMMA CompleteRelayEnrollmentStep ==
    ASSUME IndInv, NEW w \in Workers, NEW c \in Challenges,
           NEW p \in Pairings, NEW codeOk \in BOOLEAN, NEW q \in Peers,
           NEW k \in Keys, NEW proofOk \in BOOLEAN,
           CompleteRelayEnrollment(w, c, p, codeOk, q, k, proofOk)
    PROVE  IndInv'
  <1>0. /\ TypeOK /\ Sound(state) /\ state \in State /\ now \in Nat
        /\ Device \in Nat /\ UNCHANGED minted
    BY DEF IndInv, TypeOK, Device, CompleteRelayEnrollment
  <1>1. PICK r : r = PruneUsedChallenges(state, now)
    OBVIOUS
  <1>2. r \in State /\ Sound(r)
    BY <1>0, <1>1, PruneUsedType DEF Sound, Offered
  <1>3. PICK v : v = Verdict(r, p, codeOk, q, now)
    OBVIOUS
  <1>4. PICK s, a : /\ s = AfterVerdict(r, v, p, q, k, Device)
                    /\ a = VerdictAnswer(v, p, q, k, c, Device)
    OBVIOUS
  <1>5. /\ s \in State /\ a \in Answer /\ Writable(s, a)
        /\ a.kind = "wrong_code" => /\ a.pairing = p /\ p \in minted
                                    /\ guesses[p] < PairingAttempts
        /\ a.kind = "enrolled" => a.pairing = p /\ p \in minted
    BY <1>0, <1>2, <1>3, <1>4, VerdictSound
  <1>6. PICK t : t = CompletedState(r, v, c, p, q, k)
    OBVIOUS
  <1>7. t \in State /\ t.pairings = s.pairings
    BY <1>4, <1>5, <1>6 DEF CompletedState, State
  <1>8. Writable(t, a)
    BY <1>5, <1>7 DEF Writable, Sound, Charged, Offered
  <1>9. PICK plan : plan = CompletePlan(t, v, c, p)
    OBVIOUS
  <1>10. PICK bad : bad = Audit("relay.enrollment.completed", "rejected", c)
    OBVIOUS
  <1>11. \/ Start(w, <<>>, Refused)
         \/ Start(w, <<bad>>, Refused)
         \/ Start(w, plan, a)
    BY <1>1, <1>3, <1>4, <1>6, <1>9, <1>10 DEF CompleteRelayEnrollment
  <1>12. CASE Start(w, <<>>, Refused)
    BY <1>0, <1>12, EmptyStart
  <1>13. CASE Start(w, <<bad>>, Refused)
    <2>1. bad \in Effect /\ ~IsState(bad)
      BY <1>10, EffectTypes DEF Events
    <2>2. PICK quiet : quiet = <<bad>>
      OBVIOUS
    <2>3. quiet \in Seq(Effect) /\ \A i \in DOMAIN quiet : ~IsState(quiet[i])
      BY <2>1, <2>2
    <2> QED
      BY <1>0, <1>13, <2>2, <2>3, QuietStart
  <1>14. CASE Start(w, plan, a)
    <2>1. PICK e \in Effect :
              ~IsState(e) /\ ConsumePlan(t, v, p) = <<SetState(t), e>>
      BY EffectTypes DEF ConsumePlan, Events
    <2>0. PICK f \in Effect :
              ~IsState(f) /\ f = Audit("relay.enrollment.completed", "success", c)
      BY EffectTypes DEF Events
    <2>3. PICK tail \in {<<>>, <<f>>} : plan = <<SetState(t), e>> \o tail
      BY <1>9, <2>1, <2>0 DEF CompletePlan
    <2>4. tail \in Seq(Effect) /\ \A i \in DOMAIN tail : ~IsState(tail[i])
      <3>1. CASE tail = <<>>
        BY <3>1
      <3>2. CASE tail = <<f>>
        BY <2>0, <3>2
      <3> QED
        BY <2>3, <3>1, <3>2
    <2>2. /\ plan \in Seq(Effect) /\ 1 \in DOMAIN plan /\ plan[1].content = t
          /\ \A i \in DOMAIN plan : IsState(plan[i]) <=> i = 1
      <3>1. t \in State /\ e \in Effect /\ ~IsState(e)
        BY <1>7, <2>1
      <3> QED
        BY <3>1, <2>3, <2>4, WritePlan, SMTT(60)
    <2> QED
      BY <1>0, <1>5, <1>7, <1>8, <1>14, <2>2, WriteStart
  <1> QED
    BY <1>11, <1>12, <1>13, <1>14

(* revoke_peer preserves the invariant.                                     *)
LEMMA RevokePeerStep ==
    ASSUME IndInv, NEW w \in Workers, NEW q \in Peers, RevokePeer(w, q)
    PROVE  IndInv'
  <1>0. TypeOK /\ Sound(state) /\ state \in State /\ UNCHANGED minted
    BY DEF IndInv, TypeOK, RevokePeer
  <1>1. PICK s : s = [state EXCEPT !.peers[q].revoked = TRUE]
    OBVIOUS
  <1>2. PICK e : e = Audit("peer.revoked", "success", q)
    OBVIOUS
  <1>3. PICK plan : plan = <<SetState(s), e>>
    OBVIOUS
  <1>4. CASE Active(state, q)
    <2>1. Start(w, plan, Done)
      BY <1>1, <1>2, <1>3, <1>4 DEF RevokePeer
    <2>2. s \in State /\ s.pairings = state.pairings
      <3>1. state.peers[q] \in PeerRecord
        BY <1>0, <1>4 DEF Active, State
      <3>2. [state.peers[q] EXCEPT !.revoked = TRUE] \in PeerRecord
        BY <3>1 DEF PeerRecord
      <3>3. s = [state EXCEPT !.peers =
                    [state.peers EXCEPT ![q] =
                        [state.peers[q] EXCEPT !.revoked = TRUE]]]
        BY <1>0, <1>1 DEF State
      <3> QED
        BY <1>0, <3>2, <3>3 DEF State
    <2>3. Done \in Answer /\ Done.kind = "done"
      BY DEF Done, Answer
    <2>4. Writable(s, Done)
      BY <1>0, <2>2, <2>3 DEF Writable, Sound, Offered
    <2>5. e \in Effect /\ ~IsState(e)
      BY <1>2, EffectTypes DEF Events
    <2>6. /\ plan \in Seq(Effect) /\ 1 \in DOMAIN plan /\ plan[1].content = s
          /\ \A i \in DOMAIN plan : IsState(plan[i]) <=> i = 1
      BY <1>3, <2>2, <2>5, WritePair
    <2> QED
      BY <1>0, <2>1, <2>2, <2>3, <2>4, <2>6, WriteStart
  <1>5. CASE ~Active(state, q)
    BY <1>0, <1>5, EmptyStart DEF RevokePeer
  <1> QED
    BY <1>4, <1>5

(* rotate_identity preserves the invariant.                                 *)
LEMMA RotateIdentityStep ==
    ASSUME IndInv, NEW w \in Workers, RotateIdentity(w)
    PROVE  IndInv'
  <1>0. TypeOK /\ Device \in Nat /\ UNCHANGED minted
    BY DEF IndInv, TypeOK, Device, RotateIdentity
  <1>1. PICK d \in Nat : d = Device + 1
    BY <1>0
  <1>2. PICK plan : plan = RotatePlan(d)
    OBVIOUS
  <1>3. PICK x, y, z, u : /\ x = SetIdentity(d)
                          /\ y = Audit("identity.created", "success", d)
                          /\ z = SetState(EmptyState)
                          /\ u = Audit("identity.rotated", "success", d)
    OBVIOUS
  <1>4. /\ {x, y, z, u} \subseteq Effect
        /\ ~IsState(x) /\ ~IsState(y) /\ IsState(z) /\ ~IsState(u)
        /\ z.content = EmptyState
    BY <1>1, <1>3, EffectTypes, EmptyStateType DEF Events, SetState
  <1>5. plan = <<x, y, z, u>>
    BY <1>2, <1>3 DEF RotatePlan
  <1>6. /\ plan \in Seq(Effect)
        /\ \A i \in DOMAIN plan : IsState(plan[i]) => i = 3
        /\ plan[3] = z
    BY <1>4, <1>5
  <1>7. Done \in Answer /\ Done.kind = "done"
    BY DEF Done, Answer
  <1>8. Writable(EmptyState, Done)
    BY <1>7 DEF Writable, Sound, Offered, EmptyState
  <1>9. PlanOK(plan, Done) /\ AnswerOK(plan, Done)
    BY <1>4, <1>6, <1>7, <1>8 DEF PlanOK, AnswerOK
  <1>10. Start(w, plan, Done)
    BY <1>1, <1>2 DEF RotateIdentity
  <1> QED
    BY <1>0, <1>6, <1>7, <1>9, <1>10, StartSame

(* create_pairing preserves the invariant.                                  *)
LEMMA CreatePairingStep ==
    ASSUME IndInv, NEW w \in Workers, NEW p \in Pairings,
           NEW ttl \in PairingTTLs, CreatePairing(w, p, ttl)
    PROVE  IndInv'
  <1>0. /\ TypeOK /\ Sound(state) /\ FreshInv /\ state \in State
        /\ now \in Nat /\ Device \in Nat /\ ttl \in Nat
        /\ p \notin minted /\ minted' = minted \cup {p}
        /\ minted \subseteq Pairings
    BY DEF IndInv, TypeOK, Device, CreatePairing
  <1>1. PICK s : s = NewPairing(state, p, ttl)
    OBVIOUS
  <1>2. PICK e : e = Audit("pairing.created", "success", p)
    OBVIOUS
  <1>3. PICK plan : plan = <<SetState(s), e>>
    OBVIOUS
  <1>4. Start(w, plan, Done)
    BY <1>1, <1>2, <1>3 DEF CreatePairing
  <1>5. UNCHANGED <<state, enrolments, guesses>>
    BY <1>4 DEF Start, disk, history
  <1>6. PICK r : r = PruneExpired(state, now)
    OBVIOUS
  <1>7. /\ r \in State
        /\ \A o \in Pairings : Offered(r, o) =>
              Offered(state, o) /\ r.pairings[o] = state.pairings[o]
    BY <1>0, <1>6, PruneExpiredType
  <1>8. PICK offer \in PairingRecord :
           /\ offer = [expires |-> now + ttl, attempts |-> PairingAttempts,
                       device |-> Device]
           /\ s = [r EXCEPT !.pairings[p] = offer]
    <2>1. [expires |-> now + ttl, attempts |-> PairingAttempts,
           device |-> Device] \in PairingRecord
      BY <1>0 DEF PairingRecord
    <2> QED
      BY <2>1, <1>1, <1>6 DEF NewPairing
  <1>9. /\ s \in State /\ s.pairings[p] = offer
        /\ \A o \in Pairings \ {p} : s.pairings[o] = r.pairings[o]
    BY <1>7, <1>8 DEF State
  <1>10. Sound(s)'
    <2> SUFFICES ASSUME NEW o \in Pairings, Offered(s, o)
                 PROVE  /\ o \in minted'
                        /\ enrolments'[o] = 0
                        /\ s.pairings[o].attempts > 0
                        /\ guesses'[o] + s.pairings[o].attempts <= PairingAttempts
      BY DEF Sound, Offered
    <2>1. CASE o = p
      BY <2>1, <1>0, <1>5, <1>8, <1>9 DEF FreshInv
    <2>2. CASE o # p
      BY <2>2, <1>0, <1>5, <1>7, <1>9 DEF Sound, Offered
    <2> QED
      BY <2>1, <2>2
  <1>11. Done \in Answer /\ Done.kind = "done"
    BY DEF Done, Answer
  <1>12. e \in Effect /\ ~IsState(e)
    BY <1>2, EffectTypes DEF Events
  <1>13. /\ plan \in Seq(Effect) /\ 1 \in DOMAIN plan /\ plan[1].content = s
         /\ \A i \in DOMAIN plan : IsState(plan[i]) <=> i = 1
    BY <1>3, <1>9, <1>12, WritePair
  <1>14. Writable(s, Done)'
    BY <1>10, <1>11 DEF Writable
  <1>15. PlanOK(plan, Done)' /\ AnswerOK(plan, Done)'
    BY <1>11, <1>13, <1>14 DEF PlanOK, AnswerOK, IsState
  <1> QED
    BY <1>0, <1>4, <1>11, <1>13, <1>15, StartStep

------------------------------------------------------------------------------
(* Carrying a job out.                                                      *)

(* What IndInv says of the job of one process, by name.                     *)
LEMMA JobFacts ==
    ASSUME IndInv, NEW w \in Workers
    PROVE  /\ job[w].plan \in Seq(Effect) /\ job[w].answer \in Answer
           /\ PlanOK(job[w].plan, job[w].answer)
           /\ AnswerOK(job[w].plan, job[w].answer)
           /\ job[w] = [plan |-> job[w].plan, answer |-> job[w].answer]
  BY DEF IndInv, TypeOK, JobInv

(* The first effect of a plan and what follows it have their types.         *)
LEMMA HeadFacts ==
    ASSUME NEW plan \in Seq(Effect), plan # <<>>
    PROVE  Head(plan) \in Effect /\ Tail(plan) \in Seq(Effect)
  OBVIOUS

(* A job with another plan keeps its answer.                                *)
LEMMA ReplacePlan ==
    ASSUME NEW x, NEW y, NEW a, NEW j, j = [plan |-> x, answer |-> a]
    PROVE  [j EXCEPT !.plan = y] = [plan |-> y, answer |-> a]
  OBVIOUS

(* The holder of the lock advances: its job is the tail, the others are     *)
(* idle.                                                                    *)
LEMMA AdvanceFacts ==
    ASSUME IndInv, NEW w \in Workers, job[w].plan # <<>>, Advance(w)
    PROVE  /\ job' = [job EXCEPT ![w] = [plan   |-> Tail(job[w].plan),
                                        answer |-> job[w].answer]]
           /\ job' \in [Workers -> [plan : Seq(Effect), answer : Answer]]
  <1>1. PICK plan, a : plan = job[w].plan /\ a = job[w].answer
    OBVIOUS
  <1>2. /\ plan \in Seq(Effect) /\ a \in Answer /\ plan # <<>>
        /\ job[w] = [plan |-> plan, answer |-> a]
        /\ job \in [Workers -> [plan : Seq(Effect), answer : Answer]]
    BY <1>1, JobFacts DEF IndInv, TypeOK
  <1>3. Tail(plan) \in Seq(Effect)
    BY <1>2, HeadFacts
  <1>4. [job[w] EXCEPT !.plan = Tail(plan)]
            = [plan |-> Tail(plan), answer |-> a]
    <2>1. PICK j, rest : j = job[w] /\ rest = Tail(plan)
      OBVIOUS
    <2>2. j = [plan |-> plan, answer |-> a]
      BY <1>2, <2>1
    <2>3. [j EXCEPT !.plan = rest] = [plan |-> rest, answer |-> a]
      BY <2>2, ReplacePlan
    <2> QED
      BY <2>1, <2>3
  <1>5. job' = [job EXCEPT ![w] = [job[w] EXCEPT !.plan = Tail(plan)]]
    BY <1>1, <1>2 DEF Advance
  <1> QED
    BY <1>1, <1>2, <1>3, <1>4, <1>5

(* The jobs of the other processes are untouched when only one advances.    *)
LEMMA OthersKeep ==
    ASSUME IndInv, NEW w \in Workers, NEW o \in Workers \ {w}, lock = w
    PROVE  job[o] = Idle
  BY DEF IndInv, LockInv, TypeOK, Idle

(* A process that has nothing to do satisfies every condition on jobs.      *)
LEMMA IdleFine ==
    ASSUME NEW o, job'[o] = Idle
    PROVE  PlanOK(job[o].plan, job[o].answer)'
           /\ AnswerOK(job[o].plan, job[o].answer)'
  <1>1. job'[o].plan = <<>> /\ job'[o].answer.kind = "none"
    BY DEF Idle
  <1> QED
    BY <1>1 DEF PlanOK, AnswerOK

(* An effect on another file than the state preserves the invariant.        *)
LEMMA AdvanceStep ==
    ASSUME IndInv, NEW w \in Workers, job[w].plan # <<>>,
           ~IsState(Head(job[w].plan)), Advance(w), TypeOK',
           UNCHANGED <<lock, state, minted, enrolments, guesses>>
    PROVE  IndInv'
  <1>1. PICK plan, a : plan = job[w].plan /\ a = job[w].answer
    OBVIOUS
  <1>2. /\ plan \in Seq(Effect) /\ a \in Answer /\ PlanOK(plan, a)
        /\ AnswerOK(plan, a) /\ plan # <<>> /\ ~IsState(Head(plan))
        /\ job[w] = [plan |-> plan, answer |-> a]
    BY <1>1, JobFacts
  <1>3. PICK rest : rest = Tail(plan)
    OBVIOUS
  <1>4. /\ PlanOK(rest, a) /\ (Pending(plan) <=> Pending(rest))
    BY <1>2, <1>3, PlanTail
  <1>5. AnswerOK(rest, a)
    BY <1>2, <1>4 DEF AnswerOK
  <1>6. PlanOK(rest, a)' /\ AnswerOK(rest, a)'
    BY <1>4, <1>5, MintedGrows
  <1>7. /\ job' = [job EXCEPT ![w] = [plan |-> rest, answer |-> a]]
        /\ job'[w].plan = rest /\ job'[w].answer = a
    <2>1. job' = [job EXCEPT ![w] = [plan |-> rest, answer |-> a]]
      BY <1>1, <1>3, AdvanceFacts
    <2> QED
      BY <2>1 DEF IndInv, TypeOK
  <1>8. lock = w
    BY <1>2 DEF IndInv, LockInv, Idle
  <1>9. LockInv'
    BY <1>7, <1>8 DEF IndInv, LockInv, TypeOK
  <1>10. JobInv'
    <2> SUFFICES ASSUME NEW o \in Workers
                 PROVE  /\ PlanOK(job[o].plan, job[o].answer)'
                        /\ AnswerOK(job[o].plan, job[o].answer)'
      BY DEF JobInv
    <2>1. CASE o = w
      BY <2>1, <1>6, <1>7
    <2>2. CASE o # w
      <3>1. job'[o] = Idle
        BY <2>2, <1>7, <1>8, OthersKeep DEF IndInv, TypeOK
      <3> QED
        BY <3>1, IdleFine
    <2> QED
      BY <2>1, <2>2
  <1>11. Sound(state)' /\ FreshInv' /\ PairingOnce' /\ GuessBound'
    BY MintedGrows DEF IndInv, FreshInv, PairingOnce, GuessBound
  <1> QED
    BY <1>9, <1>10, <1>11 DEF IndInv

(* Replacing identity.json preserves the invariant.                         *)
LEMMA WriteIdentityStep ==
    ASSUME IndInv, NEW w \in Workers, WriteIdentity(w)
    PROVE  IndInv'
  <1>1. /\ job[w].plan # <<>> /\ Head(job[w].plan) \in Effect
        /\ Head(job[w].plan).file = "identity"
        /\ identity' = Head(job[w].plan).content
    BY JobFacts, HeadFacts DEF WriteIdentity, Next1, Content
  <1>2. ~IsState(Head(job[w].plan)) /\ identity' \in Nat
    BY <1>1 DEF IsState, Effect
  <1>3. job' \in [Workers -> [plan : Seq(Effect), answer : Answer]]
    BY <1>1, AdvanceFacts DEF WriteIdentity
  <1>4. TypeOK'
    BY <1>2, <1>3 DEF WriteIdentity, IndInv, TypeOK, history
  <1> QED
    BY <1>1, <1>2, <1>4, AdvanceStep DEF WriteIdentity, history

(* Appending to audit.jsonl preserves the invariant.                        *)
LEMMA AppendAuditStep ==
    ASSUME IndInv, NEW w \in Workers, AppendAudit(w)
    PROVE  IndInv'
  <1>1. /\ job[w].plan # <<>> /\ Head(job[w].plan) \in Effect
        /\ Head(job[w].plan).file = "audit"
        /\ audit' \subseteq audit \cup {Head(job[w].plan).content}
    BY JobFacts, HeadFacts DEF AppendAudit, Next1, Content
  <1>2. ~IsState(Head(job[w].plan)) /\ Head(job[w].plan).content \in Record
    BY <1>1 DEF IsState, Effect
  <1>3. job' \in [Workers -> [plan : Seq(Effect), answer : Answer]]
    BY <1>1, AdvanceFacts DEF AppendAudit
  <1>4. TypeOK'
    BY <1>1, <1>2, <1>3 DEF AppendAudit, IndInv, TypeOK, history
  <1> QED
    BY <1>1, <1>2, <1>4, AdvanceStep DEF AppendAudit, history

(* Replacing state.json preserves the invariant: the one step that          *)
(* enrolls a peer or spends an attempt for good.                            *)
LEMMA WriteStateStep ==
    ASSUME IndInv, NEW w \in Workers, WriteState(w)
    PROVE  IndInv'
  <1>1. PICK plan, a : plan = job[w].plan /\ a = job[w].answer
    OBVIOUS
  <1>2. /\ plan \in Seq(Effect) /\ a \in Answer /\ PlanOK(plan, a)
        /\ AnswerOK(plan, a) /\ plan # <<>>
        /\ Head(plan).file = "state" /\ state' = Head(plan).content
    BY <1>1, JobFacts DEF WriteState, Next1, Content
  <1>3. PICK rest : rest = Tail(plan)
    OBVIOUS
  <1>4. /\ state' \in State /\ Writable(state', a) /\ PlanOK(rest, a)
        /\ ~Pending(rest)
    BY <1>2, <1>3, PlanTail, HeadFacts, EffectTypes DEF IsState
  <1>5. /\ job' = [job EXCEPT ![w] = [plan |-> rest, answer |-> a]]
        /\ job' \in [Workers -> [plan : Seq(Effect), answer : Answer]]
        /\ job'[w].plan = rest /\ job'[w].answer = a
    <2>1. Advance(w) /\ job[w].plan # <<>>
      BY <1>1, <1>2 DEF WriteState
    <2>2. /\ job' = [job EXCEPT ![w] = [plan |-> rest, answer |-> a]]
          /\ job' \in [Workers -> [plan : Seq(Effect), answer : Answer]]
      BY <1>1, <1>3, <2>1, AdvanceFacts
    <2> QED
      BY <2>2 DEF IndInv, TypeOK
  <1>6. /\ lock = w
        /\ UNCHANGED <<now, lock, identity, audit, minted, issued, crashes,
                       guesses, receipts, setBack>>
    BY <1>1, <1>2 DEF WriteState, IndInv, LockInv, Idle
  <1>7. /\ a.kind # "enrolled" => UNCHANGED enrolments
        /\ a.kind = "enrolled" =>
              /\ a.pairing \in minted /\ a.pairing \in Pairings
              /\ enrolments[a.pairing] = 0
              /\ enrolments' = [enrolments EXCEPT ![a.pairing] = 1]
    <2>1. ASSUME a.kind = "enrolled"
          PROVE  /\ a.pairing \in minted /\ a.pairing \in Pairings
                 /\ enrolments[a.pairing] = 0
                 /\ enrolments' = [enrolments EXCEPT ![a.pairing] = 1]
      <3>1. a.pairing \in minted /\ a.pairing \in Pairings
        BY <1>2, <2>1 DEF AnswerOK, IndInv, TypeOK
      <3>2. enrolments[a.pairing] = 0
        BY <1>4, <2>1 DEF Writable
      <3> QED
        BY <1>1, <2>1, <3>1, <3>2 DEF WriteState
    <2> QED
      BY <1>1, <2>1 DEF WriteState
  <1>8. enrolments' \in [Pairings -> Nat] /\ PairingOnce'
    <2>1. CASE a.kind # "enrolled"
      BY <1>7, <2>1 DEF IndInv, TypeOK, PairingOnce
    <2>2. CASE a.kind = "enrolled"
      <3>1. enrolments \in [Pairings -> Nat] /\ PairingOnce
        BY DEF IndInv, TypeOK
      <3>2. enrolments' = [enrolments EXCEPT ![a.pairing] = 1]
        BY <1>7, <2>2
      <3>3. enrolments' \in [Pairings -> Nat]
        BY <3>1, <3>2
      <3>4. \A p \in Pairings : enrolments'[p] = enrolments[p] \/ enrolments'[p] = 1
        BY <3>1, <3>2
      <3> QED
        BY <3>1, <3>3, <3>4 DEF PairingOnce
    <2> QED
      BY <2>1, <2>2
  <1>9. completions' \in [Challenges -> Nat]
    <2>1. CASE a.kind = "enrolled" /\ a.challenge # NoChallenge
      <3>1. a.challenge \in Challenges
        BY <1>2, <2>1 DEF Answer, Enrolled
      <3> QED
        BY <1>1, <2>1, <3>1 DEF WriteState, IndInv, TypeOK
    <2>2. CASE ~(a.kind = "enrolled" /\ a.challenge # NoChallenge)
      BY <1>1, <2>2 DEF WriteState, IndInv, TypeOK
    <2> QED
      BY <2>1, <2>2
  <1>10. TypeOK'
    BY <1>4, <1>5, <1>6, <1>8, <1>9 DEF IndInv, TypeOK
  <1>11. LockInv'
    BY <1>5, <1>6 DEF IndInv, LockInv, TypeOK
  <1>12. Sound(state)'
    <2> SUFFICES ASSUME NEW p \in Pairings, Offered(state', p)
                 PROVE  /\ p \in minted
                        /\ enrolments'[p] = 0
                        /\ state'.pairings[p].attempts > 0
                        /\ guesses[p] + state'.pairings[p].attempts
                               <= PairingAttempts
      BY <1>6 DEF Sound, Offered
    <2>1. /\ p \in minted /\ enrolments[p] = 0
          /\ state'.pairings[p].attempts > 0
          /\ guesses[p] + state'.pairings[p].attempts <= PairingAttempts
      BY <1>4 DEF Writable, Sound
    <2>2. a.kind = "enrolled" => a.pairing # p
      BY <1>4 DEF Writable
    <2>3. enrolments'[p] = enrolments[p]
      BY <1>7, <2>2 DEF IndInv, TypeOK
    <2> QED
      BY <2>1, <2>3
  <1>13. FreshInv' /\ GuessBound'
    BY <1>6, <1>7 DEF IndInv, TypeOK, FreshInv, GuessBound
  <1>14. PlanOK(rest, a)' /\ AnswerOK(rest, a)'
    <2>1. PlanOK(rest, a)'
      BY <1>4 DEF PlanOK, Pending, IsState
    <2>2. AnswerOK(rest, a)'
      BY <1>2, <1>4, <1>6 DEF AnswerOK, Writable, Charged, Offered
    <2> QED
      BY <2>1, <2>2
  <1>15. JobInv'
    <2> SUFFICES ASSUME NEW o \in Workers
                 PROVE  /\ PlanOK(job[o].plan, job[o].answer)'
                        /\ AnswerOK(job[o].plan, job[o].answer)'
      BY DEF JobInv
    <2>1. CASE o = w
      BY <2>1, <1>5, <1>14
    <2>2. CASE o # w
      <3>1. job'[o] = Idle
        BY <2>2, <1>5, <1>6, OthersKeep DEF IndInv, TypeOK
      <3> QED
        BY <3>1, IdleFine
    <2> QED
      BY <2>1, <2>2
  <1> QED
    BY <1>8, <1>10, <1>11, <1>12, <1>13, <1>15 DEF IndInv

(* Answering the caller preserves the invariant: the attempt behind a       *)
(* verdict is already on disk.                                              *)
LEMMA ReturnStep ==
    ASSUME IndInv, NEW w \in Workers, Return(w)
    PROVE  IndInv'
  <1>1. PICK a : a = job[w].answer
    OBVIOUS
  <1>2. /\ a \in Answer /\ AnswerOK(<<>>, a) /\ lock = w
        /\ \A o \in Workers \ {w} : job[o] = Idle
    BY <1>1, JobFacts, OthersKeep DEF Return, IndInv, LockInv
  <1>3. /\ lock' = Nobody /\ job' = [job EXCEPT ![w] = Idle]
        /\ UNCHANGED <<now, identity, state, audit, minted, issued, crashes,
                       enrolments, completions, setBack>>
    BY DEF Return, disk
  <1>4. \A o \in Workers : job'[o] = Idle
    BY <1>2, <1>3 DEF IndInv, TypeOK
  <1>5. /\ a.kind # "wrong_code" => UNCHANGED guesses
        /\ a.kind = "wrong_code" =>
              /\ a.pairing \in minted /\ a.pairing \in Pairings
              /\ guesses[a.pairing] < PairingAttempts
              /\ Charged(state, a.pairing)
              /\ guesses' = [guesses EXCEPT ![a.pairing]
                                = guesses[a.pairing] + 1]
    <2>1. ~Pending(<<>>)
      BY DEF Pending
    <2> QED
      BY <1>1, <1>2, <2>1 DEF Return, AnswerOK, IndInv, TypeOK
  <1>6. guesses' \in [Pairings -> Nat] /\ GuessBound'
    <2>1. CASE a.kind # "wrong_code"
      BY <1>5, <2>1 DEF IndInv, TypeOK, GuessBound
    <2>2. CASE a.kind = "wrong_code"
      <3>1. guesses[a.pairing] + 1 \in Nat
            /\ guesses[a.pairing] + 1 <= PairingAttempts
        BY <1>5, <2>2 DEF IndInv, TypeOK
      <3> QED
        BY <1>5, <2>2, <3>1 DEF IndInv, TypeOK, GuessBound
    <2> QED
      BY <2>1, <2>2
  <1>7. receipts' \subseteq Enrolled
    <2>1. a.kind = "enrolled" => a \in Enrolled
      BY <1>2 DEF Answer, Enrolled
    <2> QED
      BY <1>1, <2>1 DEF Return, IndInv, TypeOK
  <1>8. TypeOK'
    <2>1. Idle \in [plan : Seq(Effect), answer : Answer]
      BY DEF Idle, Answer
    <2> QED
      BY <1>3, <1>6, <1>7, <2>1 DEF IndInv, TypeOK
  <1>9. LockInv' /\ JobInv'
    BY <1>4, IdleFine DEF LockInv, JobInv
  <1>10. Sound(state)'
    <2> SUFFICES ASSUME NEW p \in Pairings, Offered(state, p)
                 PROVE  /\ p \in minted
                        /\ enrolments[p] = 0
                        /\ state.pairings[p].attempts > 0
                        /\ guesses'[p] + state.pairings[p].attempts
                               <= PairingAttempts
      BY <1>3 DEF Sound, Offered
    <2>1. /\ p \in minted /\ enrolments[p] = 0
          /\ state.pairings[p].attempts > 0
          /\ guesses[p] + state.pairings[p].attempts <= PairingAttempts
      BY DEF IndInv, Sound
    <2>2. CASE a.kind = "wrong_code" /\ a.pairing = p
      <3>1. /\ guesses[p] + 1 + state.pairings[p].attempts <= PairingAttempts
            /\ guesses'[p] = guesses[p] + 1
        BY <1>5, <2>2 DEF Charged, IndInv, TypeOK
      <3> QED
        BY <2>1, <3>1
    <2>3. CASE ~(a.kind = "wrong_code" /\ a.pairing = p)
      <3>1. guesses'[p] = guesses[p]
        BY <1>5, <2>3 DEF IndInv, TypeOK
      <3> QED
        BY <2>1, <3>1
    <2> QED
      BY <2>2, <2>3
  <1>11. FreshInv' /\ PairingOnce'
    BY <1>3, <1>5 DEF IndInv, TypeOK, FreshInv, PairingOnce
  <1> QED
    BY <1>6, <1>8, <1>9, <1>10, <1>11 DEF IndInv

(* A process dying inside a job preserves the invariant.                    *)
LEMMA CrashStep ==
    ASSUME IndInv, NEW w \in Workers, Crash(w)
    PROVE  IndInv'
  <1>1. lock = w /\ \A o \in Workers \ {w} : job[o] = Idle
    BY OthersKeep DEF Crash, IndInv, LockInv
  <1>2. /\ lock' = Nobody /\ job' = [job EXCEPT ![w] = Idle]
        /\ crashes' \in Nat
        /\ UNCHANGED <<now, identity, state, audit, minted, issued, enrolments,
                       completions, guesses, receipts, setBack>>
    BY DEF Crash, disk, history, IndInv, TypeOK
  <1>3. \A o \in Workers : job'[o] = Idle
    BY <1>1, <1>2 DEF IndInv, TypeOK
  <1>4. TypeOK'
    <2>1. Idle \in [plan : Seq(Effect), answer : Answer]
      BY DEF Idle, Answer
    <2> QED
      BY <1>2, <2>1 DEF IndInv, TypeOK
  <1>5. LockInv' /\ JobInv'
    BY <1>3, IdleFine DEF LockInv, JobInv
  <1>6. Sound(state)' /\ FreshInv' /\ PairingOnce' /\ GuessBound'
    BY <1>2, MintedGrows DEF IndInv, FreshInv, PairingOnce, GuessBound
  <1> QED
    BY <1>4, <1>5, <1>6 DEF IndInv

------------------------------------------------------------------------------
(* Every step, and the theorems.                                            *)

(* The empty directory satisfies the invariant.                             *)
LEMMA InitInd == Init => IndInv
  <1> SUFFICES ASSUME Init PROVE IndInv
    OBVIOUS
  <1>1. TypeOK
    <2>1. Idle \in [plan : Seq(Effect), answer : Answer]
      BY DEF Idle, Answer
    <2> QED
      BY <2>1, EmptyStateType DEF Init, TypeOK
  <1>2. \A w \in Workers : job[w] = Idle
    BY DEF Init
  <1>3. LockInv
    BY <1>2 DEF LockInv
  <1>4. JobInv
    <2> SUFFICES ASSUME NEW w \in Workers
                 PROVE  /\ PlanOK(job[w].plan, job[w].answer)
                        /\ AnswerOK(job[w].plan, job[w].answer)
      BY DEF JobInv
    <2>1. job[w].plan = <<>> /\ job[w].answer.kind = "none"
      BY <1>2 DEF Idle
    <2> QED
      BY <2>1 DEF PlanOK, AnswerOK
  <1>5. Sound(state) /\ FreshInv /\ PairingOnce /\ GuessBound
    BY DEF Init, Sound, Offered, EmptyState, FreshInv, PairingOnce, GuessBound
  <1> QED
    BY <1>1, <1>3, <1>4, <1>5 DEF IndInv

(* Steps that touch neither the files nor the jobs.                         *)
LEMMA EnvironmentStep ==
    ASSUME IndInv, now' \in Nat,
           issued' \in [Challenges -> ChallengeRecord \cup {NoChallenge}],
           setBack' \in BOOLEAN,
           UNCHANGED <<lock, disk, job, minted, crashes, enrolments,
                       completions, guesses, receipts>>
    PROVE  IndInv'
  <1>1. TypeOK' /\ LockInv' /\ FreshInv' /\ PairingOnce' /\ GuessBound'
    BY DEF IndInv, TypeOK, LockInv, FreshInv, PairingOnce, GuessBound, disk
  <1>2. Sound(state)'
    BY MintedGrows DEF IndInv, disk
  <1>3. JobInv'
    <2> SUFFICES ASSUME NEW o \in Workers
                 PROVE  /\ PlanOK(job[o].plan, job[o].answer)'
                        /\ AnswerOK(job[o].plan, job[o].answer)'
      BY DEF JobInv
    <2>1. PICK plan, a : plan = job[o].plan /\ a = job[o].answer
      OBVIOUS
    <2>2. PlanOK(plan, a)' /\ AnswerOK(plan, a)'
      BY <2>1, JobFacts, MintedGrows DEF disk
    <2> QED
      BY <2>1, <2>2
  <1> QED
    BY <1>1, <1>2, <1>3 DEF IndInv

(* A relay issuing a challenge preserves the invariant.                     *)
LEMMA IssueChallengeStep ==
    ASSUME IndInv, NEW c \in Challenges, NEW d \in Nat,
           NEW ttl \in ChallengeTTLs, NEW ahead \in Nat,
           IssueChallenge(c, d, ttl, ahead)
    PROVE  IndInv'
  <1>1. [audience |-> d, issued |-> now + ahead, expires |-> now + ahead + ttl]
            \in ChallengeRecord
    BY DEF ChallengeRecord, IndInv, TypeOK
  <1>2. issued' \in [Challenges -> ChallengeRecord \cup {NoChallenge}]
    BY <1>1 DEF IssueChallenge, IndInv, TypeOK
  <1> QED
    BY <1>2, EnvironmentStep DEF IssueChallenge, IndInv, TypeOK, history

(* Every step preserves the invariant.                                      *)
LEMMA NextInd == IndInv /\ [Next]_vars => IndInv'
  <1> SUFFICES ASSUME IndInv, [Next]_vars PROVE IndInv'
    OBVIOUS
  <1>1. ASSUME NEW w \in Workers, Decide(w) PROVE IndInv'
    BY <1>1, ReadIdentityStep, CreatePairingStep, ConsumePairingStep,
       SignRelayChallengeStep, CompleteRelayEnrollmentStep, RevokePeerStep,
       RotateIdentityStep DEF Decide
  <1>2. ASSUME NEW w \in Workers, Perform(w) PROVE IndInv'
    BY <1>2, WriteIdentityStep, WriteStateStep, AppendAuditStep, ReturnStep
       DEF Perform
  <1>3. ASSUME NEW w \in Workers, Crash(w) PROVE IndInv'
    BY <1>3, CrashStep
  <1>4. ASSUME NEW c \in Challenges, NEW d \in 1..identity,
               NEW ttl \in ChallengeTTLs, NEW ahead \in 0..RelayAhead,
               IssueChallenge(c, d, ttl, ahead)
        PROVE  IndInv'
    <2>1. d \in Nat /\ ahead \in Nat
      BY DEF IndInv, TypeOK
    <2> QED
      BY <1>4, <2>1, IssueChallengeStep
  <1>5. CASE Tick
    BY <1>5, EnvironmentStep DEF Tick, IndInv, TypeOK, history
  <1>6. CASE StepBack
    BY <1>6, EnvironmentStep DEF StepBack, IndInv, TypeOK
  <1>7. CASE UNCHANGED vars
    BY <1>7, EnvironmentStep DEF vars, IndInv, TypeOK, history
  <1> QED
    BY <1>1, <1>2, <1>3, <1>4, <1>5, <1>6, <1>7 DEF Next

(* IndInv holds in every reachable state.                                   *)
THEOREM Invariance == Spec => []IndInv
  <1> QED
    BY InitInd, NextInd, PTL DEF Spec

(* Every variable keeps its shape, for all values of the constants.         *)
THEOREM TypeCorrect == Spec => []TypeOK
  <1>1. IndInv => TypeOK
    BY DEF IndInv
  <1> QED
    BY <1>1, Invariance, PTL

(* However processes interleave, crash, revoke, rotate or find the clock    *)
(* moved, no pairing offer ever enrolls twice.                              *)
THEOREM PairingOnceTheorem == Spec => []PairingOnce
  <1>1. IndInv => PairingOnce
    BY DEF IndInv
  <1> QED
    BY <1>1, Invariance, PTL

(* However often a process is killed, at most PairingAttempts wrong codes   *)
(* are answered for one pairing offer.                                      *)
THEOREM GuessBoundTheorem == Spec => []GuessBound
  <1>1. IndInv => GuessBound
    BY DEF IndInv
  <1> QED
    BY <1>1, Invariance, PTL

------------------------------------------------------------------------------
(* The second invariant: what a plan leads to.                              *)

IsIdentity(e) == e.file = "identity"
IsAudit(e) == e.file = "audit"

(* Every offer and every peer of s was made under identity g.               *)
Owned(s, g) ==
    /\ \A p \in Pairings : Offered(s, p) => s.pairings[p].device = g
    /\ \A q \in Peers : s.peers[q] # NoPeer => s.peers[q].device = g

(* The peer that answer a names is in s, active and with that key.          *)
Backs(s, a) ==
    s.peers[a.peer] = [key |-> a.key, revoked |-> FALSE, device |-> a.device]

(* A completed challenge is refused by identity g with this list of used    *)
(* ones, now and as long as the clock is not set back.                      *)
Unusable(c, used, g) ==
    \/ c \in used
    \/ Expired(issued[c].expires, now)
    \/ issued[c].audience < g

(* What the enrolment that answer a claims has left in the histories.       *)
Durable(a) ==
    /\ enrolments[a.pairing] > 0
    /\ a.challenge # NoChallenge => completions[a.challenge] > 0

(* The moves of the ledger, from the state on disk to document s.           *)
Makes(s, p) ==
    /\ ~Offered(state, p) /\ Offered(s, p)
    /\ \A o \in Pairings \ {p} : Offered(s, o) => Offered(state, o)
    /\ s.peers = state.peers

Closes(s) ==
    /\ \A p \in Pairings : Offered(s, p) => Offered(state, p)
    /\ s.peers = state.peers

Enrolls(s, p, q, k, d) ==
    /\ Offered(state, p) /\ ~Offered(s, p) /\ ~Active(state, q)
    /\ \A o \in Pairings \ {p} : s.pairings[o] = state.pairings[o]
    /\ s.peers = [state.peers EXCEPT
                    ![q] = [key |-> k, revoked |-> FALSE, device |-> d]]

Revokes(s, q) ==
    /\ Active(state, q)
    /\ s.pairings = state.pairings
    /\ s.peers = [state.peers EXCEPT ![q].revoked = TRUE]

Moves(s) ==
    \/ \E p \in Pairings : Makes(s, p)
    \/ Closes(s)
    \/ \E p \in Pairings, q \in Peers, k \in Keys, d \in Nat : Enrolls(s, p, q, k, d)
    \/ \E q \in Peers : Revokes(s, q)
    \/ s = EmptyState

(* The key file is written once when there is none, and before the state;   *)
(* a rotation goes one generation on and clears the state after it.         *)
Identities(plan, a) ==
    /\ identity = 0 => plan # <<>> /\ Head(plan) = SetIdentity(1)
    /\ \A i \in DOMAIN plan : IsIdentity(plan[i]) =>
          /\ \/ identity = 0 /\ plan[i].content = 1
             \/ /\ plan[i].content = Device + 1
                /\ a.kind = "done"
                /\ \E j \in DOMAIN plan : i < j /\ plan[j] = SetState(EmptyState)
          /\ \A j \in DOMAIN plan :
                IsIdentity(plan[j]) /\ i < j => plan[i].content < plan[j].content

(* An audit record that claims an enrolment claims the one the job answers, *)
(* and comes after the state that has it.                                   *)
Claims(plan, a) ==
    \A i \in DOMAIN plan : IsAudit(plan[i]) /\ ClaimsEnrolment(plan[i].content) =>
        /\ a.kind = "enrolled"
        /\ plan[i].content.event = "pairing.consumed" =>
               plan[i].content.subject = a.pairing
        /\ plan[i].content.event = "relay.enrollment.completed" =>
               /\ a.challenge # NoChallenge
               /\ plan[i].content.subject = a.challenge
        /\ Durable(a) \/ \E j \in DOMAIN plan : j < i /\ IsState(plan[j])

DocumentOK(s, plan, a) ==
    /\ Moves(s)
    /\ crashes = 0 => Owned(s, Device)
    /\ a.kind = "enrolled" => Backs(s, a)
    /\ a.kind = "enrolled" /\ a.challenge # NoChallenge =>
          /\ issued[a.challenge] # NoChallenge
          /\ a.challenge \in s.used
          /\ ~setBack => completions[a.challenge] = 0
    /\ ~setBack => \A c \in Challenges : completions[c] > 0 =>
          \/ Unusable(c, s.used, identity)
          \/ \E j \in DOMAIN plan :
                IsIdentity(plan[j]) /\ issued[c].audience < plan[j].content

Documents(plan, a) ==
    \A i \in DOMAIN plan : IsState(plan[i]) => DocumentOK(plan[i].content, plan, a)

(* What is on disk already fits, or is about to be replaced.                *)
Standing(plan, a) ==
    /\ crashes = 0 => \/ Owned(state, Device)
                      \/ \E j \in DOMAIN plan : plan[j] = SetState(EmptyState)
    /\ a.kind = "enrolled" => /\ a.device = Device
                              /\ Pending(plan) \/ Backs(state, a)

Duty(plan, a) ==
    Identities(plan, a) /\ Claims(plan, a) /\ Documents(plan, a) /\ Standing(plan, a)

DutyInv == \A w \in Workers : job[w] # Idle => Duty(job[w].plan, job[w].answer)

(* Challenges name an identity that exists, and are issued before they are  *)
(* answered.                                                                *)
IssuedInv ==
    \A c \in Challenges :
        /\ issued[c] # NoChallenge => issued[c].audience <= identity
        /\ completions[c] > 0 => issued[c] # NoChallenge

SpentInv ==
    ~setBack => \A c \in Challenges :
        /\ completions[c] <= 1
        /\ completions[c] > 0 => Unusable(c, state.used, identity)

BlankInv == identity = 0 => state = EmptyState

RestInv == crashes = 0 /\ lock = Nobody => Owned(state, Device)

(* A success record names what it claims, and that is on disk.              *)
ClaimInv ==
    \A r \in audit : r.outcome = "success" =>
        /\ r.event = "pairing.consumed" =>
               r.subject \in Pairings /\ enrolments[r.subject] > 0
        /\ r.event = "relay.enrollment.completed" =>
               r.subject \in Challenges /\ completions[r.subject] > 0

LedgerInv ==
    /\ DutyInv
    /\ IssuedInv
    /\ SpentInv
    /\ BlankInv
    /\ RestInv
    /\ ClaimInv

(* What an operation may plan, before the key file is seen to.              *)
Body(plan, a) ==
    /\ \A i \in DOMAIN plan : IsIdentity(plan[i]) =>
          /\ plan[i].content = Device + 1
          /\ a.kind = "done"
          /\ \E j \in DOMAIN plan : i < j /\ plan[j] = SetState(EmptyState)
          /\ \A j \in DOMAIN plan : IsIdentity(plan[j]) => i = j
    /\ Claims(plan, a)
    /\ Documents(plan, a)
    /\ a.kind = "enrolled" => a.device = Device /\ Pending(plan)

(* The documents of a plan offer nothing that is not on offer, but for S.   *)
Adds(plan, S) ==
    \A i \in DOMAIN plan : IsState(plan[i]) =>
        \A o \in Pairings :
            Offered(plan[i].content, o) => Offered(state, o) \/ o \in S

(* A document of the plan offers p.                                         *)
Planned(plan, p) ==
    \E i \in DOMAIN plan : IsState(plan[i]) /\ Offered(plan[i].content, p)

------------------------------------------------------------------------------
(* Taking the lock.                                                         *)

(* The kinds of an effect exclude each other.                               *)
LEMMA EffectKinds ==
    /\ \A g \in Nat : /\ IsIdentity(SetIdentity(g)) /\ ~IsAudit(SetIdentity(g))
                      /\ ~IsState(SetIdentity(g)) /\ SetIdentity(g).content = g
    /\ \A s \in State : /\ ~IsIdentity(SetState(s)) /\ ~IsAudit(SetState(s))
                        /\ IsState(SetState(s)) /\ SetState(s).content = s
    /\ \A e, o, x : /\ ~IsIdentity(Audit(e, o, x)) /\ IsAudit(Audit(e, o, x))
                    /\ ~IsState(Audit(e, o, x))
                    /\ Audit(e, o, x).content
                           = [event |-> e, outcome |-> o, subject |-> x]
  BY DEF SetIdentity, SetState, Audit, IsIdentity, IsState, IsAudit

(* full is plan after the n effects that make the key file, if there is     *)
(* none.                                                                    *)
Shifted(full, plan, n) ==
    /\ full \in Seq(Effect)
    /\ identity # 0 => n = 0
    /\ identity = 0 => n = 2 /\ full # <<>> /\ Head(full) = SetIdentity(1)
    /\ \A i \in DOMAIN plan : i + n \in DOMAIN full /\ full[i + n] = plan[i]
    /\ \A i \in DOMAIN full :
          /\ i \in Nat
          /\ \/ i - n \in DOMAIN plan /\ full[i] = plan[i - n]
             \/ i = 1 /\ identity = 0 /\ full[i] = SetIdentity(1)
             \/ /\ i = 2 /\ identity = 0
                /\ full[i] = Audit("identity.created", "success", 1)

(* What a plan becomes when the key file is made first.                     *)
LEMMA FullPlan ==
    ASSUME NEW plan \in Seq(Effect), NEW full, full = EnsureIdentity \o plan
    PROVE  \E n \in Nat : Shifted(full, plan, n)
  <1>1. CASE identity # 0
    <2>1. full = plan
      BY <1>1 DEF EnsureIdentity
    <2>2. \A i \in DOMAIN plan : i \in Nat /\ i - 0 = i /\ i + 0 = i
      OBVIOUS
    <2>3. /\ full \in Seq(Effect)
          /\ \A i \in DOMAIN plan : i + 0 \in DOMAIN full /\ full[i + 0] = plan[i]
          /\ \A i \in DOMAIN full :
                i \in Nat /\ i - 0 \in DOMAIN plan /\ full[i] = plan[i - 0]
      BY <2>1, <2>2
    <2> QED
      BY <1>1, <2>3 DEF Shifted
  <1>2. CASE identity = 0
    <2>1. PICK x, y : /\ x = SetIdentity(1)
                      /\ y = Audit("identity.created", "success", 1)
      OBVIOUS
    <2>2. x \in Effect /\ y \in Effect
      BY <2>1, EffectTypes DEF Events
    <2>3. full = <<x, y>> \o plan
      BY <1>2, <2>1 DEF EnsureIdentity
    <2>4. PICK pre : pre = <<x, y>>
      OBVIOUS
    <2>10. pre \in Seq(Effect)
      BY <2>2, <2>4
    <2>5. /\ full = pre \o plan /\ Len(pre) = 2 /\ pre[1] = x /\ pre[2] = y
      BY <2>2, <2>3, <2>4
    <2>11. full \in Seq(Effect) /\ Len(full) = Len(pre) + Len(plan)
           /\ Len(plan) \in Nat
      <3>1. full = pre \o plan
        BY <2>5
      <3> QED
        BY <3>1, <2>10
    <2>6. /\ full \in Seq(Effect) /\ Len(full) = 2 + Len(plan) /\ full # <<>>
          /\ \A i \in DOMAIN full :
                full[i] = IF i <= 2 THEN pre[i] ELSE plan[i - 2]
      BY <2>5, <2>10, <2>11
    <2>7. \A i \in DOMAIN plan : i + 2 \in DOMAIN full /\ full[i + 2] = plan[i]
      BY <2>6
    <2>8. \A i \in DOMAIN full :
             /\ i \in Nat
             /\ \/ i - 2 \in DOMAIN plan /\ full[i] = plan[i - 2]
                \/ i = 1 /\ full[i] = x
                \/ i = 2 /\ full[i] = y
      BY <2>5, <2>6
    <2>9. Head(full) = x
      BY <2>5, <2>6
    <2> QED
      BY <1>2, <2>1, <2>6, <2>7, <2>8, <2>9 DEF Shifted
  <1> QED
    BY <1>1, <1>2

(* The documents of a plan are as good in a longer one.                     *)
LEMMA LongerPlan ==
    ASSUME NEW s, NEW a, NEW plan, NEW full, DocumentOK(s, plan, a),
           \A i \in DOMAIN plan : \E j \in DOMAIN full : full[j] = plan[i]
    PROVE  DocumentOK(s, full, a)
  <1>1. ASSUME NEW c \in Challenges, NEW i \in DOMAIN plan, IsIdentity(plan[i]),
               issued[c].audience < plan[i].content
        PROVE  \E j \in DOMAIN full :
                   IsIdentity(full[j]) /\ issued[c].audience < full[j].content
    BY <1>1
  <1> QED
    BY <1>1 DEF DocumentOK

(* Making the key file first is part of the job.                            *)
LEMMA StartDuty ==
    ASSUME TypeOK, NEW plan \in Seq(Effect), NEW a \in Answer, Body(plan, a),
           crashes = 0 => Owned(state, Device),
           NEW full, full = EnsureIdentity \o plan
    PROVE  Duty(full, a)
  <1>0. PICK n \in Nat : Shifted(full, plan, n)
    BY FullPlan
  <1>1. /\ full \in Seq(Effect)
        /\ identity # 0 => n = 0
        /\ identity = 0 => n = 2 /\ full # <<>> /\ Head(full) = SetIdentity(1)
        /\ \A i \in DOMAIN plan : i + n \in DOMAIN full /\ full[i + n] = plan[i]
        /\ \A i \in DOMAIN full :
              /\ i \in Nat
              /\ \/ i - n \in DOMAIN plan /\ full[i] = plan[i - n]
                 \/ i = 1 /\ identity = 0 /\ full[i] = SetIdentity(1)
                 \/ /\ i = 2 /\ identity = 0
                    /\ full[i] = Audit("identity.created", "success", 1)
    BY <1>0 DEF Shifted
  <1>2. /\ IsIdentity(SetIdentity(1)) /\ ~IsAudit(SetIdentity(1))
        /\ ~IsState(SetIdentity(1)) /\ SetIdentity(1).content = 1
        /\ ~IsIdentity(Audit("identity.created", "success", 1))
        /\ ~IsState(Audit("identity.created", "success", 1))
        /\ ~ClaimsEnrolment(Audit("identity.created", "success", 1).content)
    <2>1. /\ IsIdentity(SetIdentity(1)) /\ ~IsAudit(SetIdentity(1))
          /\ ~IsState(SetIdentity(1)) /\ SetIdentity(1).content = 1
      BY EffectKinds
    <2>2. /\ ~IsIdentity(Audit("identity.created", "success", 1))
          /\ ~IsState(Audit("identity.created", "success", 1))
      BY EffectKinds
    <2>3. Audit("identity.created", "success", 1).content.event = "identity.created"
      BY DEF Audit
    <2> QED
      BY <2>1, <2>2, <2>3 DEF ClaimsEnrolment
  <1>3. Device \in Nat /\ (identity = 0 => Device = 1)
    BY DEF TypeOK, Device
  <1>4. \A i \in DOMAIN plan : i \in Nat
    OBVIOUS
  <1>5. Identities(full, a)
    <2>1. ASSUME NEW i \in DOMAIN full, IsIdentity(full[i])
          PROVE  /\ \/ identity = 0 /\ full[i].content = 1
                    \/ /\ full[i].content = Device + 1
                       /\ a.kind = "done"
                       /\ \E j \in DOMAIN full :
                             i < j /\ full[j] = SetState(EmptyState)
                 /\ \A j \in DOMAIN full :
                       IsIdentity(full[j]) /\ i < j =>
                           full[i].content < full[j].content
      <3>1. CASE i - n \in DOMAIN plan /\ full[i] = plan[i - n]
        <4>1. /\ full[i].content = Device + 1 /\ a.kind = "done"
              /\ \A j \in DOMAIN plan : IsIdentity(plan[j]) => i - n = j
          BY <2>1, <3>1 DEF Body
        <4>2. PICK j \in DOMAIN plan : i - n < j /\ plan[j] = SetState(EmptyState)
          BY <2>1, <3>1 DEF Body
        <4>3. j + n \in DOMAIN full /\ full[j + n] = SetState(EmptyState)
          BY <1>1, <4>2
        <4>4. i < j + n
          BY <1>1, <1>4, <4>2
        <4>5. ASSUME NEW k \in DOMAIN full, IsIdentity(full[k]), i < k
              PROVE  FALSE
          <5>1. (k # 1 /\ k # 2) \/ identity # 0
            BY <1>1, <1>4, <3>1, <4>5
          <5>2. k - n \in DOMAIN plan /\ full[k] = plan[k - n]
            BY <1>1, <5>1
          <5>3. i - n = k - n
            BY <4>1, <4>5, <5>2
          <5> QED
            BY <1>1, <4>5, <5>3
        <4> QED
          BY <4>1, <4>3, <4>4, <4>5
      <3>2. CASE i = 1 /\ identity = 0 /\ full[i] = SetIdentity(1)
        <4>1. ASSUME NEW k \in DOMAIN full, IsIdentity(full[k]), i < k
              PROVE  full[i].content < full[k].content
          <5>1. k - n \in DOMAIN plan /\ full[k] = plan[k - n]
            <6>1. k \in Nat /\ k # 1
              BY <1>1, <3>2, <4>1
            <6>2. full[k] # Audit("identity.created", "success", 1)
              BY <1>2, <4>1
            <6> QED
              BY <1>1, <6>1, <6>2
          <5>2. full[k].content = Device + 1
            BY <4>1, <5>1 DEF Body
          <5> QED
            BY <1>2, <1>3, <3>2, <5>2
        <4> QED
          BY <1>2, <3>2, <4>1
      <3> QED
        BY <1>1, <1>2, <2>1, <3>1, <3>2
    <2> QED
      BY <1>1, <2>1 DEF Identities
  <1>6. Claims(full, a)
    <2> SUFFICES ASSUME NEW i \in DOMAIN full, IsAudit(full[i]),
                        ClaimsEnrolment(full[i].content)
                 PROVE  /\ a.kind = "enrolled"
                        /\ full[i].content.event = "pairing.consumed" =>
                               full[i].content.subject = a.pairing
                        /\ full[i].content.event = "relay.enrollment.completed" =>
                               /\ a.challenge # NoChallenge
                               /\ full[i].content.subject = a.challenge
                        /\ \/ Durable(a)
                           \/ \E j \in DOMAIN full : j < i /\ IsState(full[j])
      BY DEF Claims
    <2>1. i - n \in DOMAIN plan /\ full[i] = plan[i - n]
      BY <1>1, <1>2
    <2>2. ASSUME NEW j \in DOMAIN plan, j < i - n, IsState(plan[j])
          PROVE  \E k \in DOMAIN full : k < i /\ IsState(full[k])
      <3>1. /\ j + n \in DOMAIN full /\ full[j + n] = plan[j]
            /\ i \in Nat /\ j \in Nat
        BY <1>1, <1>4
      <3>2. j + n < i
        BY <2>2, <3>1
      <3> QED
        BY <2>2, <3>1, <3>2
    <2> QED
      BY <2>1, <2>2 DEF Body, Claims
  <1>7. Documents(full, a)
    <2> SUFFICES ASSUME NEW i \in DOMAIN full, IsState(full[i])
                 PROVE  DocumentOK(full[i].content, full, a)
      BY DEF Documents
    <2>1. i - n \in DOMAIN plan /\ full[i] = plan[i - n]
      BY <1>1, <1>2
    <2>2. DocumentOK(full[i].content, plan, a)
      BY <2>1 DEF Body, Documents
    <2>3. \A j \in DOMAIN plan : \E k \in DOMAIN full : full[k] = plan[j]
      BY <1>1
    <2>4. PICK s : s = full[i].content
      OBVIOUS
    <2> QED
      BY <2>2, <2>3, <2>4, LongerPlan
  <1>8. Standing(full, a)
    <2>1. Pending(plan) => Pending(full)
      BY <1>1 DEF Pending
    <2> QED
      BY <2>1 DEF Body, Standing
  <1> QED
    BY <1>5, <1>6, <1>7, <1>8 DEF Duty

------------------------------------------------------------------------------
(* What each operation plans.                                               *)

(* A job that writes the state first and then only appends audit records    *)
(* that claim no more than its answer.                                      *)
LEMMA WriteBody ==
    ASSUME NEW s \in State, NEW a \in Answer, NEW plan \in Seq(Effect),
           \A i \in DOMAIN plan : IsState(plan[i]) <=> i = 1,
           1 \in DOMAIN plan, plan[1].content = s,
           \A i \in DOMAIN plan : ~IsIdentity(plan[i]),
           \A i \in DOMAIN plan :
              IsAudit(plan[i]) /\ ClaimsEnrolment(plan[i].content) =>
                 /\ a.kind = "enrolled"
                 /\ plan[i].content.event = "pairing.consumed" =>
                        plan[i].content.subject = a.pairing
                 /\ plan[i].content.event = "relay.enrollment.completed" =>
                        /\ a.challenge # NoChallenge
                        /\ plan[i].content.subject = a.challenge,
           DocumentOK(s, plan, a),
           a.kind = "enrolled" => a.device = Device
    PROVE  Body(plan, a)
  <1>1. \A i \in DOMAIN plan : IsAudit(plan[i]) => 1 < i
    <2>1. \A i \in DOMAIN plan : IsAudit(plan[i]) => i # 1
      BY DEF IsAudit, IsState
    <2>2. \A i \in DOMAIN plan : i \in Nat /\ i >= 1
      OBVIOUS
    <2> QED
      BY <2>1, <2>2
  <1>2. Claims(plan, a)
    BY <1>1 DEF Claims
  <1>3. Documents(plan, a) /\ Pending(plan)
    BY DEF Documents, Pending
  <1> QED
    BY <1>2, <1>3 DEF Body

(* What keeps every challenge unusable that was.                            *)
LEMMA KeepsUsed ==
    ASSUME SpentInv, NEW used,
           \A c \in state.used : c \in used \/ Expired(issued[c].expires, now)
    PROVE  ~setBack => \A c \in Challenges :
              completions[c] > 0 => Unusable(c, used, identity)
  BY DEF SpentInv, Unusable

(* A document that closes offers, revokes or clears is a good one for a job *)
(* that does not enroll.                                                    *)
LEMMA QuietDocument ==
    ASSUME SpentInv, NEW s, NEW plan, NEW a, a.kind # "enrolled", Moves(s),
           s.used = state.used, crashes = 0 => Owned(s, Device)
    PROVE  DocumentOK(s, plan, a)
  BY KeepsUsed DEF DocumentOK

(* The verdict on a pairing code is a move of the ledger, and its answer    *)
(* tells which.                                                             *)
LEMMA VerdictMoves ==
    ASSUME TypeOK, NEW s \in State,
           s.pairings = state.pairings, s.peers = state.peers,
           NEW p \in Pairings, NEW q \in Peers, NEW k \in Keys,
           NEW codeOk \in BOOLEAN, NEW t \in Nat,
           NEW c \in Challenges \cup {NoChallenge},
           NEW v, v = Verdict(s, p, codeOk, q, t),
           NEW r, r = AfterVerdict(s, v, p, q, k, Device),
           NEW a, a = VerdictAnswer(v, p, q, k, c, Device)
    PROVE  /\ r.used = s.used
           /\ a.kind # "enrolled" => Closes(r)
           /\ a.kind = "enrolled" =>
                 /\ v = "enrolled" /\ a.pairing = p /\ a.challenge = c
                 /\ a.device = Device /\ Backs(r, a)
                 /\ Enrolls(r, p, q, k, Device)
           /\ v = "enrolled" => a.kind = "enrolled"
           /\ Owned(state, Device) => Owned(r, Device)
  <1>0. Device \in Nat
    BY DEF TypeOK, Device
  <1>1. CASE v \notin {"wrong_code", "enrolled"}
    <2>1. r = ClosePairing(s, p) /\ a.kind = "refused"
      BY <1>1 DEF AfterVerdict, VerdictAnswer, Refused
    <2>2. /\ r.used = s.used /\ r.peers = s.peers
          /\ ~Offered(r, p)
          /\ \A o \in Pairings \ {p} : r.pairings[o] = s.pairings[o]
      BY <2>1, ClosePairingType DEF ClosePairing, State
    <2> QED
      BY <1>1, <2>1, <2>2 DEF Closes, Owned, Offered
  <1>2. CASE v = "wrong_code"
    <2>1. r = SpendAttempt(s, p) /\ a.kind = "wrong_code"
      BY <1>2 DEF AfterVerdict, VerdictAnswer, WrongCode
    <2>2. Offered(s, p)
      BY <1>2 DEF Verdict, Consumable
    <2>3. /\ r.used = s.used /\ r.peers = s.peers
          /\ Offered(r, p) => r.pairings[p].device = s.pairings[p].device
      <3>1. CASE s.pairings[p].attempts - 1 <= 0
        BY <2>1, <3>1, ClosePairingType DEF SpendAttempt, ClosePairing, State
      <3>2. CASE ~(s.pairings[p].attempts - 1 <= 0)
        <4>1. r = [s EXCEPT !.pairings[p].attempts = s.pairings[p].attempts - 1]
          BY <2>1, <3>2 DEF SpendAttempt, State
        <4>2. s.pairings[p] \in PairingRecord
          BY <2>2, OfferShape
        <4> QED
          BY <4>1, <4>2 DEF State, PairingRecord
      <3> QED
        BY <3>1, <3>2
    <2>4. \A o \in Pairings \ {p} : r.pairings[o] = s.pairings[o]
      BY <2>1, <2>2, SpendAttemptType
    <2> QED
      BY <1>2, <2>1, <2>2, <2>3, <2>4 DEF Closes, Owned, Offered
  <1>3. CASE v = "enrolled"
    <2>1. r = EnrollPeer(s, p, q, k, Device)
      BY <1>3 DEF AfterVerdict
    <2>2. a = [kind |-> "enrolled", pairing |-> p, peer |-> q, key |-> k,
               challenge |-> c, device |-> Device]
      BY <1>3 DEF VerdictAnswer
    <2>3. Offered(s, p) /\ ~Active(s, q)
      BY <1>3 DEF Verdict, Consumable
    <2>4. /\ r.used = s.used /\ ~Offered(r, p)
          /\ \A o \in Pairings \ {p} : r.pairings[o] = s.pairings[o]
          /\ r.peers = [s.peers EXCEPT
                          ![q] = [key |-> k, revoked |-> FALSE, device |-> Device]]
      <3>1. /\ ~Offered(r, p)
            /\ \A o \in Pairings \ {p} : r.pairings[o] = s.pairings[o]
        BY <2>1, <1>0, EnrollPeerType
      <3>2. /\ r.used = s.used
            /\ r.peers = [s.peers EXCEPT
                            ![q] = [key |-> k, revoked |-> FALSE,
                                    device |-> Device]]
        BY <2>1 DEF EnrollPeer, State
      <3> QED
        BY <3>1, <3>2
    <2>5. Enrolls(r, p, q, k, Device)
      BY <2>3, <2>4 DEF Enrolls, Offered, Active
    <2>6. Backs(r, a)
      BY <2>2, <2>4 DEF Backs, State
    <2>7. Owned(state, Device) => Owned(r, Device)
      BY <2>4 DEF Owned, Offered, State
    <2> QED
      BY <1>3, <2>2, <2>4, <2>5, <2>6, <2>7
  <1> QED
    BY <1>1, <1>2, <1>3

(* Moves and owners depend on the offers and the peers only.                *)
LEMMA SameDocument ==
    ASSUME NEW r, NEW s, s.pairings = r.pairings, s.peers = r.peers
    PROVE  /\ Closes(r) => Closes(s)
           /\ \A p, q, k, d : Enrolls(r, p, q, k, d) => Enrolls(s, p, q, k, d)
           /\ \A g : Owned(r, g) => Owned(s, g)
           /\ \A a : Backs(r, a) => Backs(s, a)
  BY DEF Closes, Enrolls, Owned, Backs, Offered

(* A plan without effects, and one with a single audit record that claims   *)
(* nothing.                                                                 *)
LEMMA QuietBody ==
    ASSUME NEW a \in {Done, Refused}, NEW e, IsAudit(e), ~IsState(e),
           ~IsIdentity(e), ~ClaimsEnrolment(e.content),
           NEW plan \in {<<>>, <<e>>}
    PROVE  Body(plan, a) /\ Adds(plan, {})
  <1>1. a.kind # "enrolled"
    BY DEF Done, Refused
  <1>2. \A i \in DOMAIN plan : plan[i] = e
    <2>1. CASE plan = <<>>
      BY <2>1
    <2>2. CASE plan = <<e>>
      BY <2>2
    <2> QED
      BY <2>1, <2>2
  <1> QED
    BY <1>1, <1>2 DEF Body, Claims, Documents, Adds

(* create_pairing: the new offer, and the expired ones gone.                *)
LEMMA CreatePairingBody ==
    ASSUME IndInv, LedgerInv, crashes = 0 => Owned(state, Device),
           NEW p \in Pairings, p \notin minted, NEW ttl \in PairingTTLs,
           NEW plan,
           plan = <<SetState(NewPairing(state, p, ttl)),
                    Audit("pairing.created", "success", p)>>
    PROVE  /\ plan \in Seq(Effect) /\ Body(plan, Done)
           /\ Adds(plan, {p}) /\ Planned(plan, p)
  <1>0. /\ TypeOK /\ Sound(state) /\ SpentInv /\ state \in State
        /\ now \in Nat /\ Device \in Nat /\ ttl \in Nat
    BY DEF IndInv, LedgerInv, TypeOK, Device
  <1>1. PICK s, e : /\ s = NewPairing(state, p, ttl)
                    /\ e = Audit("pairing.created", "success", p)
    OBVIOUS
  <1>2. PICK r : r = PruneExpired(state, now)
    OBVIOUS
  <1>3. /\ r \in State
        /\ \A o \in Pairings : Offered(r, o) =>
              Offered(state, o) /\ r.pairings[o] = state.pairings[o]
    BY <1>0, <1>2, PruneExpiredType
  <1>4. r.peers = state.peers /\ r.used = state.used
    BY <1>0, <1>2 DEF PruneExpired, State
  <1>5. PICK offer \in PairingRecord :
           /\ offer.device = Device
           /\ s = [r EXCEPT !.pairings[p] = offer]
    <2>1. [expires |-> now + ttl, attempts |-> PairingAttempts,
           device |-> Device] \in PairingRecord
      BY <1>0 DEF PairingRecord
    <2> QED
      BY <2>1, <1>1, <1>2 DEF NewPairing
  <1>6. /\ s \in State /\ s.pairings[p] = offer
        /\ \A o \in Pairings \ {p} : s.pairings[o] = r.pairings[o]
        /\ s.peers = state.peers /\ s.used = state.used
    BY <1>3, <1>4, <1>5 DEF State
  <1>7. offer # NoPairing
    BY <1>5 DEF PairingRecord
  <1>8. ~Offered(state, p)
    BY <1>0 DEF Sound
  <1>9. Makes(s, p)
    BY <1>3, <1>6, <1>7, <1>8 DEF Makes, Offered
  <1>10. Owned(state, Device) => Owned(s, Device)
    BY <1>3, <1>5, <1>6 DEF Owned, Offered
  <1>11. Done \in Answer /\ Done.kind = "done"
    BY DEF Done, Answer
  <1>12. e \in Effect /\ ~IsState(e)
    BY <1>1, EffectTypes DEF Events
  <1>13. IsAudit(e) /\ ~IsIdentity(e) /\ ~ClaimsEnrolment(e.content)
    <2>1. e.content.event = "pairing.created"
      BY <1>1 DEF Audit
    <2> QED
      BY <1>1, <2>1, EffectKinds DEF ClaimsEnrolment
  <1>14. plan = <<SetState(s), e>>
    BY <1>1
  <1>15. /\ plan \in Seq(Effect) /\ 1 \in DOMAIN plan /\ plan[1].content = s
         /\ \A i \in DOMAIN plan : IsState(plan[i]) <=> i = 1
    BY <1>6, <1>12, <1>14, WritePair
  <1>16. /\ DOMAIN plan = 1..2 /\ plan[1] = SetState(s) /\ plan[2] = e
    BY <1>14
  <1>17. \A i \in DOMAIN plan : ~IsIdentity(plan[i])
                                /\ (IsAudit(plan[i]) => plan[i] = e)
    BY <1>6, <1>13, <1>16, EffectKinds
  <1>18. DocumentOK(s, plan, Done)
    BY <1>0, <1>6, <1>9, <1>10, <1>11, QuietDocument DEF Moves
  <1>19. \A i \in DOMAIN plan :
            ~(IsAudit(plan[i]) /\ ClaimsEnrolment(plan[i].content))
    BY <1>13, <1>17
  <1>20. \A i \in DOMAIN plan : ~IsIdentity(plan[i])
    BY <1>17
  <1>21. Body(plan, Done)
    BY <1>6, <1>11, <1>15, <1>18, <1>19, <1>20, WriteBody
  <1>22. Adds(plan, {p})
    BY <1>9, <1>15 DEF Makes, Adds
  <1>23. Planned(plan, p)
    BY <1>9, <1>15 DEF Makes, Planned
  <1> QED
    BY <1>15, <1>21, <1>22, <1>23

(* consume_pairing: the verdict's document and its audit record.            *)
LEMMA ConsumePairingBody ==
    ASSUME IndInv, LedgerInv, crashes = 0 => Owned(state, Device),
           NEW p \in Pairings, NEW codeOk \in BOOLEAN, NEW q \in Peers,
           NEW k \in Keys,
           NEW v, v = Verdict(state, p, codeOk, q, now),
           NEW s, s = AfterVerdict(state, v, p, q, k, Device),
           NEW a, a = VerdictAnswer(v, p, q, k, NoChallenge, Device),
           NEW plan, plan = ConsumePlan(s, v, p)
    PROVE  /\ plan \in Seq(Effect) /\ a \in Answer /\ Body(plan, a)
           /\ Adds(plan, {})
  <1>0. /\ TypeOK /\ Sound(state) /\ SpentInv /\ state \in State
        /\ now \in Nat /\ Device \in Nat
    BY DEF IndInv, LedgerInv, TypeOK, Device
  <1>1. s \in State /\ a \in Answer
    BY <1>0, VerdictSound
  <1>2. /\ s.used = state.used
        /\ a.kind # "enrolled" => Closes(s)
        /\ a.kind = "enrolled" =>
              /\ v = "enrolled" /\ a.pairing = p /\ a.challenge = NoChallenge
              /\ a.device = Device /\ Backs(s, a)
              /\ Enrolls(s, p, q, k, Device)
        /\ v = "enrolled" => a.kind = "enrolled"
        /\ Owned(state, Device) => Owned(s, Device)
    BY <1>0, VerdictMoves
  <1>3. PICK o, e : /\ o = IF v = "enrolled" THEN "success" ELSE "rejected"
                    /\ e = Audit("pairing.consumed", o, p)
    OBVIOUS
  <1>4. e \in Effect /\ ~IsState(e) /\ IsAudit(e) /\ ~IsIdentity(e)
    BY <1>3, EffectTypes, EffectKinds DEF Events
  <1>5. /\ e.content.event = "pairing.consumed" /\ e.content.outcome = o
        /\ e.content.subject = p
    BY <1>3 DEF Audit
  <1>6. plan = <<SetState(s), e>>
    BY <1>3 DEF ConsumePlan
  <1>7. /\ plan \in Seq(Effect) /\ 1 \in DOMAIN plan /\ plan[1].content = s
        /\ \A i \in DOMAIN plan : IsState(plan[i]) <=> i = 1
    BY <1>1, <1>4, <1>6, WritePair
  <1>8. /\ DOMAIN plan = 1..2 /\ plan[1] = SetState(s) /\ plan[2] = e
    BY <1>6
  <1>9. \A i \in DOMAIN plan : ~IsIdentity(plan[i])
                               /\ (IsAudit(plan[i]) => plan[i] = e)
    BY <1>1, <1>4, <1>8, EffectKinds
  <1>10. ClaimsEnrolment(e.content) => a.kind = "enrolled"
    BY <1>2, <1>3, <1>5 DEF ClaimsEnrolment
  <1>11. Moves(s)
    BY <1>0, <1>2 DEF Moves
  <1>12. DocumentOK(s, plan, a)
    BY <1>0, <1>2, <1>11, KeepsUsed DEF DocumentOK
  <1>13. Adds(plan, {})
    BY <1>0, <1>2, <1>7 DEF Closes, Enrolls, Offered, Adds
  <1>14. Body(plan, a)
    BY <1>1, <1>2, <1>5, <1>7, <1>9, <1>10, <1>12, WriteBody
  <1> QED
    BY <1>1, <1>7, <1>13, <1>14

(* The effects of a plan made of two parts.                                 *)
LEMMA AppendedEffects ==
    ASSUME NEW first \in Seq(Effect), NEW rest \in Seq(Effect),
           NEW plan, plan = first \o rest
    PROVE  \A i \in DOMAIN plan :
              \/ i \in DOMAIN first /\ plan[i] = first[i]
              \/ /\ i - Len(first) \in DOMAIN rest
                 /\ plan[i] = rest[i - Len(first)]
  OBVIOUS

(* A plan of four.                                                          *)
LEMMA FourEffects ==
    ASSUME NEW x \in Effect, NEW y \in Effect, NEW z \in Effect,
           NEW u \in Effect, NEW plan, plan = <<x, y, z, u>>
    PROVE  /\ plan \in Seq(Effect) /\ DOMAIN plan = 1..4
           /\ plan[1] = x /\ plan[2] = y /\ plan[3] = z /\ plan[4] = u
  OBVIOUS

(* complete_relay_enrollment, once challenge and proof are accepted: the    *)
(* challenge is used in the write that enrolls the peer.                    *)
LEMMA CompleteBody ==
    ASSUME IndInv, LedgerInv, crashes = 0 => Owned(state, Device),
           NEW c \in Challenges, NEW p \in Pairings, NEW codeOk \in BOOLEAN,
           NEW q \in Peers, NEW k \in Keys,
           NEW r, r = PruneUsedChallenges(state, now),
           ValidChallenge(c, Device, now), c \notin r.used,
           NEW v, v = Verdict(r, p, codeOk, q, now),
           NEW a, a = VerdictAnswer(v, p, q, k, c, Device),
           NEW t, t = CompletedState(r, v, c, p, q, k),
           NEW plan, plan = CompletePlan(t, v, c, p)
    PROVE  /\ plan \in Seq(Effect) /\ a \in Answer /\ Body(plan, a)
           /\ Adds(plan, {})
  <1>0. /\ TypeOK /\ Sound(state) /\ SpentInv /\ IssuedInv /\ state \in State
        /\ now \in Nat /\ Device \in Nat /\ identity \in Nat
        /\ identity <= Device
    BY DEF IndInv, LedgerInv, TypeOK, Device
  <1>1. /\ r \in State /\ r.pairings = state.pairings /\ r.peers = state.peers
        /\ \A d \in state.used : d \in r.used \/ Expired(issued[d].expires, now)
    <2>1. /\ r \in State /\ r.pairings = state.pairings /\ r.peers = state.peers
      BY <1>0, PruneUsedType
    <2>2. r.used = {d \in state.used : ~Expired(issued[d].expires, now)}
      BY <1>0 DEF PruneUsedChallenges, State
    <2> QED
      BY <2>1, <2>2
  <1>2. Sound(r)
    BY <1>0, <1>1 DEF Sound, Offered
  <1>3. PICK s : s = AfterVerdict(r, v, p, q, k, Device)
    OBVIOUS
  <1>4. s \in State /\ a \in Answer
    BY <1>0, <1>1, <1>2, <1>3, VerdictSound
  <1>5. /\ s.used = r.used
        /\ a.kind # "enrolled" => Closes(s)
        /\ a.kind = "enrolled" =>
              /\ v = "enrolled" /\ a.pairing = p /\ a.challenge = c
              /\ a.device = Device /\ Backs(s, a)
              /\ Enrolls(s, p, q, k, Device)
        /\ v = "enrolled" => a.kind = "enrolled"
        /\ Owned(state, Device) => Owned(s, Device)
    BY <1>0, <1>1, <1>3, VerdictMoves
  <1>6. /\ t \in State /\ t.pairings = s.pairings /\ t.peers = s.peers
        /\ s.used \subseteq t.used
        /\ v = "enrolled" => c \in t.used
    BY <1>3, <1>4 DEF CompletedState, State
  <1>7. /\ a.kind # "enrolled" => Closes(t)
        /\ a.kind = "enrolled" => Backs(t, a) /\ Enrolls(t, p, q, k, Device)
        /\ Owned(state, Device) => Owned(t, Device)
    BY <1>5, <1>6, SameDocument
  <1>8. Moves(t)
    BY <1>0, <1>7 DEF Moves
  <1>9. /\ issued[c] # NoChallenge
        /\ ~setBack => completions[c] = 0
    <2>1. /\ issued[c] # NoChallenge /\ issued[c].audience = Device
          /\ ~Expired(issued[c].expires, now)
      BY DEF ValidChallenge
    <2>2. c \notin state.used
      BY <1>1, <2>1
    <2>3. ~(issued[c].audience < identity)
      BY <1>0, <2>1
    <2>4. ~Unusable(c, state.used, identity)
      BY <2>1, <2>2, <2>3 DEF Unusable
    <2>5. ~setBack => ~(completions[c] > 0)
      BY <1>0, <2>4 DEF SpentInv
    <2>6. completions[c] \in Nat
      BY <1>0 DEF TypeOK
    <2> QED
      BY <2>1, <2>5, <2>6
  <1>10. ~setBack => \A d \in Challenges :
             completions[d] > 0 => Unusable(d, t.used, identity)
    BY <1>0, <1>1, <1>5, <1>6, KeepsUsed
  <1>11. DocumentOK(t, plan, a)
    BY <1>5, <1>6, <1>7, <1>8, <1>9, <1>10 DEF DocumentOK
  <1>12. PICK o, e, f : /\ o = IF v = "enrolled" THEN "success" ELSE "rejected"
                        /\ e = Audit("pairing.consumed", o, p)
                        /\ f = Audit("relay.enrollment.completed", "success", c)
    OBVIOUS
  <1>13. /\ e \in Effect /\ ~IsState(e) /\ IsAudit(e) /\ ~IsIdentity(e)
         /\ f \in Effect /\ ~IsState(f) /\ IsAudit(f) /\ ~IsIdentity(f)
    BY <1>12, EffectTypes, EffectKinds DEF Events
  <1>14. /\ e.content.event = "pairing.consumed" /\ e.content.outcome = o
         /\ e.content.subject = p
         /\ f.content.event = "relay.enrollment.completed"
         /\ f.content.subject = c
    BY <1>12 DEF Audit
  <1>15. PICK tail : /\ tail = IF v = "enrolled" THEN <<f>> ELSE <<>>
                     /\ plan = <<SetState(t), e>> \o tail
    BY <1>12 DEF CompletePlan, ConsumePlan
  <1>16. tail \in Seq(Effect) /\ \A i \in DOMAIN tail : ~IsState(tail[i])
    <2>1. CASE v = "enrolled"
      BY <1>13, <1>15, <2>1
    <2>2. CASE v # "enrolled"
      BY <1>15, <2>2
    <2> QED
      BY <2>1, <2>2
  <1>17. /\ plan \in Seq(Effect) /\ 1 \in DOMAIN plan /\ plan[1].content = t
         /\ \A i \in DOMAIN plan : IsState(plan[i]) <=> i = 1
    <2>1. t \in State /\ e \in Effect /\ ~IsState(e)
      BY <1>6, <1>13
    <2>2. plan = <<SetState(t), e>> \o tail
      BY <1>15
    <2> QED
      BY <2>1, <2>2, <1>16, WritePlan, SMTT(60)
  <1>18. \A i \in DOMAIN plan :
            plan[i] \in {SetState(t), e} \/ (v = "enrolled" /\ plan[i] = f)
    <2>1. PICK x, first : x = SetState(t) /\ first = <<x, e>>
      OBVIOUS
    <2>2. x \in Effect /\ e \in Effect
      BY <1>6, <1>13, <2>1, EffectTypes
    <2>3. first \in Seq(Effect) /\ \A i \in DOMAIN first : first[i] \in {x, e}
      BY <2>1, <2>2
    <2>4. plan = first \o tail
      BY <1>15, <2>1
    <2>5. \A i \in DOMAIN tail : v = "enrolled" /\ tail[i] = f
      <3>1. CASE v = "enrolled"
        BY <1>15, <3>1
      <3>2. CASE v # "enrolled"
        BY <1>15, <3>2
      <3> QED
        BY <3>1, <3>2
    <2> QED
      BY <1>16, <2>1, <2>3, <2>4, <2>5, AppendedEffects
  <1>19. /\ \A i \in DOMAIN plan : ~IsIdentity(plan[i])
         /\ \A i \in DOMAIN plan : IsAudit(plan[i]) =>
               plan[i] = e \/ (v = "enrolled" /\ plan[i] = f)
    BY <1>6, <1>13, <1>18, EffectKinds
  <1>20. ClaimsEnrolment(e.content) => a.kind = "enrolled"
    BY <1>5, <1>12, <1>14 DEF ClaimsEnrolment
  <1>21. \A i \in DOMAIN plan :
            IsAudit(plan[i]) /\ ClaimsEnrolment(plan[i].content) =>
               /\ a.kind = "enrolled"
               /\ plan[i].content.event = "pairing.consumed" =>
                      plan[i].content.subject = a.pairing
               /\ plan[i].content.event = "relay.enrollment.completed" =>
                      /\ a.challenge # NoChallenge
                      /\ plan[i].content.subject = a.challenge
    BY <1>5, <1>14, <1>19, <1>20
  <1>22. Adds(plan, {})
    BY <1>7, <1>17 DEF Closes, Enrolls, Offered, Adds
  <1>23. Body(plan, a)
    BY <1>4, <1>5, <1>6, <1>11, <1>17, <1>19, <1>21, WriteBody
  <1> QED
    BY <1>4, <1>17, <1>22, <1>23

RevokePlan(q) ==
    <<SetState([state EXCEPT !.peers[q].revoked = TRUE]),
      Audit("peer.revoked", "success", q)>>

(* revoke_peer: one peer is revoked.                                        *)
LEMMA RevokePeerBody ==
    ASSUME IndInv, LedgerInv, crashes = 0 => Owned(state, Device),
           NEW q \in Peers, Active(state, q), NEW plan, plan = RevokePlan(q)
    PROVE  plan \in Seq(Effect) /\ Body(plan, Done) /\ Adds(plan, {})
  <1>0. TypeOK /\ SpentInv /\ state \in State
    BY DEF IndInv, LedgerInv, TypeOK
  <1>1. PICK s, e : /\ s = [state EXCEPT !.peers[q].revoked = TRUE]
                    /\ e = Audit("peer.revoked", "success", q)
    OBVIOUS
  <1>2. PICK peer : peer = [state.peers[q] EXCEPT !.revoked = TRUE]
    OBVIOUS
  <1>3. /\ peer \in PeerRecord /\ peer.device = state.peers[q].device
        /\ state.peers[q] # NoPeer
    <2>1. state.peers[q] \in PeerRecord /\ state.peers[q] # NoPeer
      BY <1>0 DEF Active, State
    <2> QED
      BY <1>2, <2>1 DEF PeerRecord
  <1>4. s = [state EXCEPT !.peers = [state.peers EXCEPT ![q] = peer]]
    BY <1>0, <1>1, <1>2 DEF State
  <1>5. /\ s \in State /\ s.pairings = state.pairings /\ s.used = state.used
        /\ s.peers = [state.peers EXCEPT ![q] = peer]
    BY <1>0, <1>3, <1>4 DEF State
  <1>6. Revokes(s, q)
    BY <1>0, <1>2, <1>5 DEF Revokes, State
  <1>7. Owned(state, Device) => Owned(s, Device)
    BY <1>0, <1>3, <1>5 DEF Owned, Offered, State
  <1>8. Done \in Answer /\ Done.kind = "done"
    BY DEF Done, Answer
  <1>9. e \in Effect /\ ~IsState(e)
    BY <1>1, EffectTypes DEF Events
  <1>10. IsAudit(e) /\ ~IsIdentity(e) /\ ~ClaimsEnrolment(e.content)
    <2>1. e.content.event = "peer.revoked"
      BY <1>1 DEF Audit
    <2> QED
      BY <1>1, <2>1, EffectKinds DEF ClaimsEnrolment
  <1>11. plan = <<SetState(s), e>>
    BY <1>1 DEF RevokePlan
  <1>12. /\ plan \in Seq(Effect) /\ 1 \in DOMAIN plan /\ plan[1].content = s
         /\ \A i \in DOMAIN plan : IsState(plan[i]) <=> i = 1
    <2>1. s \in State /\ e \in Effect /\ ~IsState(e)
      BY <1>5, <1>9
    <2> QED
      BY <2>1, <1>11, WritePair
  <1>13. /\ DOMAIN plan = 1..2 /\ plan[1] = SetState(s) /\ plan[2] = e
    BY <1>11
  <1>14. \A i \in DOMAIN plan : ~IsIdentity(plan[i])
                                /\ (IsAudit(plan[i]) => plan[i] = e)
    BY <1>5, <1>10, <1>13, EffectKinds
  <1>15. DocumentOK(s, plan, Done)
    BY <1>0, <1>5, <1>6, <1>7, <1>8, QuietDocument DEF Moves
  <1>16. Adds(plan, {})
    BY <1>5, <1>12 DEF Adds, Offered
  <1>17. Body(plan, Done)
    BY <1>5, <1>8, <1>10, <1>12, <1>14, <1>15, WriteBody
  <1> QED
    BY <1>12, <1>16, <1>17

(* rotate_identity: the next generation, and then an empty document; every  *)
(* challenge answered so far was for an earlier one.                        *)
LEMMA RotateIdentityBody ==
    ASSUME IndInv, LedgerInv, NEW plan, plan = RotatePlan(Device + 1)
    PROVE  plan \in Seq(Effect) /\ Body(plan, Done) /\ Adds(plan, {})
  <1>0. /\ TypeOK /\ IssuedInv /\ identity \in Nat /\ Device \in Nat
        /\ identity <= Device
        /\ issued \in [Challenges -> ChallengeRecord \cup {NoChallenge}]
    BY DEF IndInv, LedgerInv, TypeOK, Device
  <1>1. PICK d \in Nat : d = Device + 1
    BY <1>0
  <1>2. PICK x, y, z, u : /\ x = SetIdentity(d)
                          /\ y = Audit("identity.created", "success", d)
                          /\ z = SetState(EmptyState)
                          /\ u = Audit("identity.rotated", "success", d)
    OBVIOUS
  <1>3. {x, y, z, u} \subseteq Effect
    BY <1>1, <1>2, EffectTypes, EmptyStateType DEF Events
  <1>4. /\ IsIdentity(x) /\ ~IsState(x) /\ ~IsAudit(x) /\ x.content = d
        /\ ~IsIdentity(y) /\ ~IsState(y)
        /\ ~IsIdentity(z) /\ IsState(z) /\ ~IsAudit(z) /\ z.content = EmptyState
        /\ ~IsIdentity(u) /\ ~IsState(u)
    BY <1>1, <1>2, EffectKinds, EmptyStateType
  <1>5. ~ClaimsEnrolment(y.content) /\ ~ClaimsEnrolment(u.content)
    <2>1. y.content.event = "identity.created"
      BY <1>2 DEF Audit
    <2>2. u.content.event = "identity.rotated"
      BY <1>2 DEF Audit
    <2> QED
      BY <2>1, <2>2 DEF ClaimsEnrolment
  <1>6. plan = <<x, y, z, u>>
    BY <1>1, <1>2 DEF RotatePlan
  <1>7. /\ plan \in Seq(Effect) /\ DOMAIN plan = 1..4
        /\ plan[1] = x /\ plan[2] = y /\ plan[3] = z /\ plan[4] = u
    <2>1. x \in Effect /\ y \in Effect /\ z \in Effect /\ u \in Effect
      BY <1>3
    <2> QED
      BY <2>1, <1>6, FourEffects
  <1>8. /\ \A i \in DOMAIN plan : IsIdentity(plan[i]) => i = 1
        /\ \A i \in DOMAIN plan : IsState(plan[i]) => i = 3
        /\ \A i \in DOMAIN plan : IsAudit(plan[i]) => ~ClaimsEnrolment(plan[i].content)
    BY <1>4, <1>5, <1>7
  <1>9. Done.kind = "done"
    BY DEF Done
  <1>10. DocumentOK(EmptyState, plan, Done)
    <2>1. Owned(EmptyState, Device)
      BY DEF Owned, EmptyState, Offered
    <2>2. ASSUME NEW c \in Challenges, completions[c] > 0
          PROVE  \E j \in DOMAIN plan :
                     IsIdentity(plan[j]) /\ issued[c].audience < plan[j].content
      <3>1. issued[c] # NoChallenge /\ issued[c].audience <= identity
        BY <1>0, <2>2 DEF IssuedInv
      <3>2. issued[c].audience \in Nat
        BY <1>0, <3>1 DEF ChallengeRecord
      <3>3. issued[c].audience < d
        BY <1>0, <1>1, <3>1, <3>2
      <3> QED
        BY <1>4, <1>7, <3>3
    <2> QED
      BY <1>9, <2>1, <2>2 DEF DocumentOK, Moves
  <1>11. Documents(plan, Done)
    BY <1>4, <1>7, <1>8, <1>10 DEF Documents
  <1>12. Claims(plan, Done)
    BY <1>8 DEF Claims
  <1>13. \A i \in DOMAIN plan : IsIdentity(plan[i]) =>
            /\ plan[i].content = Device + 1
            /\ \E j \in DOMAIN plan : i < j /\ plan[j] = SetState(EmptyState)
            /\ \A j \in DOMAIN plan : IsIdentity(plan[j]) => i = j
    <2>1. 3 \in DOMAIN plan /\ plan[3] = SetState(EmptyState) /\ 1 < 3
      BY <1>2, <1>7
    <2>2. plan[1].content = Device + 1
      BY <1>1, <1>4, <1>7
    <2> QED
      BY <1>8, <2>1, <2>2
  <1>14. Adds(plan, {})
    BY <1>4, <1>7, <1>8 DEF Adds, EmptyState, Offered
  <1> QED
    BY <1>7, <1>9, <1>11, <1>12, <1>13, <1>14 DEF Body

------------------------------------------------------------------------------
(* Starting a job.                                                          *)

(* What is asked of a job depends on the files, the challenges and the      *)
(* histories only.                                                          *)
LEMMA DutyKept ==
    ASSUME UNCHANGED <<now, identity, state, issued, crashes, enrolments,
                       completions, setBack>>,
           NEW plan, NEW a, Duty(plan, a)
    PROVE  Duty(plan, a)'
  <1>1. Identities(plan, a)'
    BY DEF Duty, Identities, Device, IsIdentity
  <1>2. Claims(plan, a)'
    BY DEF Duty, Claims, Durable, IsAudit, IsState
  <1>3. \A s : /\ Moves(s) => Moves(s)'
               /\ DocumentOK(s, plan, a) => DocumentOK(s, plan, a)'
    <2> SUFFICES ASSUME NEW s PROVE /\ Moves(s) => Moves(s)'
                                    /\ DocumentOK(s, plan, a) => DocumentOK(s, plan, a)'
      OBVIOUS
    <2>1. Moves(s) => Moves(s)'
      <3>1. \A p \in Pairings : Makes(s, p) => Makes(s, p)'
        BY DEF Makes, Offered
      <3>2. Closes(s) => Closes(s)'
        BY DEF Closes, Offered
      <3>3. \A p \in Pairings, q \in Peers, k \in Keys, d \in Nat :
               Enrolls(s, p, q, k, d) => Enrolls(s, p, q, k, d)'
        BY DEF Enrolls, Offered, Active
      <3>4. \A q \in Peers : Revokes(s, q) => Revokes(s, q)'
        BY DEF Revokes, Active
      <3> QED
        BY <3>1, <3>2, <3>3, <3>4 DEF Moves, EmptyState
    <2>2. \A g : Owned(s, g) => Owned(s, g)'
      BY DEF Owned, Offered
    <2>3. \A c : Unusable(c, s.used, identity) => Unusable(c, s.used, identity)'
      BY DEF Unusable
    <2> QED
      BY <2>1, <2>2, <2>3 DEF DocumentOK, Device, Backs
  <1>4. Documents(plan, a)'
    BY <1>3 DEF Duty, Documents, IsState
  <1>5. Standing(plan, a)'
    BY DEF Duty, Standing, Owned, Offered, Device, Pending, IsState, Backs, EmptyState
  <1> QED
    BY <1>1, <1>2, <1>4, <1>5 DEF Duty

(* Taking the lock with a good plan preserves the invariant.                *)
LEMMA StartLedger ==
    ASSUME IndInv, LedgerInv, NEW w \in Workers,
           NEW plan \in Seq(Effect), NEW a \in Answer,
           Start(w, plan, a), Body(plan, a)
    PROVE  LedgerInv'
  <1>0. PICK full : full = EnsureIdentity \o plan
    OBVIOUS
  <1>1. /\ job[w] = Idle /\ lock = Nobody /\ lock' = w
        /\ job' = [job EXCEPT ![w] = [plan |-> full, answer |-> a]]
        /\ UNCHANGED <<now, identity, state, audit, issued, crashes, enrolments,
                       completions, setBack>>
    BY <1>0 DEF Start, LockGranted, disk, history
  <1>2. /\ TypeOK /\ LockInv /\ DutyInv
        /\ crashes = 0 => Owned(state, Device)
    BY <1>1 DEF IndInv, LedgerInv, RestInv
  <1>3. Duty(full, a)
    BY <1>0, <1>2, StartDuty
  <1>4. Duty(full, a)'
    BY <1>1, <1>3, DutyKept
  <1>5. DutyInv'
    <2> SUFFICES ASSUME NEW o \in Workers, job'[o] # Idle
                 PROVE  Duty(job[o].plan, job[o].answer)'
      BY DEF DutyInv
    <2>1. CASE o = w
      <3>1. job'[o].plan = full /\ job'[o].answer = a
        BY <1>1, <1>2, <2>1 DEF TypeOK
      <3> QED
        BY <3>1, <1>4
    <2>2. CASE o # w
      BY <1>1, <1>2, <2>2 DEF TypeOK, LockInv
    <2> QED
      BY <2>1, <2>2
  <1>6. IssuedInv' /\ SpentInv' /\ BlankInv' /\ ClaimInv'
    BY <1>1 DEF LedgerInv, IssuedInv, SpentInv, Unusable, BlankInv,
       ClaimInv
  <1>7. RestInv'
    BY <1>1 DEF RestInv
  <1> QED
    BY <1>5, <1>6, <1>7 DEF LedgerInv

(* What is to be saved is what the process holding the lock has planned.    *)
LEMMA PlannedByHolder ==
    ASSUME NEW j, NEW w \in Workers, NEW plan \in Seq(Effect), j[w].plan = plan,
           \A o \in Workers \ {w} : j[o] = Idle, NEW p
    PROVE  (\E o \in Workers :
              \E i \in {i \in 1..Len(j[o].plan) : j[o].plan[i].file = "state"} :
                 Offered(j[o].plan[i].content, p))
           <=> Planned(plan, p)
  <1>1. ASSUME NEW o \in Workers,
               NEW i \in {i \in 1..Len(j[o].plan) : j[o].plan[i].file = "state"},
               Offered(j[o].plan[i].content, p)
        PROVE  Planned(plan, p)
    <2>1. CASE o = w
      <3>1. i \in DOMAIN plan
        BY <1>1, <2>1
      <3> QED
        BY <1>1, <2>1, <3>1 DEF Planned, IsState
    <2>2. CASE o # w
      <3>1. j[o].plan = <<>>
        BY <2>2 DEF Idle
      <3> QED
        BY <1>1, <3>1
    <2> QED
      BY <2>1, <2>2
  <1>2. ASSUME NEW i \in DOMAIN plan, IsState(plan[i]), Offered(plan[i].content, p)
        PROVE  \E o \in Workers :
                  \E k \in {k \in 1..Len(j[o].plan) : j[o].plan[k].file = "state"} :
                     Offered(j[o].plan[k].content, p)
    <2>1. i \in 1..Len(plan)
      OBVIOUS
    <2> QED
      BY <1>2, <2>1 DEF IsState
  <1> QED
    BY <1>1, <1>2 DEF Planned

(* What the ledger sees of a step that writes no state.                     *)
LEMMA SameLedger ==
    ASSUME UNCHANGED state,
           \A p \in Pairings : Offered(state, p) \/
              ((p \notin minted' \/ ToBeSaved(p)') <=> (p \notin minted \/ ToBeSaved(p)))
    PROVE  UNCHANGED <<OfferStatus, PublicPeers>>
  <1>1. PublicPeers' = PublicPeers
    BY DEF PublicPeers
  <1>2. \A p \in Pairings : Offered(state, p)' <=> Offered(state, p)
    BY DEF Offered
  <1>3. OfferStatus' = OfferStatus
    BY <1>2 DEF OfferStatus
  <1> QED
    BY <1>1, <1>3

(* Taking the lock is invisible to the ledger: a new offer is unmade until  *)
(* it is saved.                                                             *)
LEMMA StartUnmoved ==
    ASSUME IndInv, NEW w \in Workers, NEW plan \in Seq(Effect), NEW a \in Answer,
           Start(w, plan, a), NEW S, Adds(plan, S), minted' = minted \cup S,
           \A p \in S : p \notin minted /\ Planned(plan, p)
    PROVE  UNCHANGED <<OfferStatus, PublicPeers>>
  <1>0. PICK full : full = EnsureIdentity \o plan
    OBVIOUS
  <1>1. /\ lock = Nobody /\ state' = state
        /\ job' = [job EXCEPT ![w] = [plan |-> full, answer |-> a]]
    BY <1>0 DEF Start, LockGranted, disk
  <1>2. \A o \in Workers : job[o] = Idle
    BY <1>1 DEF IndInv, LockInv
  <1>3. full \in Seq(Effect) /\ \A p : Planned(full, p) <=> Planned(plan, p)
    <2>1. PICK n \in Nat : Shifted(full, plan, n)
      BY <1>0, FullPlan
    <2>2. /\ full \in Seq(Effect)
          /\ \A i \in DOMAIN plan : i + n \in DOMAIN full /\ full[i + n] = plan[i]
          /\ \A i \in DOMAIN full :
                \/ i - n \in DOMAIN plan /\ full[i] = plan[i - n]
                \/ full[i] = SetIdentity(1)
                \/ full[i] = Audit("identity.created", "success", 1)
      BY <2>1 DEF Shifted
    <2>3. /\ ~IsState(SetIdentity(1))
          /\ ~IsState(Audit("identity.created", "success", 1))
      BY EffectKinds
    <2>4. \A i \in DOMAIN full :
             IsState(full[i]) => i - n \in DOMAIN plan /\ full[i] = plan[i - n]
      BY <2>2, <2>3
    <2>5. \A p : Planned(full, p) => Planned(plan, p)
      BY <2>4 DEF Planned
    <2>6. \A p : Planned(plan, p) => Planned(full, p)
      BY <2>2 DEF Planned
    <2> QED
      BY <2>2, <2>5, <2>6
  <1>4. \A p : ~ToBeSaved(p)
    <2>1. \A o \in Workers : job[o].plan = <<>>
      BY <1>2 DEF Idle
    <2> QED
      BY <2>1 DEF ToBeSaved, StateEffects
  <1>5. \A p : ToBeSaved(p)' <=> Planned(plan, p)
    <2>1. PICK j : j = job'
      OBVIOUS
    <2>2. j[w].plan = full /\ \A o \in Workers \ {w} : j[o] = Idle
      BY <1>1, <1>2, <2>1 DEF IndInv, TypeOK
    <2>3. ASSUME NEW p PROVE ToBeSaved(p)' <=> Planned(full, p)
      <3>1. ToBeSaved(p)' <=>
              \E o \in Workers :
                 \E i \in {i \in 1..Len(j[o].plan) : j[o].plan[i].file = "state"} :
                    Offered(j[o].plan[i].content, p)
        BY <2>1 DEF ToBeSaved, StateEffects, Offered
      <3> QED
        BY <1>3, <2>2, <3>1, PlannedByHolder
    <2> QED
      BY <1>3, <2>3
  <1>6. \A p \in Pairings : Planned(plan, p) => Offered(state, p) \/ p \in S
    BY DEF Adds, Planned
  <1>7. \A p \in Pairings : Offered(state, p) \/
           ((p \notin minted' \/ ToBeSaved(p)') <=> (p \notin minted \/ ToBeSaved(p)))
    BY <1>4, <1>5, <1>6
  <1> QED
    BY <1>1, <1>7, SameLedger

(* The same for an operation that draws no pairing id.                      *)
LEMMA StartBoth ==
    ASSUME IndInv, LedgerInv, NEW w \in Workers,
           NEW plan \in Seq(Effect), NEW a \in Answer,
           Start(w, plan, a), Body(plan, a), Adds(plan, {}), UNCHANGED minted
    PROVE  LedgerInv' /\ UNCHANGED <<OfferStatus, PublicPeers>>
  <1>1. LedgerInv'
    BY StartLedger
  <1>2. PICK S : S = {}
    OBVIOUS
  <1>3. Adds(plan, S) /\ minted' = minted \cup S /\ \A p \in S : FALSE
    BY <1>2
  <1>4. UNCHANGED <<OfferStatus, PublicPeers>>
    BY <1>3, StartUnmoved
  <1> QED
    BY <1>1, <1>4

(* Every operation starts with a good plan.                                 *)
LEMMA DecideLedger ==
    ASSUME IndInv, LedgerInv, NEW w \in Workers, Decide(w)
    PROVE  LedgerInv' /\ UNCHANGED <<OfferStatus, PublicPeers>>
  <1>1. lock = Nobody => (crashes = 0 => Owned(state, Device))
    BY DEF LedgerInv, RestInv
  <1>2. /\ Done \in Answer /\ Refused \in Answer
    BY DEF Done, Refused, Answer
  <1>3. ASSUME NEW e \in Effect, IsAudit(e), ~ClaimsEnrolment(e.content),
               NEW plan \in {<<>>, <<e>>}, NEW a \in {Done, Refused},
               Start(w, plan, a), UNCHANGED minted
        PROVE  LedgerInv' /\ UNCHANGED <<OfferStatus, PublicPeers>>
    <2>1. ~IsState(e) /\ ~IsIdentity(e)
      BY <1>3 DEF IsAudit, IsState, IsIdentity
    <2>2. plan \in Seq(Effect)
      <3>1. CASE plan = <<>>
        BY <3>1
      <3>2. CASE plan = <<e>>
        BY <3>2
      <3> QED
        BY <3>1, <3>2
    <2>3. Body(plan, a) /\ Adds(plan, {})
      BY <1>3, <2>1, QuietBody
    <2> QED
      BY <1>2, <1>3, <2>2, <2>3, StartBoth
  <1>4. ASSUME NEW a \in {Done, Refused}, Start(w, <<>>, a), UNCHANGED minted
        PROVE  LedgerInv' /\ UNCHANGED <<OfferStatus, PublicPeers>>
    <2>1. PICK e : e = Audit("identity.created", "success", 1)
      OBVIOUS
    <2>2. e \in Effect /\ IsAudit(e)
      BY <2>1, EffectTypes, EffectKinds DEF Events
    <2>3. ~ClaimsEnrolment(e.content)
      BY <2>1 DEF Audit, ClaimsEnrolment
    <2>4. PICK plan : plan = <<>>
      OBVIOUS
    <2> QED
      BY <1>3, <1>4, <2>2, <2>3, <2>4
  <1>5. CASE ReadIdentity(w)
    BY <1>4, <1>5 DEF ReadIdentity
  <1>6. ASSUME NEW p \in Pairings, NEW ttl \in PairingTTLs, CreatePairing(w, p, ttl)
        PROVE  LedgerInv' /\ UNCHANGED <<OfferStatus, PublicPeers>>
    <2>1. PICK plan : plan = <<SetState(NewPairing(state, p, ttl)),
                               Audit("pairing.created", "success", p)>>
      OBVIOUS
    <2>2. /\ p \notin minted /\ Start(w, plan, Done) /\ lock = Nobody
          /\ minted' = minted \cup {p}
      BY <1>6, <2>1 DEF CreatePairing, Start, LockGranted
    <2>3. /\ plan \in Seq(Effect) /\ Body(plan, Done)
          /\ Adds(plan, {p}) /\ Planned(plan, p)
      BY <1>1, <2>1, <2>2, CreatePairingBody
    <2>4. LedgerInv'
      BY <1>2, <2>2, <2>3, StartLedger
    <2>5. PICK S : S = {p}
      OBVIOUS
    <2>6. /\ Adds(plan, S) /\ minted' = minted \cup S
          /\ \A o \in S : o \notin minted /\ Planned(plan, o)
      BY <2>2, <2>3, <2>5
    <2>7. UNCHANGED <<OfferStatus, PublicPeers>>
      BY <1>2, <2>2, <2>3, <2>6, StartUnmoved
    <2> QED
      BY <2>4, <2>7
  <1>7. ASSUME NEW p \in Pairings, NEW codeOk \in BOOLEAN, NEW q \in Peers,
               NEW k \in Keys, ConsumePairing(w, p, codeOk, q, k)
        PROVE  LedgerInv' /\ UNCHANGED <<OfferStatus, PublicPeers>>
    <2>1. PICK v : v = Verdict(state, p, codeOk, q, now)
      OBVIOUS
    <2>2. PICK s, a : /\ s = AfterVerdict(state, v, p, q, k, Device)
                      /\ a = VerdictAnswer(v, p, q, k, NoChallenge, Device)
      OBVIOUS
    <2>3. PICK plan : plan = ConsumePlan(s, v, p)
      OBVIOUS
    <2>4. Start(w, plan, a) /\ UNCHANGED minted
      BY <1>7, <2>1, <2>2, <2>3 DEF ConsumePairing
    <2>5. lock = Nobody
      BY <2>4 DEF Start, LockGranted
    <2>6. /\ plan \in Seq(Effect) /\ a \in Answer /\ Body(plan, a)
          /\ Adds(plan, {})
      BY <1>1, <2>1, <2>2, <2>3, <2>5, ConsumePairingBody
    <2> QED
      BY <2>4, <2>6, StartBoth
  <1>8. ASSUME NEW c \in Challenges, SignRelayChallenge(w, c) PROVE  LedgerInv' /\ UNCHANGED <<OfferStatus, PublicPeers>>
    <2>1. PICK e : e = Audit("relay.challenge.signed", "success", c)
      OBVIOUS
    <2>2. e \in Effect /\ IsAudit(e)
      BY <2>1, EffectTypes, EffectKinds DEF Events
    <2>3. ~ClaimsEnrolment(e.content)
      BY <2>1 DEF Audit, ClaimsEnrolment
    <2>4. PICK plan \in {<<>>, <<e>>}, a \in {Done, Refused} :
               Start(w, plan, a) /\ UNCHANGED minted
      BY <1>8, <2>1 DEF SignRelayChallenge
    <2> QED
      BY <1>3, <2>2, <2>3, <2>4
  <1>9. ASSUME NEW c \in Challenges, NEW p \in Pairings, NEW codeOk \in BOOLEAN,
               NEW q \in Peers, NEW k \in Keys, NEW proofOk \in BOOLEAN,
               CompleteRelayEnrollment(w, c, p, codeOk, q, k, proofOk)
        PROVE  LedgerInv' /\ UNCHANGED <<OfferStatus, PublicPeers>>
    <2>1. PICK r : r = PruneUsedChallenges(state, now)
      OBVIOUS
    <2>2. PICK v : v = Verdict(r, p, codeOk, q, now)
      OBVIOUS
    <2>3. PICK t, a : /\ t = CompletedState(r, v, c, p, q, k)
                      /\ a = VerdictAnswer(v, p, q, k, c, Device)
      OBVIOUS
    <2>4. PICK plan : plan = CompletePlan(t, v, c, p)
      OBVIOUS
    <2>5. PICK bad : bad = Audit("relay.enrollment.completed", "rejected", c)
      OBVIOUS
    <2>6. /\ UNCHANGED minted
          /\ \/ Start(w, <<>>, Refused)
             \/ Start(w, <<bad>>, Refused)
             \/ /\ ValidChallenge(c, Device, now) /\ c \notin r.used
                /\ Start(w, plan, a)
      BY <1>9, <2>1, <2>2, <2>3, <2>4, <2>5 DEF CompleteRelayEnrollment
    <2>7. CASE Start(w, <<>>, Refused)
      BY <1>4, <2>6, <2>7
    <2>8. CASE Start(w, <<bad>>, Refused)
      <3>1. bad \in Effect /\ IsAudit(bad)
        BY <2>5, EffectTypes, EffectKinds DEF Events
      <3>2. ~ClaimsEnrolment(bad.content)
        BY <2>5 DEF Audit, ClaimsEnrolment
      <3>3. PICK quiet : quiet = <<bad>>
        OBVIOUS
      <3> QED
        BY <1>3, <2>6, <2>8, <3>1, <3>2, <3>3
    <2>9. CASE /\ ValidChallenge(c, Device, now) /\ c \notin r.used
               /\ Start(w, plan, a)
      <3>1. lock = Nobody
        BY <2>9 DEF Start, LockGranted
      <3>2. /\ plan \in Seq(Effect) /\ a \in Answer /\ Body(plan, a)
            /\ Adds(plan, {})
        BY <1>1, <2>1, <2>2, <2>3, <2>4, <2>9, <3>1, CompleteBody
      <3> QED
        BY <2>6, <2>9, <3>2, StartBoth
    <2> QED
      BY <2>6, <2>7, <2>8, <2>9
  <1>10. ASSUME NEW q \in Peers, RevokePeer(w, q) PROVE  LedgerInv' /\ UNCHANGED <<OfferStatus, PublicPeers>>
    <2>1. CASE Active(state, q)
      <3>1. PICK plan : plan = RevokePlan(q)
        OBVIOUS
      <3>2. Start(w, plan, Done) /\ UNCHANGED minted
        BY <1>10, <2>1, <3>1 DEF RevokePeer, RevokePlan
      <3>3. lock = Nobody
        BY <3>2 DEF Start, LockGranted
      <3>4. plan \in Seq(Effect) /\ Body(plan, Done) /\ Adds(plan, {})
        BY <1>1, <2>1, <3>1, <3>3, RevokePeerBody
      <3> QED
        BY <1>2, <3>2, <3>4, StartBoth
    <2>2. CASE ~Active(state, q)
      BY <1>4, <1>10, <2>2 DEF RevokePeer
    <2> QED
      BY <2>1, <2>2
  <1>11. ASSUME RotateIdentity(w) PROVE  LedgerInv' /\ UNCHANGED <<OfferStatus, PublicPeers>>
    <2>1. PICK plan : plan = RotatePlan(Device + 1)
      OBVIOUS
    <2>2. Start(w, plan, Done) /\ UNCHANGED minted
      BY <1>11, <2>1 DEF RotateIdentity
    <2>3. plan \in Seq(Effect) /\ Body(plan, Done) /\ Adds(plan, {})
      BY <2>1, RotateIdentityBody
    <2> QED
      BY <1>2, <2>2, <2>3, StartBoth
  <1> QED
    BY <1>5, <1>6, <1>7, <1>8, <1>9, <1>10, <1>11 DEF Decide

------------------------------------------------------------------------------
(* Carrying a job out.                                                      *)

(* How the indices of a plan and of its tail correspond.                    *)
LEMMA TailFacts ==
    ASSUME NEW plan \in Seq(Effect), plan # <<>>, NEW rest, rest = Tail(plan)
    PROVE  /\ 1 \in DOMAIN plan /\ plan[1] = Head(plan)
           /\ \A i \in DOMAIN rest :
                 i \in Nat /\ i >= 1 /\ i + 1 \in DOMAIN plan /\ rest[i] = plan[i + 1]
           /\ \A i \in DOMAIN plan :
                 /\ i \in Nat /\ i >= 1
                 /\ i # 1 => i - 1 \in DOMAIN rest /\ rest[i - 1] = plan[i]
  <1>1. Len(plan) \in Nat /\ Len(plan) >= 1 /\ DOMAIN plan = 1..Len(plan)
    OBVIOUS
  <1>2. rest \in Seq(Effect) /\ Len(rest) = Len(plan) - 1
        /\ DOMAIN rest = 1..(Len(plan) - 1)
    BY <1>1
  <1>3. \A i \in DOMAIN rest : rest[i] = plan[i + 1]
    BY <1>2
  <1> QED
    BY <1>1, <1>2, <1>3

(* An audit record that is written late loses nothing of what follows.      *)
LEMMA ClaimsTail ==
    ASSUME NEW plan \in Seq(Effect), plan # <<>>, NEW rest, rest = Tail(plan),
           NEW a, Claims(plan, a), ~IsState(Head(plan)) \/ Durable(a)
    PROVE  Claims(rest, a)
  <1>1. /\ 1 \in DOMAIN plan /\ plan[1] = Head(plan)
        /\ \A i \in DOMAIN rest :
              i \in Nat /\ i >= 1 /\ i + 1 \in DOMAIN plan /\ rest[i] = plan[i + 1]
        /\ \A i \in DOMAIN plan :
              /\ i \in Nat /\ i >= 1
              /\ i # 1 => i - 1 \in DOMAIN rest /\ rest[i - 1] = plan[i]
    BY TailFacts
  <1> SUFFICES ASSUME NEW i \in DOMAIN rest, IsAudit(rest[i]),
                      ClaimsEnrolment(rest[i].content)
               PROVE  /\ a.kind = "enrolled"
                      /\ rest[i].content.event = "pairing.consumed" =>
                             rest[i].content.subject = a.pairing
                      /\ rest[i].content.event = "relay.enrollment.completed" =>
                             /\ a.challenge # NoChallenge
                             /\ rest[i].content.subject = a.challenge
                      /\ \/ Durable(a)
                         \/ \E j \in DOMAIN rest : j < i /\ IsState(rest[j])
    BY DEF Claims
  <1>2. i + 1 \in DOMAIN plan /\ rest[i] = plan[i + 1]
    BY <1>1
  <1>3. ASSUME NEW j \in DOMAIN plan, j < i + 1, IsState(plan[j]), ~Durable(a)
        PROVE  \E k \in DOMAIN rest : k < i /\ IsState(rest[k])
    <2>1. j # 1
      BY <1>1, <1>3
    <2>2. j - 1 \in DOMAIN rest /\ rest[j - 1] = plan[j]
      BY <1>1, <2>1
    <2>3. j - 1 < i
      BY <1>1, <1>3
    <2> QED
      BY <1>3, <2>2, <2>3
  <1> QED
    BY <1>2, <1>3 DEF Claims

(* What is left of a plan after an audit record is still a good plan.       *)
LEMMA AuditTail ==
    ASSUME TypeOK, NEW plan \in Seq(Effect), plan # <<>>, IsAudit(Head(plan)),
           NEW a, Duty(plan, a), NEW rest, rest = Tail(plan)
    PROVE  Duty(rest, a)
  <1>1. /\ 1 \in DOMAIN plan /\ plan[1] = Head(plan)
        /\ \A i \in DOMAIN rest :
              i \in Nat /\ i >= 1 /\ i + 1 \in DOMAIN plan /\ rest[i] = plan[i + 1]
        /\ \A i \in DOMAIN plan :
              /\ i \in Nat /\ i >= 1
              /\ i # 1 => i - 1 \in DOMAIN rest /\ rest[i - 1] = plan[i]
    BY TailFacts
  <1>2. ~IsState(plan[1]) /\ ~IsIdentity(plan[1])
    BY <1>1 DEF IsAudit, IsState, IsIdentity
  <1>3. identity # 0
    <2>1. identity = 0 => IsIdentity(Head(plan))
      BY DEF Duty, Identities, SetIdentity, IsIdentity
    <2> QED
      BY <1>1, <1>2, <2>1
  <1>4. plan[1] # SetState(EmptyState)
    BY <1>2 DEF SetState, IsState
  <1>5. Identities(rest, a)
    <2> SUFFICES ASSUME NEW i \in DOMAIN rest, IsIdentity(rest[i])
                 PROVE  /\ \/ identity = 0 /\ rest[i].content = 1
                           \/ /\ rest[i].content = Device + 1
                              /\ a.kind = "done"
                              /\ \E j \in DOMAIN rest :
                                    i < j /\ rest[j] = SetState(EmptyState)
                        /\ \A j \in DOMAIN rest :
                              IsIdentity(rest[j]) /\ i < j =>
                                  rest[i].content < rest[j].content
      BY <1>3 DEF Identities
    <2>1. /\ rest[i].content = Device + 1 /\ a.kind = "done"
          /\ \E j \in DOMAIN plan : i + 1 < j /\ plan[j] = SetState(EmptyState)
          /\ \A j \in DOMAIN plan : IsIdentity(plan[j]) /\ i + 1 < j =>
                rest[i].content < plan[j].content
      BY <1>1, <1>3 DEF Duty, Identities
    <2>2. PICK j \in DOMAIN plan : i + 1 < j /\ plan[j] = SetState(EmptyState)
      BY <2>1
    <2>3. j - 1 \in DOMAIN rest /\ rest[j - 1] = SetState(EmptyState) /\ i < j - 1
      BY <1>1, <1>4, <2>2
    <2>4. ASSUME NEW k \in DOMAIN rest, IsIdentity(rest[k]), i < k
          PROVE  rest[i].content < rest[k].content
      BY <1>1, <2>1, <2>4
    <2> QED
      BY <2>1, <2>3, <2>4
  <1>6. Claims(rest, a)
    BY <1>1, <1>2, ClaimsTail DEF Duty
  <1>7. Documents(rest, a)
    <2> SUFFICES ASSUME NEW i \in DOMAIN rest, IsState(rest[i])
                 PROVE  DocumentOK(rest[i].content, rest, a)
      BY DEF Documents
    <2>1. PICK s : s = rest[i].content
      OBVIOUS
    <2>2. DocumentOK(s, plan, a)
      BY <1>1, <2>1 DEF Duty, Documents
    <2>3. ASSUME NEW c \in Challenges, NEW j \in DOMAIN plan,
                 IsIdentity(plan[j]), issued[c].audience < plan[j].content
          PROVE  \E k \in DOMAIN rest :
                     IsIdentity(rest[k]) /\ issued[c].audience < rest[k].content
      <3>1. j - 1 \in DOMAIN rest /\ rest[j - 1] = plan[j]
        BY <1>1, <1>2, <2>3
      <3> QED
        BY <2>3, <3>1
    <2> QED
      BY <2>1, <2>2, <2>3 DEF DocumentOK
  <1>8. Standing(rest, a)
    <2>1. Pending(plan) => Pending(rest)
      BY <1>1, <1>2 DEF Pending
    <2>2. ASSUME NEW j \in DOMAIN plan, plan[j] = SetState(EmptyState)
          PROVE  \E k \in DOMAIN rest : rest[k] = SetState(EmptyState)
      <3>1. j # 1
        BY <1>4, <2>2
      <3>2. j - 1 \in DOMAIN rest /\ rest[j - 1] = plan[j]
        BY <1>1, <3>1
      <3> QED
        BY <2>2, <3>2
    <2> QED
      BY <2>1, <2>2 DEF Duty, Standing
  <1> QED
    BY <1>5, <1>6, <1>7, <1>8 DEF Duty

(* The holder of the lock has advanced: whatever its job, the others are    *)
(* idle.                                                                    *)
LEMMA HolderAdvances ==
    ASSUME IndInv, LedgerInv, NEW w \in Workers, job[w].plan # <<>>, Advance(w),
           UNCHANGED lock,
           NEW rest, rest = Tail(job[w].plan), NEW a, a = job[w].answer,
           Duty(rest, a)'
    PROVE  DutyInv' /\ RestInv'
  <1>1. /\ job' = [job EXCEPT ![w] = [plan |-> rest, answer |-> a]]
        /\ TypeOK /\ LockInv
    BY AdvanceFacts DEF IndInv
  <1>2. job[w] # Idle
    BY DEF Idle
  <1>3. lock = w /\ lock' # Nobody
    BY <1>1, <1>2 DEF LockInv
  <1>4. DutyInv'
    <2> SUFFICES ASSUME NEW o \in Workers, job'[o] # Idle
                 PROVE  Duty(job[o].plan, job[o].answer)'
      BY DEF DutyInv
    <2>1. o = w
      BY <1>1, <1>3 DEF TypeOK, LockInv
    <2>2. job'[o].plan = rest /\ job'[o].answer = a
      BY <1>1, <2>1 DEF TypeOK
    <2> QED
      BY <2>2
  <1> QED
    BY <1>3, <1>4 DEF RestInv

(* Appending to audit.jsonl: what the record claims is on disk.             *)
LEMMA AppendAuditLedger ==
    ASSUME IndInv, LedgerInv, NEW w \in Workers, AppendAudit(w)
    PROVE  LedgerInv'
  <1>1. PICK plan, a : plan = job[w].plan /\ a = job[w].answer
    OBVIOUS
  <1>2. PICK e, rest : e = Head(plan) /\ rest = Tail(plan)
    OBVIOUS
  <1>3. /\ plan \in Seq(Effect) /\ a \in Answer /\ plan # <<>>
        /\ TypeOK /\ e.file = "audit"
        /\ audit' = IF ClaimsEnrolment(e.content) THEN audit \cup {e.content}
                    ELSE audit
    BY <1>1, <1>2, JobFacts DEF AppendAudit, Next1, Content, IndInv
  <1>4. /\ UNCHANGED <<now, lock, identity, state, issued, crashes, enrolments,
                       completions, setBack>>
        /\ Advance(w)
    BY DEF AppendAudit, history
  <1>5. Duty(plan, a)
    <2>1. job[w] # Idle
      BY <1>1, <1>3 DEF Idle
    <2> QED
      BY <1>1, <2>1 DEF LedgerInv, DutyInv
  <1>6. Duty(rest, a)
    BY <1>2, <1>3, <1>5, AuditTail DEF IsAudit
  <1>7. Duty(rest, a)'
    BY <1>4, <1>6, DutyKept
  <1>8. DutyInv' /\ RestInv'
    BY <1>1, <1>2, <1>3, <1>4, <1>7, HolderAdvances
  <1>9. IssuedInv' /\ SpentInv' /\ BlankInv'
    BY <1>4 DEF LedgerInv, IssuedInv, SpentInv, Unusable, BlankInv
  <1>10. ClaimInv'
    <2>1. CASE ~ClaimsEnrolment(e.content)
      BY <1>3, <1>4, <2>1 DEF LedgerInv, ClaimInv
    <2>2. CASE ClaimsEnrolment(e.content)
      <3>1. 1 \in DOMAIN plan /\ plan[1] = e /\ IsAudit(e)
        BY <1>2, <1>3, TailFacts DEF IsAudit
      <3>2. \A j \in DOMAIN plan : ~(j < 1)
        BY <1>3
      <3>3. /\ a.kind = "enrolled"
            /\ e.content.event = "pairing.consumed" => e.content.subject = a.pairing
            /\ e.content.event = "relay.enrollment.completed" =>
                   a.challenge # NoChallenge /\ e.content.subject = a.challenge
            /\ Durable(a)
        BY <1>5, <2>2, <3>1, <3>2 DEF Duty, Claims
      <3>4. /\ a.pairing \in Pairings
            /\ a.challenge # NoChallenge => a.challenge \in Challenges
        BY <1>3, <3>3 DEF Answer, Enrolled
      <3>5. /\ e.content.event = "pairing.consumed" =>
                   /\ e.content.subject \in Pairings
                   /\ enrolments[e.content.subject] > 0
            /\ e.content.event = "relay.enrollment.completed" =>
                   /\ e.content.subject \in Challenges
                   /\ completions[e.content.subject] > 0
        BY <3>3, <3>4 DEF Durable
      <3>6. audit' = audit \cup {e.content}
        BY <1>3, <2>2
      <3> QED
        BY <1>4, <3>5, <3>6 DEF LedgerInv, ClaimInv
    <2> QED
      BY <2>1, <2>2
  <1> QED
    BY <1>8, <1>9, <1>10 DEF LedgerInv

(* What becomes of a completed challenge when the key file is written.      *)
LEMMA IdentityChallenge ==
    ASSUME TypeOK, IssuedInv, NEW plan \in Seq(Effect), plan # <<>>,
           NEW rest, rest = Tail(plan), identity' = plan[1].content,
           identity < plan[1].content, plan[1].content \in Nat,
           UNCHANGED <<now, issued>>,
           NEW c \in Challenges, completions[c] > 0, NEW used,
           \/ Unusable(c, used, identity)
           \/ \E j \in DOMAIN plan :
                 IsIdentity(plan[j]) /\ issued[c].audience < plan[j].content
    PROVE  \/ Unusable(c, used, identity)'
           \/ \E j \in DOMAIN rest :
                 IsIdentity(rest[j]) /\ issued'[c].audience < rest[j].content
  <1>1. /\ \A i \in DOMAIN plan :
              /\ i \in Nat /\ i >= 1
              /\ i # 1 => i - 1 \in DOMAIN rest /\ rest[i - 1] = plan[i]
    BY TailFacts
  <1>2. issued[c] \in ChallengeRecord
    BY DEF IssuedInv, TypeOK
  <1>3. issued[c].audience \in Nat /\ identity \in Nat
    BY <1>2 DEF ChallengeRecord, TypeOK
  <1>4. PICK x, g \in Nat : x = issued[c].audience /\ g = plan[1].content
    BY <1>3
  <1>5. x < g => Unusable(c, used, identity)'
    BY <1>4 DEF Unusable
  <1>6. CASE Unusable(c, used, identity)
    <2>1. CASE x < identity
      <3>1. x < g
        BY <1>3, <1>4, <2>1
      <3> QED
        BY <1>5, <3>1
    <2>2. CASE c \in used \/ Expired(issued[c].expires, now)
      BY <2>2 DEF Unusable, Expired
    <2> QED
      BY <1>4, <1>6, <2>1, <2>2 DEF Unusable
  <1>7. ASSUME NEW j \in DOMAIN plan, IsIdentity(plan[j]),
               issued[c].audience < plan[j].content
        PROVE  \/ Unusable(c, used, identity)'
               \/ \E i \in DOMAIN rest :
                     IsIdentity(rest[i]) /\ issued'[c].audience < rest[i].content
    <2>1. CASE j = 1
      BY <1>4, <1>5, <1>7, <2>1
    <2>2. CASE j # 1
      BY <1>1, <1>7, <2>2
    <2> QED
      BY <2>1, <2>2
  <1> QED
    BY <1>6, <1>7

(* Writing the key file: either the first one, or one generation on with    *)
(* the state to be cleared.                                                 *)
LEMMA WriteIdentityLedger ==
    ASSUME IndInv, LedgerInv, NEW w \in Workers, WriteIdentity(w)
    PROVE  LedgerInv'
  <1>1. PICK plan, a : plan = job[w].plan /\ a = job[w].answer
    OBVIOUS
  <1>2. PICK e, rest, g : e = Head(plan) /\ rest = Tail(plan) /\ g = e.content
    OBVIOUS
  <1>3. /\ plan \in Seq(Effect) /\ a \in Answer /\ plan # <<>>
        /\ TypeOK /\ e.file = "identity" /\ identity' = g
    BY <1>1, <1>2, JobFacts DEF WriteIdentity, Next1, Content, IndInv
  <1>4. /\ UNCHANGED <<now, lock, state, audit, issued, crashes, enrolments,
                       completions, setBack>>
        /\ Advance(w)
    BY DEF WriteIdentity, history
  <1>5. Duty(plan, a) /\ PlanOK(plan, a)
    <2>1. job[w] # Idle
      BY <1>1, <1>3 DEF Idle
    <2> QED
      BY <1>1, <2>1 DEF LedgerInv, DutyInv, IndInv, JobInv
  <1>6. /\ 1 \in DOMAIN plan /\ plan[1] = e
        /\ \A i \in DOMAIN rest :
              i \in Nat /\ i >= 1 /\ i + 1 \in DOMAIN plan /\ rest[i] = plan[i + 1]
        /\ \A i \in DOMAIN plan :
              /\ i \in Nat /\ i >= 1
              /\ i # 1 => i - 1 \in DOMAIN rest /\ rest[i - 1] = plan[i]
    BY <1>2, <1>3, TailFacts
  <1>7. IsIdentity(e) /\ ~IsState(e)
    BY <1>3 DEF IsIdentity, IsState
  <1>8. identity \in Nat /\ identity # 0 => Device = identity
    BY DEF Device
  <1>9. \/ identity = 0 /\ g = 1
        \/ /\ identity # 0 /\ g = identity + 1 /\ a.kind = "done"
           /\ \E j \in DOMAIN plan : 1 < j /\ plan[j] = SetState(EmptyState)
    <2>1. identity = 0 => g = 1
      BY <1>2, <1>5 DEF Duty, Identities, SetIdentity
    <2>2. identity # 0 =>
            /\ g = Device + 1 /\ a.kind = "done"
            /\ \E j \in DOMAIN plan : 1 < j /\ plan[j] = SetState(EmptyState)
      BY <1>2, <1>5, <1>6, <1>7 DEF Duty, Identities
    <2> QED
      BY <2>1, <2>2 DEF Device
  <1>10. identity \in Nat /\ g \in Nat /\ identity < g /\ g # 0
    <2>1. identity \in Nat
      BY <1>3 DEF TypeOK
    <2> QED
      BY <1>9, <2>1
  <1>11. Device' = g /\ (identity = 0 => Device = g)
    BY <1>3, <1>9, <1>10 DEF Device
  <1>12. ASSUME NEW i \in DOMAIN rest, IsIdentity(rest[i])
         PROVE  /\ identity = 0 /\ rest[i].content = g + 1 /\ a.kind = "done"
                /\ \E j \in DOMAIN rest : i < j /\ rest[j] = SetState(EmptyState)
                /\ \A j \in DOMAIN rest : IsIdentity(rest[j]) /\ i < j =>
                      rest[i].content < rest[j].content
    <2>1. i + 1 \in DOMAIN plan /\ rest[i] = plan[i + 1] /\ 1 < i + 1 /\ i \in Nat
      BY <1>6
    <2>2. g < rest[i].content
      BY <1>2, <1>5, <1>6, <1>7, <1>12, <2>1 DEF Duty, Identities
    <2>3. \/ identity = 0 /\ rest[i].content = 1
          \/ /\ rest[i].content = Device + 1
             /\ a.kind = "done"
             /\ \E j \in DOMAIN plan : i + 1 < j /\ plan[j] = SetState(EmptyState)
      BY <1>5, <1>12, <2>1 DEF Duty, Identities
    <2>4. /\ identity = 0 /\ rest[i].content = g + 1 /\ a.kind = "done"
          /\ \E j \in DOMAIN plan : i + 1 < j /\ plan[j] = SetState(EmptyState)
      BY <1>9, <1>10, <2>2, <2>3 DEF Device
    <2>5. PICK j \in DOMAIN plan : i + 1 < j /\ plan[j] = SetState(EmptyState)
      BY <2>4
    <2>6. j - 1 \in DOMAIN rest /\ rest[j - 1] = SetState(EmptyState) /\ i < j - 1
      BY <1>6, <2>1, <2>5
    <2>7. ASSUME NEW k \in DOMAIN rest, IsIdentity(rest[k]), i < k
          PROVE  rest[i].content < rest[k].content
      <3>1. k + 1 \in DOMAIN plan /\ rest[k] = plan[k + 1] /\ i + 1 < k + 1
        BY <1>6, <2>1, <2>7
      <3> QED
        BY <1>5, <1>12, <2>1, <2>7, <3>1 DEF Duty, Identities
    <2> QED
      BY <2>4, <2>6, <2>7
  <1>13. Identities(rest, a)'
    <2>1. identity' # 0
      BY <1>3, <1>10
    <2>2. ASSUME NEW i \in DOMAIN rest, IsIdentity(rest[i])
          PROVE  /\ rest[i].content = Device' + 1 /\ a.kind = "done"
                 /\ \E j \in DOMAIN rest : i < j /\ rest[j] = SetState(EmptyState)
                 /\ \A j \in DOMAIN rest : IsIdentity(rest[j]) /\ i < j =>
                       rest[i].content < rest[j].content
      BY <1>11, <1>12, <2>2
    <2> QED
      BY <2>1, <2>2 DEF Identities, IsIdentity, SetState, EmptyState
  <1>14. Claims(rest, a)'
    <2>1. Claims(rest, a)
      BY <1>2, <1>3, <1>5, <1>7, ClaimsTail DEF Duty
    <2> QED
      BY <1>4, <2>1 DEF Claims, Durable, IsAudit, IsState
  <1>15. IssuedInv
    BY DEF LedgerInv
  <1>16. ASSUME NEW c \in Challenges, completions[c] > 0, NEW used,
                \/ Unusable(c, used, identity)
                \/ \E j \in DOMAIN plan :
                      IsIdentity(plan[j]) /\ issued[c].audience < plan[j].content
         PROVE  \/ Unusable(c, used, identity)'
                \/ \E j \in DOMAIN rest :
                      IsIdentity(rest[j]) /\ issued'[c].audience < rest[j].content
    <2>1. identity' = plan[1].content /\ identity < plan[1].content
          /\ plan[1].content \in Nat
      BY <1>2, <1>3, <1>6, <1>10
    <2> QED
      BY <1>2, <1>3, <1>4, <1>15, <1>16, <2>1, IdentityChallenge
  <1>17. Documents(rest, a)'
    <2> SUFFICES ASSUME NEW i \in DOMAIN rest, IsState(rest[i])
                 PROVE  DocumentOK(rest[i].content, rest, a)'
      BY DEF Documents, IsState
    <2>0. PICK s : s = rest[i].content
      OBVIOUS
    <2>1. i + 1 \in DOMAIN plan /\ plan[i + 1] = rest[i] /\ i \in Nat
      BY <1>6
    <2>2. DocumentOK(s, plan, a)
      BY <1>5, <2>0, <2>1 DEF Duty, Documents
    <2>3. identity # 0 => s = EmptyState /\ a.kind = "done"
      <3>1. CASE identity # 0
        <4>1. PICK j \in DOMAIN plan : plan[j] = SetState(EmptyState)
          BY <1>9, <3>1
        <4>2. IsState(plan[j])
          BY <4>1 DEF IsState, SetState
        <4>3. j = i + 1
          BY <1>5, <2>1, <4>2 DEF PlanOK
        <4> QED
          BY <1>9, <2>0, <2>1, <3>1, <4>1, <4>3 DEF SetState
      <3> QED
        BY <3>1
    <2>4. Moves(s)'
      <3>1. Moves(s) => Moves(s)'
        <4>1. \A p \in Pairings : Makes(s, p) => Makes(s, p)'
          BY <1>4 DEF Makes, Offered
        <4>2. Closes(s) => Closes(s)'
          BY <1>4 DEF Closes, Offered
        <4>3. \A p \in Pairings, q \in Peers, k \in Keys, d \in Nat :
                 Enrolls(s, p, q, k, d) => Enrolls(s, p, q, k, d)'
          BY <1>4 DEF Enrolls, Offered, Active
        <4>4. \A q \in Peers : Revokes(s, q) => Revokes(s, q)'
          BY <1>4 DEF Revokes, Active
        <4> QED
          BY <4>1, <4>2, <4>3, <4>4 DEF Moves, EmptyState
      <3> QED
        BY <2>2, <3>1 DEF DocumentOK
    <2>5. crashes' = 0 => Owned(s, Device)'
      <3>1. CASE identity = 0
        <4>1. crashes = 0 => Owned(s, Device)
          BY <2>2 DEF DocumentOK
        <4> QED
          BY <1>4, <1>11, <3>1, <4>1 DEF Owned, Offered
      <3>2. CASE identity # 0
        BY <2>3, <3>2 DEF Owned, EmptyState, Offered
      <3> QED
        BY <3>1, <3>2
    <2>6. /\ a.kind = "enrolled" => Backs(s, a)'
          /\ a.kind = "enrolled" /\ a.challenge # NoChallenge =>
                /\ issued'[a.challenge] # NoChallenge
                /\ a.challenge \in s.used
                /\ ~setBack' => completions'[a.challenge] = 0
      BY <1>4, <2>2 DEF DocumentOK, Backs
    <2>7. ASSUME ~setBack', NEW c \in Challenges, completions'[c] > 0
          PROVE  \/ Unusable(c, s.used, identity)'
                 \/ \E j \in DOMAIN rest :
                       IsIdentity(rest[j]) /\ issued'[c].audience < rest[j].content
      <3>1. ~setBack /\ completions[c] > 0
        BY <1>4, <2>7
      <3>2. \/ Unusable(c, s.used, identity)
            \/ \E j \in DOMAIN plan :
                  IsIdentity(plan[j]) /\ issued[c].audience < plan[j].content
        BY <2>2, <3>1 DEF DocumentOK
      <3> QED
        BY <1>16, <3>1, <3>2
    <2>8. DocumentOK(s, rest, a)'
      BY <2>4, <2>5, <2>6, <2>7 DEF DocumentOK, IsIdentity, Unusable
    <2> QED
      BY <2>0, <2>8
  <1>18. Standing(rest, a)'
    <2>1. CASE identity = 0
      <3>1. /\ crashes = 0 => \/ Owned(state, Device)
                              \/ \E j \in DOMAIN plan : plan[j] = SetState(EmptyState)
            /\ a.kind = "enrolled" => /\ a.device = Device
                                      /\ Pending(plan) \/ Backs(state, a)
        BY <1>5 DEF Duty, Standing
      <3>2. Owned(state, Device) => Owned(state, Device)'
        BY <1>4, <1>11, <2>1 DEF Owned, Offered
      <3>3. ASSUME NEW j \in DOMAIN plan, plan[j] = SetState(EmptyState)
            PROVE  \E k \in DOMAIN rest : rest[k] = SetState(EmptyState)
        <4>1. j # 1
          BY <1>6, <1>7, <3>3 DEF IsState, SetState
        <4> QED
          BY <1>6, <3>3, <4>1
      <3>4. Pending(plan) => Pending(rest)
        BY <1>6, <1>7 DEF Pending
      <3> QED
        BY <1>4, <1>11, <2>1, <3>1, <3>2, <3>3, <3>4
           DEF Standing, Pending, IsState, Backs, EmptyState, SetState
    <2>2. CASE identity # 0
      <3>1. PICK j \in DOMAIN plan : 1 < j /\ plan[j] = SetState(EmptyState)
        BY <1>9, <2>2
      <3>2. j # 1
        BY <3>1
      <3>3. j - 1 \in DOMAIN rest /\ rest[j - 1] = SetState(EmptyState)
        BY <1>6, <3>1, <3>2
      <3> QED
        BY <1>9, <2>2, <3>3 DEF Standing, EmptyState, SetState
    <2> QED
      BY <2>1, <2>2
  <1>19. Duty(rest, a)'
    BY <1>13, <1>14, <1>17, <1>18 DEF Duty
  <1>20. DutyInv' /\ RestInv'
    BY <1>1, <1>2, <1>3, <1>4, <1>19, HolderAdvances
  <1>21. BlankInv' /\ ClaimInv'
    BY <1>3, <1>4, <1>10 DEF LedgerInv, BlankInv, ClaimInv
  <1>22. IssuedInv'
    <2> SUFFICES ASSUME NEW c \in Challenges
                 PROVE  /\ issued'[c] # NoChallenge => issued'[c].audience <= identity'
                        /\ completions'[c] > 0 => issued'[c] # NoChallenge
      BY DEF IssuedInv
    <2>1. issued[c] # NoChallenge => issued[c].audience \in Nat
      BY <1>3 DEF TypeOK, ChallengeRecord
    <2> QED
      BY <1>3, <1>4, <1>10, <1>15, <2>1 DEF IssuedInv
  <1>23. SpentInv'
    <2> SUFFICES ASSUME ~setBack', NEW c \in Challenges
                 PROVE  /\ completions'[c] <= 1
                        /\ completions'[c] > 0 => Unusable(c, state.used, identity)'
      BY DEF SpentInv
    <2>1. completions[c] <= 1 /\ completions'[c] = completions[c]
      BY <1>4 DEF LedgerInv, SpentInv
    <2>2. ASSUME completions[c] > 0 PROVE Unusable(c, state.used, identity)'
      <3>1. Unusable(c, state.used, identity)
        BY <1>4, <2>2 DEF LedgerInv, SpentInv
      <3>2. issued[c] # NoChallenge /\ issued[c].audience <= identity
        BY <1>15, <2>2 DEF IssuedInv
      <3>3. issued[c].audience \in Nat
        BY <1>3, <3>2 DEF TypeOK, ChallengeRecord
      <3>4. issued[c].audience < g
        BY <1>10, <3>2, <3>3
      <3> QED
        BY <1>3, <1>4, <3>4 DEF Unusable
    <2> QED
      BY <2>1, <2>2
  <1> QED
    BY <1>20, <1>21, <1>22, <1>23 DEF LedgerInv

(* What the answer of a job adds to the histories when its state is on      *)
(* disk.                                                                    *)
LEMMA HistoriesGrow ==
    ASSUME TypeOK, NEW w \in Workers, WriteState(w), NEW a \in Answer,
           a = job[w].answer
    PROVE  /\ \A p \in Pairings : enrolments[p] > 0 => enrolments'[p] > 0
           /\ \A c \in Challenges :
                 IF a.kind = "enrolled" /\ a.challenge = c
                 THEN completions'[c] = completions[c] + 1
                 ELSE completions'[c] = completions[c]
           /\ a.kind = "enrolled" =>
                 /\ enrolments'[a.pairing] > 0
                 /\ a.challenge # NoChallenge =>
                       a.challenge \in Challenges /\ completions'[a.challenge] > 0
  <1>1. enrolments \in [Pairings -> Nat] /\ completions \in [Challenges -> Nat]
    BY DEF TypeOK
  <1>2. NoChallenge \notin Challenges
    OBVIOUS
  <1>3. CASE a.kind # "enrolled"
    <2>1. UNCHANGED <<enrolments, completions>>
      BY <1>3 DEF WriteState
    <2> QED
      BY <1>3, <2>1
  <1>4. CASE a.kind = "enrolled"
    <2>1. a.pairing \in Pairings /\ a.challenge \in Challenges \cup {NoChallenge}
      BY <1>4 DEF Answer, Enrolled
    <2>2. PICK p, c : p = a.pairing /\ c = a.challenge
      OBVIOUS
    <2>3. /\ enrolments' = [enrolments EXCEPT ![p] = enrolments[p] + 1]
          /\ c # NoChallenge =>
                completions' = [completions EXCEPT ![c] = completions[c] + 1]
          /\ c = NoChallenge => completions' = completions
      BY <1>4, <2>2 DEF WriteState
    <2>4. /\ \A o \in Pairings : enrolments[o] > 0 => enrolments'[o] > 0
          /\ enrolments'[p] > 0
      BY <1>1, <2>1, <2>2, <2>3
    <2>5. CASE c = NoChallenge
      BY <1>2, <1>4, <2>2, <2>3, <2>4, <2>5
    <2>6. CASE c # NoChallenge
      <3>1. c \in Challenges /\ completions[c] \in Nat
        BY <1>1, <2>1, <2>2, <2>6
      <3>2. /\ completions'[c] = completions[c] + 1
            /\ \A o \in Challenges \ {c} : completions'[o] = completions[o]
        BY <1>1, <2>3, <2>6, <3>1
      <3>3. completions'[c] > 0
        BY <3>1, <3>2
      <3> QED
        BY <1>4, <2>2, <2>4, <3>1, <3>2, <3>3
    <2> QED
      BY <2>5, <2>6
  <1> QED
    BY <1>3, <1>4

(* Writing the state: the document the plan carries makes good what it      *)
(* promised, and nothing is left to write but audit records.                *)
LEMMA WriteStateLedger ==
    ASSUME IndInv, LedgerInv, NEW w \in Workers, WriteState(w)
    PROVE  LedgerInv'
  <1>1. PICK plan, a : plan = job[w].plan /\ a = job[w].answer
    OBVIOUS
  <1>2. PICK e, rest, s : e = Head(plan) /\ rest = Tail(plan) /\ s = e.content
    OBVIOUS
  <1>3. /\ plan \in Seq(Effect) /\ a \in Answer /\ plan # <<>>
        /\ TypeOK /\ e.file = "state" /\ state' = s
    BY <1>1, <1>2, JobFacts DEF WriteState, Next1, Content, IndInv
  <1>4. /\ UNCHANGED <<now, lock, identity, audit, issued, crashes, setBack>>
        /\ Advance(w)
    BY DEF WriteState
  <1>5. Duty(plan, a) /\ PlanOK(plan, a)
    <2>1. job[w] # Idle
      BY <1>1, <1>3 DEF Idle
    <2> QED
      BY <1>1, <2>1 DEF LedgerInv, DutyInv, IndInv, JobInv
  <1>6. /\ 1 \in DOMAIN plan /\ plan[1] = e
        /\ \A i \in DOMAIN rest :
              i \in Nat /\ i >= 1 /\ i + 1 \in DOMAIN plan /\ rest[i] = plan[i + 1]
    BY <1>2, <1>3, TailFacts
  <1>7. IsState(e) /\ ~IsIdentity(e)
    BY <1>3 DEF IsIdentity, IsState
  <1>8. ~Pending(rest)
    BY <1>2, <1>3, <1>5, <1>7, PlanTail
  <1>9. identity # 0 /\ Device = identity
    <2>1. identity = 0 => IsIdentity(e)
      BY <1>2, <1>5 DEF Duty, Identities, SetIdentity, IsIdentity
    <2> QED
      BY <1>7, <2>1 DEF Device
  <1>10. ASSUME NEW i \in DOMAIN plan, IsIdentity(plan[i]) PROVE FALSE
    <2>1. PICK j \in DOMAIN plan : i < j /\ plan[j] = SetState(EmptyState)
      BY <1>5, <1>9, <1>10 DEF Duty, Identities
    <2>2. IsState(plan[j])
      BY <2>1 DEF IsState, SetState
    <2>3. j = 1
      BY <1>5, <1>6, <1>7, <2>2 DEF PlanOK
    <2>4. i \in Nat /\ i >= 1
      BY <1>3
    <2> QED
      BY <2>1, <2>3, <2>4
  <1>11. DocumentOK(s, plan, a)
    BY <1>2, <1>5, <1>6, <1>7 DEF Duty, Documents
  <1>12. /\ \A p \in Pairings : enrolments[p] > 0 => enrolments'[p] > 0
         /\ \A c \in Challenges :
               IF a.kind = "enrolled" /\ a.challenge = c
               THEN completions'[c] = completions[c] + 1
               ELSE completions'[c] = completions[c]
         /\ a.kind = "enrolled" =>
               /\ enrolments'[a.pairing] > 0
               /\ a.challenge # NoChallenge =>
                     a.challenge \in Challenges /\ completions'[a.challenge] > 0
    BY <1>1, <1>3, HistoriesGrow
  <1>13. a.kind = "enrolled" => Durable(a)'
    BY <1>12 DEF Durable
  <1>14. Identities(rest, a)'
    <2>1. \A i \in DOMAIN rest : ~IsIdentity(rest[i])
      BY <1>6, <1>10
    <2> QED
      BY <1>4, <1>9, <2>1 DEF Identities, IsIdentity
  <1>15. Claims(rest, a)'
    <2>1. ASSUME NEW i \in DOMAIN rest, IsAudit(rest[i]),
                 ClaimsEnrolment(rest[i].content)
          PROVE  /\ a.kind = "enrolled"
                 /\ rest[i].content.event = "pairing.consumed" =>
                        rest[i].content.subject = a.pairing
                 /\ rest[i].content.event = "relay.enrollment.completed" =>
                        /\ a.challenge # NoChallenge
                        /\ rest[i].content.subject = a.challenge
      BY <1>5, <1>6, <2>1 DEF Duty, Claims
    <2> QED
      BY <1>13, <2>1 DEF Claims, IsAudit, ClaimsEnrolment
  <1>16. Documents(rest, a)'
    BY <1>8 DEF Documents, Pending, IsState
  <1>17. Standing(rest, a)'
    <2>1. crashes = 0 => Owned(s, Device)
      BY <1>11 DEF DocumentOK
    <2>2. a.kind = "enrolled" => a.device = Device /\ Backs(s, a)
      BY <1>5, <1>11 DEF Duty, Standing, DocumentOK
    <2>3. Device' = Device
      BY <1>4 DEF Device
    <2>4. crashes' = 0 => Owned(state, Device)'
      BY <1>3, <1>4, <2>1, <2>3 DEF Owned, Offered
    <2>5. a.kind = "enrolled" => a.device = Device' /\ Backs(state, a)'
      BY <1>3, <2>2, <2>3 DEF Backs
    <2> QED
      BY <2>4, <2>5 DEF Standing
  <1>18. Duty(rest, a)'
    BY <1>14, <1>15, <1>16, <1>17 DEF Duty
  <1>19. DutyInv' /\ RestInv'
    BY <1>1, <1>2, <1>3, <1>4, <1>18, HolderAdvances
  <1>20. BlankInv'
    BY <1>4, <1>9 DEF BlankInv
  <1>21. /\ IssuedInv
         /\ a.kind = "enrolled" /\ a.challenge # NoChallenge =>
               /\ issued[a.challenge] # NoChallenge
               /\ a.challenge \in s.used
               /\ ~setBack => completions[a.challenge] = 0
    BY <1>11 DEF LedgerInv, DocumentOK
  <1>22. IssuedInv'
    <2> SUFFICES ASSUME NEW c \in Challenges
                 PROVE  /\ issued'[c] # NoChallenge =>
                               issued'[c].audience <= identity'
                        /\ completions'[c] > 0 => issued'[c] # NoChallenge
      BY DEF IssuedInv
    <2>1. CASE a.kind = "enrolled" /\ a.challenge = c
      <3>1. issued[c] # NoChallenge
        BY <1>21, <2>1
      <3> QED
        BY <1>4, <1>21, <3>1 DEF IssuedInv
    <2>2. CASE ~(a.kind = "enrolled" /\ a.challenge = c)
      BY <1>4, <1>12, <1>21, <2>2 DEF IssuedInv
    <2> QED
      BY <2>1, <2>2
  <1>23. SpentInv'
    <2> SUFFICES ASSUME ~setBack', NEW c \in Challenges
                 PROVE  /\ completions'[c] <= 1
                        /\ completions'[c] > 0 => Unusable(c, state.used, identity)'
      BY DEF SpentInv
    <2>1. CASE a.kind = "enrolled" /\ a.challenge = c
      <3>1. completions[c] = 0 /\ c \in s.used
        BY <1>4, <1>21, <2>1
      <3>2. completions'[c] = 0 + 1
        BY <1>12, <2>1, <3>1
      <3> QED
        BY <1>3, <3>1, <3>2 DEF Unusable
    <2>2. CASE ~(a.kind = "enrolled" /\ a.challenge = c)
      <3>1. completions'[c] = completions[c] /\ completions[c] <= 1
        BY <1>4, <1>12, <2>2 DEF LedgerInv, SpentInv
      <3>2. completions[c] > 0 => Unusable(c, s.used, identity)
        BY <1>4, <1>10, <1>11 DEF DocumentOK
      <3>3. Unusable(c, s.used, identity) => Unusable(c, state.used, identity)'
        BY <1>3, <1>4 DEF Unusable
      <3> QED
        BY <3>1, <3>2, <3>3
    <2> QED
      BY <2>1, <2>2
  <1>24. ClaimInv'
    <2> SUFFICES ASSUME NEW r \in audit, r.outcome = "success"
                 PROVE  /\ r.event = "pairing.consumed" =>
                               r.subject \in Pairings /\ enrolments'[r.subject] > 0
                        /\ r.event = "relay.enrollment.completed" =>
                               r.subject \in Challenges /\ completions'[r.subject] > 0
      BY <1>4 DEF ClaimInv
    <2>1. /\ r.event = "pairing.consumed" =>
                 r.subject \in Pairings /\ enrolments[r.subject] > 0
          /\ r.event = "relay.enrollment.completed" =>
                 r.subject \in Challenges /\ completions[r.subject] > 0
      BY DEF LedgerInv, ClaimInv
    <2>2. \A c \in Challenges : completions[c] > 0 => completions'[c] > 0
      <3>1. \A c \in Challenges : completions[c] \in Nat
        BY <1>3 DEF TypeOK
      <3> QED
        BY <1>12, <3>1
    <2> QED
      BY <1>12, <2>1, <2>2
  <1> QED
    BY <1>19, <1>20, <1>22, <1>23, <1>24 DEF LedgerInv

(* Answering the caller: nothing is left to do, so what is on disk fits.    *)
LEMMA ReturnLedger ==
    ASSUME IndInv, LedgerInv, NEW w \in Workers, Return(w)
    PROVE  LedgerInv'
  <1>1. PICK a : a = job[w].answer
    OBVIOUS
  <1>2. /\ TypeOK /\ lock = w /\ \A o \in Workers \ {w} : job[o] = Idle
        /\ Duty(<<>>, a)
    BY <1>1, OthersKeep DEF Return, IndInv, LockInv, LedgerInv, DutyInv
  <1>3. /\ job' = [job EXCEPT ![w] = Idle]
        /\ UNCHANGED <<now, identity, state, audit, issued, crashes, enrolments,
                       completions, setBack>>
    BY DEF Return, disk
  <1>4. \A o \in Workers : job'[o] = Idle
    BY <1>2, <1>3 DEF TypeOK
  <1>5. DutyInv'
    BY <1>4 DEF DutyInv
  <1>6. crashes = 0 => Owned(state, Device)
    BY <1>2 DEF Duty, Standing
  <1>7. RestInv'
    BY <1>3, <1>6 DEF RestInv, Owned, Offered, Device
  <1>8. IssuedInv' /\ SpentInv' /\ BlankInv' /\ ClaimInv'
    BY <1>3 DEF LedgerInv, IssuedInv, SpentInv, Unusable, BlankInv, ClaimInv
  <1> QED
    BY <1>5, <1>7, <1>8 DEF LedgerInv

(* A process dying inside a job: the files stay, and a death is counted.    *)
LEMMA CrashLedger ==
    ASSUME IndInv, LedgerInv, NEW w \in Workers, Crash(w)
    PROVE  LedgerInv'
  <1>1. /\ TypeOK /\ \A o \in Workers \ {w} : job[o] = Idle
    BY OthersKeep DEF Crash, IndInv, LockInv
  <1>2. /\ job' = [job EXCEPT ![w] = Idle] /\ crashes' = crashes + 1
        /\ UNCHANGED <<now, identity, state, audit, issued, enrolments,
                       completions, setBack>>
    BY DEF Crash, disk, history
  <1>3. \A o \in Workers : job'[o] = Idle
    BY <1>1, <1>2 DEF TypeOK
  <1>4. crashes' # 0
    BY <1>1, <1>2 DEF TypeOK
  <1>5. DutyInv' /\ RestInv'
    BY <1>3, <1>4 DEF DutyInv, RestInv
  <1>6. IssuedInv' /\ SpentInv' /\ BlankInv' /\ ClaimInv'
    BY <1>2 DEF LedgerInv, IssuedInv, SpentInv, Unusable, BlankInv, ClaimInv
  <1> QED
    BY <1>5, <1>6 DEF LedgerInv

(* Relays and the clock: a challenge that was completed keeps its terms,    *)
(* and expires for good unless the clock is set back.                       *)
LEMMA EnvironmentLedger ==
    ASSUME IndInv, LedgerInv,
           UNCHANGED <<lock, disk, job, crashes, enrolments, completions>>,
           \A c \in Challenges : issued[c] # NoChallenge => issued'[c] = issued[c],
           \A c \in Challenges :
               issued'[c] # NoChallenge => issued'[c].audience <= identity,
           now' \in Nat, setBack => setBack', ~setBack' => now <= now'
    PROVE  LedgerInv'
  <1>1. TypeOK /\ IssuedInv
    BY DEF IndInv, LedgerInv
  <1>2. /\ now \in Nat
        /\ issued \in [Challenges -> ChallengeRecord \cup {NoChallenge}]
    BY <1>1 DEF TypeOK
  <1>3. UNCHANGED <<lock, identity, state, audit, job, crashes, enrolments,
                    completions>>
    BY DEF disk
  <1>4. ASSUME ~setBack', NEW c \in Challenges, completions[c] > 0, NEW used,
               Unusable(c, used, identity)
        PROVE  Unusable(c, used, identity)'
    <2>1. issued[c] # NoChallenge /\ issued'[c] = issued[c]
      BY <1>1, <1>4 DEF IssuedInv
    <2>2. issued[c].expires \in Nat
      BY <1>2, <2>1 DEF ChallengeRecord
    <2>3. Expired(issued[c].expires, now) => Expired(issued[c].expires, now')
      BY <1>2, <1>4, <2>2 DEF Expired
    <2> QED
      BY <1>3, <1>4, <2>1, <2>3 DEF Unusable
  <1>5. ASSUME NEW s, NEW plan, NEW a, a \in Answer, DocumentOK(s, plan, a)
        PROVE  DocumentOK(s, plan, a)'
    <2>1. Moves(s)'
      <3>1. \A p \in Pairings : Makes(s, p) => Makes(s, p)'
        BY <1>3 DEF Makes, Offered
      <3>2. Closes(s) => Closes(s)'
        BY <1>3 DEF Closes, Offered
      <3>3. \A p \in Pairings, q \in Peers, k \in Keys, d \in Nat :
               Enrolls(s, p, q, k, d) => Enrolls(s, p, q, k, d)'
        BY <1>3 DEF Enrolls, Offered, Active
      <3>4. \A q \in Peers : Revokes(s, q) => Revokes(s, q)'
        BY <1>3 DEF Revokes, Active
      <3> QED
        BY <1>5, <3>1, <3>2, <3>3, <3>4 DEF DocumentOK, Moves, EmptyState
    <2>2. crashes' = 0 => Owned(s, Device)'
      BY <1>3, <1>5 DEF DocumentOK, Owned, Offered, Device
    <2>3. a.kind = "enrolled" => Backs(s, a)'
      BY <1>5 DEF DocumentOK, Backs
    <2>4. ASSUME a.kind = "enrolled", a.challenge # NoChallenge
          PROVE  /\ issued'[a.challenge] # NoChallenge
                 /\ a.challenge \in s.used
                 /\ ~setBack' => completions'[a.challenge] = 0
      <3>1. a.challenge \in Challenges
        BY <1>5, <2>4 DEF Answer, Enrolled
      <3> QED
        BY <1>3, <1>5, <2>4, <3>1 DEF DocumentOK
    <2>5. ASSUME ~setBack', NEW c \in Challenges, completions[c] > 0
          PROVE  \/ Unusable(c, s.used, identity)'
                 \/ \E j \in DOMAIN plan :
                       IsIdentity(plan[j]) /\ issued'[c].audience < plan[j].content
      <3>1. issued'[c] = issued[c] /\ ~setBack
        BY <1>1, <2>5 DEF IssuedInv
      <3>2. \/ Unusable(c, s.used, identity)
            \/ \E j \in DOMAIN plan :
                  IsIdentity(plan[j]) /\ issued[c].audience < plan[j].content
        BY <1>5, <2>5, <3>1 DEF DocumentOK
      <3> QED
        BY <1>4, <2>5, <3>1, <3>2
    <2> QED
      BY <1>3, <2>1, <2>2, <2>3, <2>4, <2>5 DEF DocumentOK, IsIdentity, Unusable
  <1>6. ASSUME NEW w \in Workers, job'[w] # Idle
        PROVE  Duty(job[w].plan, job[w].answer)'
    <2>1. PICK plan, a : plan = job[w].plan /\ a = job[w].answer
      OBVIOUS
    <2>2. Duty(plan, a) /\ a \in Answer
      BY <1>3, <1>6, <2>1, JobFacts DEF LedgerInv, DutyInv
    <2>3. Identities(plan, a)'
      BY <1>3, <2>2 DEF Duty, Identities, Device, IsIdentity
    <2>4. Claims(plan, a)'
      BY <1>3, <2>2 DEF Duty, Claims, Durable, IsAudit, IsState
    <2>5. Documents(plan, a)'
      BY <1>5, <2>2 DEF Duty, Documents, IsState
    <2>6. Standing(plan, a)'
      BY <1>3, <2>2
         DEF Duty, Standing, Owned, Offered, Device, Pending, IsState, Backs, EmptyState
    <2>7. Duty(plan, a)'
      BY <2>3, <2>4, <2>5, <2>6 DEF Duty
    <2> QED
      BY <1>3, <2>1, <2>7
  <1>7. DutyInv'
    BY <1>6 DEF DutyInv
  <1>8. IssuedInv'
    BY <1>1, <1>3 DEF IssuedInv
  <1>9. SpentInv'
    <2> SUFFICES ASSUME ~setBack', NEW c \in Challenges
                 PROVE  /\ completions'[c] <= 1
                        /\ completions'[c] > 0 => Unusable(c, state.used, identity)'
      BY DEF SpentInv
    <2>1. /\ completions[c] <= 1
          /\ completions[c] > 0 => Unusable(c, state.used, identity)
      BY DEF LedgerInv, SpentInv
    <2>2. PICK used : used = state.used
      OBVIOUS
    <2>3. completions[c] > 0 => Unusable(c, used, identity)'
      BY <1>4, <2>1, <2>2
    <2> QED
      BY <1>3, <2>1, <2>2, <2>3
  <1>10. BlankInv' /\ RestInv' /\ ClaimInv'
    BY <1>3 DEF LedgerInv, BlankInv, RestInv, Owned, Offered, Device, ClaimInv,
       EmptyState
  <1> QED
    BY <1>7, <1>8, <1>9, <1>10 DEF LedgerInv

(* The empty directory satisfies the second invariant.                      *)
LEMMA InitLedger == Init => LedgerInv
  <1> SUFFICES ASSUME Init PROVE LedgerInv
    OBVIOUS
  <1>1. DutyInv
    BY DEF Init, DutyInv
  <1>2. IssuedInv /\ SpentInv /\ BlankInv /\ ClaimInv
    BY DEF Init, IssuedInv, SpentInv, BlankInv, ClaimInv
  <1>3. RestInv
    BY DEF Init, RestInv, Owned, Offered, EmptyState
  <1> QED
    BY <1>1, <1>2, <1>3 DEF LedgerInv

(* Every step preserves the second invariant.                               *)
LEMMA NextLedger == IndInv /\ LedgerInv /\ [Next]_vars => LedgerInv'
  <1> SUFFICES ASSUME IndInv, LedgerInv, [Next]_vars PROVE LedgerInv'
    OBVIOUS
  <1>0. /\ now \in Nat /\ identity \in Nat
        /\ issued \in [Challenges -> ChallengeRecord \cup {NoChallenge}]
        /\ \A c \in Challenges :
              issued[c] # NoChallenge => issued[c].audience <= identity
    BY DEF IndInv, TypeOK, LedgerInv, IssuedInv
  <1>1. ASSUME NEW w \in Workers, Decide(w) PROVE LedgerInv'
    BY <1>1, DecideLedger
  <1>2. ASSUME NEW w \in Workers, Perform(w) PROVE LedgerInv'
    BY <1>2, WriteIdentityLedger, WriteStateLedger, AppendAuditLedger,
       ReturnLedger DEF Perform
  <1>3. ASSUME NEW w \in Workers, Crash(w) PROVE LedgerInv'
    BY <1>3, CrashLedger
  <1>4. ASSUME NEW c \in Challenges, NEW d \in 1..identity,
               NEW ttl \in ChallengeTTLs, NEW ahead \in 0..RelayAhead,
               IssueChallenge(c, d, ttl, ahead)
        PROVE  LedgerInv'
    <2>1. /\ issued[c] = NoChallenge
          /\ UNCHANGED <<now, lock, disk, job, crashes, enrolments, completions,
                         setBack>>
      BY <1>4 DEF IssueChallenge, history
    <2>2. PICK r : r = [audience |-> d, issued |-> now + ahead,
                        expires |-> now + ahead + ttl]
      OBVIOUS
    <2>3. issued' = [issued EXCEPT ![c] = r] /\ r.audience = d
      BY <1>4, <2>2 DEF IssueChallenge
    <2>4. d <= identity
      BY <1>0
    <2>5. \A x \in Challenges :
             /\ issued[x] # NoChallenge => issued'[x] = issued[x]
             /\ issued'[x] # NoChallenge => issued'[x].audience <= identity
      BY <1>0, <2>1, <2>3, <2>4
    <2>6. now' \in Nat /\ (setBack => setBack') /\ (~setBack' => now <= now')
      BY <1>0, <2>1
    <2> QED
      BY <2>1, <2>5, <2>6, EnvironmentLedger
  <1>5. CASE Tick
    <2>1. UNCHANGED <<lock, disk, job, crashes, enrolments, completions, issued,
                      setBack>>
      BY <1>5 DEF Tick, history
    <2>2. now' \in Nat /\ now <= now'
      BY <1>0, <1>5 DEF Tick
    <2> QED
      BY <1>0, <2>1, <2>2, EnvironmentLedger
  <1>6. CASE StepBack
    <2>1. UNCHANGED <<lock, disk, job, crashes, enrolments, completions, issued>>
          /\ setBack'
      BY <1>6 DEF StepBack
    <2>2. now' \in Nat
      BY <1>0, <1>6 DEF StepBack
    <2> QED
      BY <1>0, <2>1, <2>2, EnvironmentLedger
  <1>7. CASE UNCHANGED vars
    <2>1. UNCHANGED <<now, lock, disk, job, crashes, enrolments, completions,
                      issued, setBack>>
      BY <1>7 DEF vars, history
    <2>2. now' \in Nat /\ (setBack => setBack') /\ (~setBack' => now <= now')
      BY <1>0, <2>1
    <2> QED
      BY <1>0, <2>1, <2>2, EnvironmentLedger
  <1> QED
    BY <1>1, <1>2, <1>3, <1>4, <1>5, <1>6, <1>7 DEF Next

(* The second invariant of EnrollmentStore: what every job in progress will *)
(* leave behind, which challenges can still be answered, and whom the files *)
(* belong to.                                                               *)
THEOREM LedgerInvariance == Spec => [](IndInv /\ LedgerInv)
  <1>1. Init => IndInv /\ LedgerInv
    BY InitInd, InitLedger
  <1>2. IndInv /\ LedgerInv /\ [Next]_vars => (IndInv /\ LedgerInv)'
    BY NextInd, NextLedger
  <1> QED
    BY <1>1, <1>2, PTL DEF Spec

(* ChallengeOnceUnlessSetBack, for any number of crashes, rotations and     *)
(* challenges: what complete_relay_enrollment records as used, what has     *)
(* expired and what another identity was asked cannot be answered again.    *)
THEOREM ChallengeTheorem == Spec => []ChallengeOnceUnlessSetBack
  <1>1. LedgerInv => ChallengeOnceUnlessSetBack
    BY DEF LedgerInv, SpentInv, ChallengeOnceUnlessSetBack
  <1> QED
    BY <1>1, LedgerInvariance, PTL

(* AuditFollowsState, wherever a process dies: _audit_locked is called      *)
(* after _save_state.                                                       *)
THEOREM AuditTheorem == Spec => []AuditFollowsState
  <1>1. LedgerInv => AuditFollowsState
    BY DEF LedgerInv, ClaimInv, AuditFollowsState
  <1> QED
    BY <1>1, LedgerInvariance, PTL

(* RotationClearsUnlessCrash: without a process dying inside a job, no      *)
(* offer and no peer of an earlier identity is on disk once rotate_identity *)
(* has given up the lock.                                                   *)
THEOREM RotationTheorem == Spec => []RotationClearsUnlessCrash
  <1>1. LedgerInv => RotationClearsUnlessCrash
    <2> SUFFICES ASSUME LedgerInv, crashes = 0, lock = Nobody
                 PROVE  Owned(state, identity)
      BY DEF RotationClearsUnlessCrash, RotationClears, Owned
    <2>1. CASE identity = 0
      BY <2>1 DEF LedgerInv, BlankInv, Owned, Offered, EmptyState
    <2>2. CASE identity # 0
      BY <2>2 DEF LedgerInv, RestInv, Device
    <2> QED
      BY <2>1, <2>2
  <1> QED
    BY <1>1, LedgerInvariance, PTL

(* ReceiptBacked: _locked lets go of the lock, and the caller gets the      *)
(* receipt, only once the peer it names is on disk under the identity that  *)
(* signed it.                                                               *)
THEOREM ReceiptTheorem == Spec => ReceiptBacked
  <1> DEFINE Step == \A r \in receipts' \ receipts :
                /\ state.peers[r.peer] =
                      [key |-> r.key, revoked |-> FALSE, device |-> r.device]
                /\ r.device = identity
  <1>1. IndInv /\ LedgerInv /\ [Next]_vars => [Step]_vars
    <2> SUFFICES ASSUME LedgerInv, Next, NEW r \in receipts' \ receipts
                 PROVE  /\ state.peers[r.peer] =
                             [key |-> r.key, revoked |-> FALSE, device |-> r.device]
                        /\ r.device = identity
      OBVIOUS
    <2>1. PICK w \in Workers : Return(w)
      <3>1. receipts' # receipts
        OBVIOUS
      <3>2. \A w \in Workers : ~Decide(w)
        <4>1. \A w, plan, a : ~Start(w, plan, a)
          BY <3>1 DEF Start, history
        <4>2. \A w : ~ReadIdentity(w) /\ ~RotateIdentity(w)
          BY <4>1 DEF ReadIdentity, RotateIdentity
        <4>3. \A w, p, ttl : ~CreatePairing(w, p, ttl)
          BY <4>1 DEF CreatePairing
        <4>4. \A w, p, codeOk, q, k : ~ConsumePairing(w, p, codeOk, q, k)
          BY <4>1 DEF ConsumePairing
        <4>5. \A w, c : ~SignRelayChallenge(w, c)
          BY <4>1 DEF SignRelayChallenge
        <4>6. \A w, c, p, codeOk, q, k, proofOk :
                 ~CompleteRelayEnrollment(w, c, p, codeOk, q, k, proofOk)
          BY <4>1 DEF CompleteRelayEnrollment
        <4>7. \A w, q : ~RevokePeer(w, q)
          BY <4>1 DEF RevokePeer
        <4> QED
          BY <4>2, <4>3, <4>4, <4>5, <4>6, <4>7 DEF Decide
      <3>3. \A w \in Workers :
               ~WriteIdentity(w) /\ ~WriteState(w) /\ ~AppendAudit(w) /\ ~Crash(w)
        BY <3>1 DEF WriteIdentity, WriteState, AppendAudit, Crash, history
      <3>4. \A c, d, ttl, ahead : ~IssueChallenge(c, d, ttl, ahead)
        BY <3>1 DEF IssueChallenge, history
      <3>5. ~Tick /\ ~StepBack
        BY <3>1 DEF Tick, StepBack, history
      <3> QED
        BY <3>2, <3>3, <3>4, <3>5 DEF Next, Perform
    <2>2. PICK a : a = job[w].answer
      OBVIOUS
    <2>3. r = a /\ a.kind = "enrolled" /\ job[w] # Idle /\ job[w].plan = <<>>
      BY <2>1, <2>2 DEF Return
    <2>4. Duty(<<>>, a)
      BY <2>2, <2>3 DEF LedgerInv, DutyInv
    <2>5. identity # 0 /\ a.device = Device
      BY <2>3, <2>4 DEF Duty, Identities, Standing
    <2>6. Backs(state, a)
      BY <2>3, <2>4 DEF Duty, Standing, Pending
    <2> QED
      BY <2>3, <2>5, <2>6 DEF Backs, Device
  <1> QED
    BY <1>1, LedgerInvariance, PTL DEF Spec, ReceiptBacked

------------------------------------------------------------------------------
(* EnrollmentStore implements the ledger.                                   *)

(* The lock's holder and its plan say what is to be saved.                  *)
LEMMA HolderPlans ==
    ASSUME IndInv, NEW w \in Workers, lock = w, NEW p
    PROVE  ToBeSaved(p) <=> Planned(job[w].plan, p)
  <1>1. PICK j, plan : j = job /\ plan = job[w].plan
    OBVIOUS
  <1>2. plan \in Seq(Effect) /\ j[w].plan = plan
        /\ \A o \in Workers \ {w} : j[o] = Idle
    BY <1>1, JobFacts, OthersKeep
  <1>3. ToBeSaved(p) <=>
          \E o \in Workers :
             \E i \in {i \in 1..Len(j[o].plan) : j[o].plan[i].file = "state"} :
                Offered(j[o].plan[i].content, p)
    BY <1>1 DEF ToBeSaved, StateEffects
  <1> QED
    BY <1>1, <1>2, <1>3, PlannedByHolder

(* The same after a step of the holder.                                     *)
LEMMA HolderPlansNext ==
    ASSUME IndInv, NEW w \in Workers, lock = w, NEW rest \in Seq(Effect), NEW a,
           job' = [job EXCEPT ![w] = [plan |-> rest, answer |-> a]], NEW p
    PROVE  ToBeSaved(p)' <=> Planned(rest, p)
  <1>1. PICK j : j = job'
    OBVIOUS
  <1>2. j[w].plan = rest /\ \A o \in Workers \ {w} : j[o] = Idle
    BY <1>1, OthersKeep DEF IndInv, TypeOK
  <1>3. ToBeSaved(p)' <=>
          \E o \in Workers :
             \E i \in {i \in 1..Len(j[o].plan) : j[o].plan[i].file = "state"} :
                Offered(j[o].plan[i].content, p)
    BY <1>1 DEF ToBeSaved, StateEffects, Offered
  <1> QED
    BY <1>2, <1>3, PlannedByHolder

(* Writing the key file or an audit record is invisible to the ledger.      *)
LEMMA AdvanceUnmoved ==
    ASSUME IndInv, NEW w \in Workers, job[w].plan # <<>>,
           ~IsState(Head(job[w].plan)), Advance(w), UNCHANGED <<state, minted>>
    PROVE  UNCHANGED <<OfferStatus, PublicPeers>>
  <1>1. PICK plan, rest, a : /\ plan = job[w].plan /\ rest = Tail(plan)
                             /\ a = job[w].answer
    OBVIOUS
  <1>2. plan \in Seq(Effect) /\ plan # <<>> /\ lock = w
    <2>1. job[w] # Idle
      BY DEF Idle
    <2> QED
      BY <1>1, <2>1, JobFacts DEF IndInv, LockInv
  <1>3. rest \in Seq(Effect)
        /\ job' = [job EXCEPT ![w] = [plan |-> rest, answer |-> a]]
    BY <1>1, <1>2, HeadFacts, AdvanceFacts
  <1>4. /\ 1 \in DOMAIN plan /\ plan[1] = Head(plan)
        /\ \A i \in DOMAIN rest :
              i \in Nat /\ i >= 1 /\ i + 1 \in DOMAIN plan /\ rest[i] = plan[i + 1]
        /\ \A i \in DOMAIN plan :
              /\ i \in Nat /\ i >= 1
              /\ i # 1 => i - 1 \in DOMAIN rest /\ rest[i - 1] = plan[i]
    BY <1>1, <1>2, TailFacts
  <1>5. \A p : Planned(rest, p) <=> Planned(plan, p)
    <2>1. \A p : Planned(rest, p) => Planned(plan, p)
      BY <1>4 DEF Planned
    <2>2. ~IsState(plan[1])
      BY <1>1, <1>4
    <2>3. \A p : Planned(plan, p) => Planned(rest, p)
      BY <1>4, <2>2 DEF Planned
    <2> QED
      BY <2>1, <2>3
  <1>6. \A p : ToBeSaved(p)' <=> ToBeSaved(p)
    BY <1>1, <1>2, <1>3, <1>5, HolderPlans, HolderPlansNext
  <1> QED
    BY <1>6, SameLedger

(* Answering the caller is invisible to the ledger.                         *)
LEMMA ReturnUnmoved ==
    ASSUME IndInv, NEW w \in Workers, Return(w)
    PROVE  UNCHANGED <<OfferStatus, PublicPeers>>
  <1>1. PICK plan, a : plan = <<>> /\ a = Idle.answer
    OBVIOUS
  <1>2. /\ plan \in Seq(Effect) /\ job[w].plan = plan /\ lock = w
        /\ job' = [job EXCEPT ![w] = [plan |-> plan, answer |-> a]]
        /\ UNCHANGED <<state, minted>>
    BY <1>1 DEF Return, disk, IndInv, LockInv, Idle
  <1>3. \A p : ToBeSaved(p)' <=> ToBeSaved(p)
    BY <1>2, HolderPlans, HolderPlansNext
  <1> QED
    BY <1>2, <1>3, SameLedger

(* When a process dies, the offer it was to save is lost for good.          *)
LEMMA CrashCloses ==
    ASSUME IndInv, NEW w \in Workers, Crash(w)
    PROVE  Ledger!LedgerNext
  <1>1. PICK plan, a : plan = <<>> /\ a = Idle.answer
    OBVIOUS
  <1>2. /\ plan \in Seq(Effect) /\ lock = w
        /\ job' = [job EXCEPT ![w] = [plan |-> plan, answer |-> a]]
        /\ UNCHANGED <<state, minted>>
    BY <1>1 DEF Crash, disk, IndInv, LockInv, Idle
  <1>3. \A p : ~ToBeSaved(p)'
    <2>1. \A p : ToBeSaved(p)' <=> Planned(plan, p)
      BY <1>2, HolderPlansNext
    <2>2. \A p : ~Planned(plan, p)
      BY <1>1 DEF Planned
    <2> QED
      BY <2>1, <2>2
  <1>4. PICK S \in SUBSET Pairings :
           S = {p \in Pairings : /\ ~Offered(state, p) /\ p \in minted
                                 /\ ToBeSaved(p)}
    OBVIOUS
  <1>5. \A p \in Pairings :
           Offered(state, p)' <=> Offered(state, p)
    BY <1>2 DEF Offered
  <1>6. OfferStatus' = [p \in Pairings |-> IF p \in S THEN "closed" ELSE OfferStatus[p]]
    BY <1>2, <1>3, <1>4, <1>5 DEF OfferStatus
  <1>7. PublicPeers' = PublicPeers
    BY <1>2 DEF PublicPeers
  <1>8. Ledger!CloseOffers(S)
    BY <1>6, <1>7 DEF Ledger!CloseOffers, Ledger!Closing
  <1> QED
    BY <1>8 DEF Ledger!LedgerNext

(* The offers of the ledger before and after document s replaces document   *)
(* t, when the ids in m have been drawn.                                    *)
Before(t, s, m) ==
    [p \in Pairings |-> IF Offered(t, p) THEN "open"
                        ELSE IF p \notin m \/ Offered(s, p) THEN "unmade"
                        ELSE "closed"]
After(s, m) ==
    [p \in Pairings |-> IF Offered(s, p) THEN "open"
                        ELSE IF p \notin m THEN "unmade" ELSE "closed"]
Public(s) ==
    [q \in Peers |-> IF s.peers[q] = NoPeer THEN NoPeer
                     ELSE [key |-> s.peers[q].key, revoked |-> s.peers[q].revoked]]

(* A public peer record that is revoked keeps its key.                      *)
LEMMA RevisedRecord ==
    ASSUME NEW k, NEW b, NEW x, NEW y, y = [key |-> k, revoked |-> b]
    PROVE  [y EXCEPT !.revoked = x] = [key |-> k, revoked |-> x]
  OBVIOUS

(* Every document a job writes is a step of the ledger.                     *)
LEMMA MoveSteps ==
    ASSUME NEW s \in State, state \in State, Moves(s), NEW m,
           \A p \in Pairings : Offered(s, p) \/ Offered(state, p) => p \in m,
           OfferStatus = Before(state, s, m), OfferStatus' = After(s, m),
           PublicPeers = Public(state), PublicPeers' = Public(s)
    PROVE  Ledger!LedgerNext
  <1>1. ASSUME NEW p \in Pairings, Makes(s, p)
        PROVE  Ledger!LedgerNext
    <2>1. PICK ended \in SUBSET Pairings :
             ended = {o \in Pairings : Offered(state, o) /\ ~Offered(s, o)}
      OBVIOUS
    <2>2. /\ ~Offered(state, p) /\ Offered(s, p) /\ s.peers = state.peers
          /\ \A o \in Pairings \ {p} : Offered(s, o) => Offered(state, o)
      BY <1>1 DEF Makes
    <2>3. OfferStatus[p] = "unmade" /\ \A x \in ended : OfferStatus[x] = "open"
      BY <2>1, <2>2 DEF Before
    <2>4. PICK x : x = [o \in Pairings |->
                           IF o \in ended THEN "closed" ELSE OfferStatus[o]]
      OBVIOUS
    <2>5. After(s, m) = [x EXCEPT ![p] = "open"]
      <3>1. \A o \in Pairings \ {p} : After(s, m)[o] = x[o]
        BY <2>1, <2>2, <2>4 DEF Before, After
      <3>2. After(s, m)[p] = "open"
        BY <2>2 DEF After
      <3> QED
        BY <2>4, <3>1, <3>2 DEF After
    <2>6. PublicPeers' = PublicPeers
      BY <2>2 DEF Public
    <2>7. Ledger!MakeOffer(p, ended)
      BY <2>3, <2>4, <2>5, <2>6 DEF Ledger!MakeOffer, Ledger!Open, Ledger!Closing
    <2> QED
      BY <2>7 DEF Ledger!LedgerNext
  <1>2. ASSUME Closes(s)
        PROVE  Ledger!LedgerNext
    <2>1. PICK S \in SUBSET Pairings :
             S = {o \in Pairings : Offered(state, o) /\ ~Offered(s, o)}
      OBVIOUS
    <2>2. s.peers = state.peers /\ \A o \in Pairings : Offered(s, o) => Offered(state, o)
      BY <1>2 DEF Closes
    <2>3. After(s, m) = [o \in Pairings |-> IF o \in S THEN "closed" ELSE OfferStatus[o]]
      BY <2>1, <2>2 DEF Before, After
    <2>4. PublicPeers' = PublicPeers
      BY <2>2 DEF Public
    <2>5. Ledger!CloseOffers(S)
      BY <2>3, <2>4 DEF Ledger!CloseOffers, Ledger!Closing
    <2> QED
      BY <2>5 DEF Ledger!LedgerNext
  <1>3. ASSUME NEW p \in Pairings, NEW q \in Peers, NEW k \in Keys, NEW d \in Nat,
               Enrolls(s, p, q, k, d)
        PROVE  Ledger!LedgerNext
    <2>1. PICK r : r = [key |-> k, revoked |-> FALSE, device |-> d]
      OBVIOUS
    <2>2. /\ Offered(state, p) /\ ~Offered(s, p) /\ ~Active(state, q)
          /\ \A o \in Pairings \ {p} : s.pairings[o] = state.pairings[o]
          /\ s.peers = [state.peers EXCEPT ![q] = r]
      BY <1>3, <2>1 DEF Enrolls
    <2>3. OfferStatus[p] = "open"
      BY <2>2 DEF Before
    <2>4. After(s, m) = [o \in Pairings |-> IF o \in {p} THEN "closed" ELSE OfferStatus[o]]
      BY <2>2 DEF Before, After, Offered
    <2>5. PublicPeers[q] = NoPeer \/ PublicPeers[q].revoked
      BY <2>2 DEF Public, Active
    <2>6. r # NoPeer /\ r.key = k /\ r.revoked = FALSE
      <3>1. r \in [key : Keys, revoked : BOOLEAN, device : Nat]
        BY <2>1
      <3> QED
        BY <2>1, <3>1, NoneAssumption
    <2>7. Public(s) = [Public(state) EXCEPT ![q] = [key |-> k, revoked |-> FALSE]]
      <3>1. s.peers[q] = r /\ \A o \in Peers \ {q} : s.peers[o] = state.peers[o]
        BY <2>2 DEF State
      <3>2. Public(s)[q] = [key |-> k, revoked |-> FALSE]
        BY <2>6, <3>1 DEF Public
      <3>3. \A o \in Peers \ {q} : Public(s)[o] = Public(state)[o]
        BY <3>1 DEF Public
      <3> QED
        BY <3>2, <3>3 DEF Public
    <2>8. Ledger!Enroll(p, q, k)
      BY <2>3, <2>4, <2>5, <2>7
         DEF Ledger!Enroll, Ledger!Open, Ledger!IsActive, Ledger!Closing
    <2> QED
      BY <2>8 DEF Ledger!LedgerNext
  <1>4. ASSUME NEW q \in Peers, Revokes(s, q)
        PROVE  Ledger!LedgerNext
    <2>1. PICK r : r = state.peers[q]
      OBVIOUS
    <2>2. /\ r # NoPeer /\ ~r.revoked /\ s.pairings = state.pairings
          /\ s.peers = [state.peers EXCEPT ![q] = [r EXCEPT !.revoked = TRUE]]
      BY <1>4, <2>1 DEF Revokes, Active
    <2>3. r \in PeerRecord
      BY <2>1, <2>2 DEF State
    <2>4. PICK x : x = [r EXCEPT !.revoked = TRUE]
      OBVIOUS
    <2>5. x \in PeerRecord /\ x # NoPeer /\ x.key = r.key /\ x.revoked = TRUE
      <3>1. x \in PeerRecord /\ x.key = r.key /\ x.revoked = TRUE
        BY <2>3, <2>4 DEF PeerRecord
      <3> QED
        BY <3>1 DEF PeerRecord
    <2>6. PICK y : y = [key |-> r.key, revoked |-> r.revoked]
      OBVIOUS
    <2>7. y # NoPeer /\ ~y.revoked /\ PublicPeers[q] = y
      <3>1. y \in [key : Keys, revoked : BOOLEAN]
        BY <2>3, <2>6 DEF PeerRecord
      <3>2. y # NoPeer
        BY <3>1, PublicAssumption
      <3> QED
        BY <2>1, <2>2, <2>6, <3>2 DEF Public
    <2>8. PICK z : z = [y EXCEPT !.revoked = TRUE]
      OBVIOUS
    <2>9. Public(s) = [Public(state) EXCEPT ![q] = z]
      <3>1. s.peers[q] = x /\ \A o \in Peers \ {q} : s.peers[o] = state.peers[o]
        BY <2>2, <2>4 DEF State
      <3>2. Public(s)[q] = [key |-> r.key, revoked |-> TRUE]
        BY <2>5, <3>1 DEF Public
      <3>3. \A o \in Peers \ {q} : Public(s)[o] = Public(state)[o]
        BY <3>1 DEF Public
      <3>4. z = [key |-> r.key, revoked |-> TRUE]
        BY <2>6, <2>8, RevisedRecord
      <3> QED
        BY <3>2, <3>3, <3>4 DEF Public
    <2>10. PublicPeers' = [PublicPeers EXCEPT ![q] = [PublicPeers[q] EXCEPT !.revoked = TRUE]]
      BY <2>7, <2>9, <2>8
    <2>11. After(s, m) = Before(state, s, m)
      BY <2>2 DEF Before, After, Offered
    <2>12. Ledger!Revoke(q)
      BY <2>7, <2>10, <2>11 DEF Ledger!Revoke, Ledger!IsActive
    <2> QED
      BY <2>12 DEF Ledger!LedgerNext
  <1>5. ASSUME s = EmptyState
        PROVE  Ledger!LedgerNext
    <2>1. /\ \A p \in Pairings : ~Offered(s, p)
          /\ \A q \in Peers : s.peers[q] = NoPeer
      BY <1>5 DEF EmptyState, Offered
    <2>2. After(s, m) = [p \in Pairings |->
             IF p \in {x \in Pairings : OfferStatus[x] = "open"} THEN "closed"
             ELSE OfferStatus[p]]
      BY <2>1 DEF Before, After
    <2>3. Public(s) = [q \in Peers |-> NoPeer]
      BY <2>1 DEF Public
    <2>4. Ledger!ClearLedger
      BY <2>2, <2>3 DEF Ledger!ClearLedger, Ledger!Open, Ledger!Closing,
         Ledger!NoPeers
    <2> QED
      BY <2>4 DEF Ledger!LedgerNext
  <1> QED
    BY <1>1, <1>2, <1>3, <1>4, <1>5 DEF Moves

(* Writing the state is the step the ledger sees.                           *)
LEMMA WriteStateMoves ==
    ASSUME IndInv, LedgerInv, NEW w \in Workers, WriteState(w)
    PROVE  Ledger!LedgerNext
  <1>1. PICK plan, rest, a, s : /\ plan = job[w].plan /\ rest = Tail(plan)
                                /\ a = job[w].answer /\ s = Head(plan).content
    OBVIOUS
  <1>2. /\ plan \in Seq(Effect) /\ plan # <<>> /\ PlanOK(plan, a) /\ lock = w
        /\ IsState(Head(plan)) /\ state' = s /\ UNCHANGED minted /\ Advance(w)
        /\ Duty(plan, a) /\ state \in State /\ Sound(state)
    <2>1. job[w].plan # <<>> /\ job[w] # Idle
      BY DEF WriteState, Next1, Idle
    <2> QED
      BY <1>1, <2>1, JobFacts DEF WriteState, Next1, Content, IndInv, LockInv,
         LedgerInv, DutyInv, IsState, TypeOK
  <1>3. /\ rest \in Seq(Effect) /\ Head(plan) \in Effect
        /\ Writable(s, a) /\ ~Pending(rest)
        /\ job' = [job EXCEPT ![w] = [plan |-> rest, answer |-> a]]
    BY <1>1, <1>2, HeadFacts, PlanTail, AdvanceFacts
  <1>4. s \in State /\ Sound(s)
    BY <1>1, <1>2, <1>3, EffectTypes DEF Writable
  <1>5. 1 \in DOMAIN plan /\ plan[1].content = s /\ IsState(plan[1])
    BY <1>1, <1>2, TailFacts
  <1>6. Moves(s)
    BY <1>2, <1>5 DEF Duty, Documents, DocumentOK
  <1>7. \A p : Planned(plan, p) <=> Offered(s, p)
    BY <1>2, <1>5 DEF Planned, PlanOK
  <1>8. \A p : (ToBeSaved(p) <=> Offered(s, p)) /\ ~ToBeSaved(p)'
    <2>1. \A p : ToBeSaved(p) <=> Planned(plan, p)
      BY <1>1, <1>2, HolderPlans
    <2>2. \A p : ToBeSaved(p)' <=> Planned(rest, p)
      BY <1>2, <1>3, HolderPlansNext
    <2>3. \A p : ~Planned(rest, p)
      BY <1>3 DEF Planned, Pending
    <2> QED
      BY <1>7, <2>1, <2>2, <2>3
  <1>9. PICK m : m = minted
    OBVIOUS
  <1>10. \A p \in Pairings : Offered(s, p) \/ Offered(state, p) => p \in m
    BY <1>2, <1>4, <1>9 DEF Sound
  <1>11. OfferStatus = Before(state, s, m)
    BY <1>8, <1>9 DEF OfferStatus, Before
  <1>12. OfferStatus' = After(s, m)
    <2>1. \A p \in Pairings : Offered(state, p)' <=> Offered(s, p)
      BY <1>2 DEF Offered
    <2> QED
      BY <1>2, <1>8, <1>9, <2>1 DEF OfferStatus, After
  <1>13. PublicPeers = Public(state) /\ PublicPeers' = Public(s)
    BY <1>2 DEF PublicPeers, Public
  <1> QED
    BY <1>2, <1>4, <1>6, <1>10, <1>11, <1>12, <1>13, MoveSteps

(* Every step of the store is a step of the ledger or invisible to it.      *)
LEMMA LedgerStep ==
    IndInv /\ LedgerInv /\ [Next]_vars => [Ledger!LedgerNext]_(Ledger!ledger)
  <1> SUFFICES ASSUME IndInv, LedgerInv, [Next]_vars
               PROVE  Ledger!LedgerNext \/ UNCHANGED <<OfferStatus, PublicPeers>>
    BY DEF Ledger!ledger
  <1>1. ASSUME UNCHANGED <<state, job, minted>>
        PROVE  UNCHANGED <<OfferStatus, PublicPeers>>
    <2>1. \A p : ToBeSaved(p)' <=> ToBeSaved(p)
      BY <1>1 DEF ToBeSaved, StateEffects, Offered
    <2> QED
      BY <1>1, <2>1, SameLedger
  <1>2. ASSUME NEW w \in Workers, Decide(w)
        PROVE  UNCHANGED <<OfferStatus, PublicPeers>>
    BY <1>2, DecideLedger
  <1>3. ASSUME NEW w \in Workers, WriteIdentity(w) \/ AppendAudit(w)
        PROVE  UNCHANGED <<OfferStatus, PublicPeers>>
    <2>1. /\ job[w].plan # <<>> /\ ~IsState(Head(job[w].plan)) /\ Advance(w)
          /\ UNCHANGED <<state, minted>>
      BY <1>3 DEF WriteIdentity, AppendAudit, Next1, IsState
    <2> QED
      BY <2>1, AdvanceUnmoved
  <1>4. ASSUME NEW w \in Workers, Perform(w) \/ Crash(w)
        PROVE  Ledger!LedgerNext \/ UNCHANGED <<OfferStatus, PublicPeers>>
    BY <1>3, <1>4, WriteStateMoves, ReturnUnmoved, CrashCloses DEF Perform
  <1>5. \A c, d, ttl, ahead :
           IssueChallenge(c, d, ttl, ahead) => UNCHANGED <<state, job, minted>>
    BY DEF IssueChallenge, disk
  <1>6. Tick \/ StepBack \/ UNCHANGED vars => UNCHANGED <<state, job, minted>>
    BY DEF Tick, StepBack, vars, disk
  <1> QED
    BY <1>1, <1>2, <1>4, <1>5, <1>6 DEF Next

(* ImplementsLedger, for any processes, offers and peers: whatever is read, *)
(* written, interrupted or lost, identity.json and state.json go through    *)
(* the moves PairingLedger allows and no other.                             *)
THEOREM LedgerTheorem == Spec => ImplementsLedger
  <1>1. Init => Ledger!LedgerInit
    <2> SUFFICES ASSUME Init PROVE Ledger!LedgerInit
      OBVIOUS
    <2>1. \A p \in Pairings : ~Offered(state, p) /\ p \notin minted
      BY DEF Init, EmptyState, Offered
    <2>2. OfferStatus = [p \in Pairings |-> "unmade"]
      BY <2>1 DEF OfferStatus
    <2>3. PublicPeers = [q \in Peers |-> NoPeer]
      BY DEF Init, EmptyState, PublicPeers
    <2> QED
      BY <2>2, <2>3 DEF Ledger!LedgerInit, Ledger!NoPeers
  <1> QED
    BY <1>1, LedgerStep, LedgerInvariance, PTL
       DEF Spec, ImplementsLedger, Ledger!Spec

============================================================================
