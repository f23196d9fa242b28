--------------------------- MODULE EnrollmentStore ---------------------------
(***************************************************************************)
(* The device side of relay enrollment: enrollment.py, class               *)
(* EnrollmentStore.  Several processes (CLI commands, the relay worker)    *)
(* work on three files, identity.json, state.json and audit.jsonl, under   *)
(* one flock.  A process takes the lock, reads everything it needs,        *)
(* decides, and then changes the files one after the other before it       *)
(* answers its caller.  The decision is the job's plan, a sequence of file *)
(* effects, and its answer; each effect is a step of its own and the       *)
(* process may die before any of them.                                     *)
(*                                                                         *)
(* A device identity is its generation number: each generation is a fresh  *)
(* Ed25519 key, 0 says that identity.json does not exist.  Codes, keys and *)
(* signatures are reduced to whether they match.                           *)
(***************************************************************************)
EXTENDS Naturals, Sequences

CONSTANTS
    Workers,            \* processes that open the store
    Pairings,           \* pairing ids (uuid4, each minted at most once)
    Peers,              \* peer identifiers
    Keys,               \* peer public keys
    Challenges,         \* challenge ids (uuid4, each issued at most once)
    Nobody, NoPairing, NoPeer, NoChallenge,
    PairingAttempts,    \* PAIRING_ATTEMPTS
    PairingTTLs,        \* lifetimes offered to create_pairing
    ChallengeTTLs,      \* lifetimes given to create_relay_challenge
    MaxChallengeLifetime,
    ClockSkew,          \* CHALLENGE_CLOCK_SKEW
    RelayAhead,         \* how far ahead the relay's clock may run
    MaxTime,            \* bound on the clock
    MaxIdentity,        \* bound on identity generations
    MaxCrashes          \* bound on processes dying inside a job

ASSUME NoneAssumption ==
    /\ Nobody \notin Workers
    /\ NoPairing \notin [expires : Nat, attempts : Nat, device : Nat]
    /\ NoPeer \notin [key : Keys, revoked : BOOLEAN, device : Nat]
    /\ NoChallenge \notin Challenges
    /\ NoChallenge \notin [audience : Nat, issued : Nat, expires : Nat]
ASSUME BoundAssumption ==
    /\ PairingAttempts \in Nat \ {0}
    /\ PairingTTLs \subseteq Nat \ {0}
    /\ ChallengeTTLs \subseteq Nat \ {0}
    /\ MaxChallengeLifetime \in Nat
    /\ ClockSkew \in Nat
    /\ RelayAhead \in Nat
    /\ MaxTime \in Nat
    /\ MaxIdentity \in Nat
    /\ MaxCrashes \in Nat

VARIABLES
    now,          \* the wall clock
    lock,         \* who holds the flock
    identity,     \* generation in identity.json
    state,        \* contents of state.json
    audit,        \* records in audit.jsonl that claim an enrolment
    job,          \* what each process still has to do
    minted,       \* pairing ids already drawn
    issued,       \* challenges relays have issued
    crashes,      \* jobs that died
    enrolments,   \* history: durable enrolments through each pairing
    completions,  \* history: durable enrolments answering each challenge
    guesses,      \* history: "wrong code" verdicts given for each pairing
    receipts,     \* history: receipts handed out
    setBack       \* history: whether the wall clock was ever set back

disk == <<identity, state, audit>>
history == <<enrolments, completions, guesses, receipts, setBack>>
vars == <<now, lock, disk, job, minted, issued, crashes, history>>

------------------------------------------------------------------------------
(* state.json.  The field "device" of a pairing or a peer is not in the    *)
(* file: it records the identity under which the entry was made.           *)

PairingRecord == [expires : Nat, attempts : Nat, device : Nat]
PeerRecord == [key : Keys, revoked : BOOLEAN, device : Nat]
ChallengeRecord == [audience : Nat, issued : Nat, expires : Nat]

State == [pairings : [Pairings -> PairingRecord \cup {NoPairing}],
          peers    : [Peers -> PeerRecord \cup {NoPeer}],
          used     : SUBSET Challenges]

EmptyState == [pairings |-> [p \in Pairings |-> NoPairing],
               peers    |-> [q \in Peers |-> NoPeer],
               used     |-> {}]

Offered(s, p) == s.pairings[p] # NoPairing
Active(s, q) == s.peers[q] # NoPeer /\ ~s.peers[q].revoked

(* File effects, audit subjects and answers. *)

Events == {"pairing.created", "pairing.consumed", "relay.challenge.signed",
           "relay.enrollment.completed", "peer.revoked", "identity.created",
           "identity.rotated"}
Record == [event : Events, outcome : {"success", "rejected"},
           subject : Pairings \cup Challenges \cup Peers \cup Nat]

Effect == [file : {"identity"}, content : Nat]
          \cup [file : {"state"}, content : State]
          \cup [file : {"audit"}, content : Record]

Enrolled == [kind : {"enrolled"}, pairing : Pairings, peer : Peers, key : Keys,
             challenge : Challenges \cup {NoChallenge}, device : Nat]
Answer == [kind : {"none", "done", "refused"}]
          \cup [kind : {"wrong_code"}, pairing : Pairings]
          \cup Enrolled

Done == [kind |-> "done"]
Refused == [kind |-> "refused"]
WrongCode(p) == [kind |-> "wrong_code", pairing |-> p]
Idle == [plan |-> <<>>, answer |-> [kind |-> "none"]]

SetIdentity(g) == [file |-> "identity", content |-> g]
SetState(s) == [file |-> "state", content |-> s]
Audit(e, o, x) ==
    [file |-> "audit", content |-> [event |-> e, outcome |-> o, subject |-> x]]

Init ==
    /\ now = 0
    /\ lock = Nobody
    /\ identity = 0
    /\ state = EmptyState
    /\ audit = {}
    /\ job = [w \in Workers |-> Idle]
    /\ minted = {}
    /\ issued = [c \in Challenges |-> NoChallenge]
    /\ crashes = 0
    /\ enrolments = [p \in Pairings |-> 0]
    /\ completions = [c \in Challenges |-> 0]
    /\ guesses = [p \in Pairings |-> 0]
    /\ receipts = {}
    /\ setBack = FALSE

------------------------------------------------------------------------------
(* Pure operations on the loaded state document. *)

Expired(deadline, t) == deadline <= t

(* _prune_expired_locked and _prune_used_challenges_locked *)
PruneExpired(s, t) ==
    [s EXCEPT !.pairings = [p \in Pairings |->
        IF Offered(s, p) /\ Expired(s.pairings[p].expires, t)
        THEN NoPairing ELSE s.pairings[p]]]

(* Definitions marked "defect:" are not part of the model: each is a       *)
(* variant of the definition after it with a plausible mistake in it.      *)

(* defect: a used challenge is forgotten while it can still be answered *)
PruneUsedEarly(s, t) ==
    [s EXCEPT !.used = {c \in @ : issued[c].expires > t + 1}]

PruneUsedChallenges(s, t) ==
    [s EXCEPT !.used = {c \in @ : ~Expired(issued[c].expires, t)}]

ClosePairing(s, p) == [s EXCEPT !.pairings[p] = NoPairing]

(* defect: the offer outlives its last attempt *)
SpendAttemptOneMore(s, p) ==
    IF s.pairings[p].attempts = 0
    THEN ClosePairing(s, p)
    ELSE [s EXCEPT !.pairings[p].attempts = @ - 1]

(* a wrong code costs an attempt, the last one closes the offer *)
SpendAttempt(s, p) ==
    IF s.pairings[p].attempts - 1 <= 0
    THEN ClosePairing(s, p)
    ELSE [s EXCEPT !.pairings[p].attempts = @ - 1]

(* defect: the offer is left open *)
EnrollPeerKeepOffer(s, p, q, k, d) ==
    [s EXCEPT !.peers[q] = [key |-> k, revoked |-> FALSE, device |-> d]]

(* defect: a revoked peer is revived with the key it had *)
EnrollPeerOldKey(s, p, q, k, d) ==
    [s EXCEPT !.pairings[p] = NoPairing,
              !.peers[q] = [key |-> IF @ = NoPeer THEN k ELSE @.key,
                            revoked |-> FALSE, device |-> d]]

EnrollPeer(s, p, q, k, d) ==
    [s EXCEPT !.pairings[p] = NoPairing,
              !.peers[q] = [key |-> k, revoked |-> FALSE, device |-> d]]

(* _consume_pairing_locked: the verdict on an offer, in the code's order *)
Consumable(s, p, t) == Offered(s, p) /\ ~Expired(s.pairings[p].expires, t)

Verdict(s, p, codeOk, q, t) ==
    CASE ~Consumable(s, p, t) -> "closed"
      [] Consumable(s, p, t) /\ ~codeOk -> "wrong_code"
      [] Consumable(s, p, t) /\ codeOk /\ Active(s, q) -> "conflict"
      [] OTHER -> "enrolled"

AfterVerdict(s, v, p, q, k, d) ==
    CASE v = "wrong_code" -> SpendAttempt(s, p)
      [] v = "enrolled" -> EnrollPeer(s, p, q, k, d)
      [] OTHER -> ClosePairing(s, p)

VerdictAnswer(v, p, q, k, c, d) ==
    CASE v = "wrong_code" -> WrongCode(p)
      [] v = "enrolled" ->
            [kind |-> "enrolled", pairing |-> p, peer |-> q, key |-> k,
             challenge |-> c, device |-> d]
      [] OTHER -> Refused

(* _validate_relay_challenge *)
ValidChallenge(c, d, t) ==
    /\ issued[c] # NoChallenge
    /\ issued[c].audience = d
    /\ issued[c].issued < issued[c].expires
    /\ issued[c].expires - issued[c].issued <= MaxChallengeLifetime
    /\ issued[c].issued <= t + ClockSkew
    /\ ~Expired(issued[c].expires, t)

------------------------------------------------------------------------------
(* Taking the lock and deciding. *)

(* defect: the lock is shared *)
LockShared(w) == TRUE

(* _locked: flock(LOCK_EX) is granted to one process at a time *)
LockGranted(w) == lock = Nobody

(* _ensure_identity_locked creates generation 1 when there is none *)
Device == IF identity = 0 THEN 1 ELSE identity
EnsureIdentity ==
    IF identity = 0
    THEN <<SetIdentity(1), Audit("identity.created", "success", 1)>>
    ELSE <<>>

Start(w, plan, answer) ==
    /\ job[w] = Idle
    /\ LockGranted(w)
    /\ lock' = w
    /\ job' = [job EXCEPT ![w] = [plan |-> EnsureIdentity \o plan,
                                  answer |-> answer]]
    /\ UNCHANGED <<now, disk, issued, crashes, history>>

(* identity, sign and list_peers change nothing else *)
ReadIdentity(w) == Start(w, <<>>, Done) /\ UNCHANGED minted

NewPairing(s, p, ttl) ==
    [PruneExpired(s, now) EXCEPT
        !.pairings[p] = [expires  |-> now + ttl,
                         attempts |-> PairingAttempts,
                         device   |-> Device]]

CreatePairing(w, p, ttl) ==
    /\ p \notin minted
    /\ minted' = minted \cup {p}
    /\ Start(w, <<SetState(NewPairing(state, p, ttl)),
                  Audit("pairing.created", "success", p)>>, Done)

(* defect: the audit first *)
ConsumePlanAuditFirst(s, v, p) ==
    <<Audit("pairing.consumed",
            IF v = "enrolled" THEN "success" ELSE "rejected", p),
      SetState(s)>>

(* what follows the lookup of a pairing: one state write, then the audit *)
ConsumePlan(s, v, p) ==
    <<SetState(s),
      Audit("pairing.consumed",
            IF v = "enrolled" THEN "success" ELSE "rejected", p)>>

ConsumePairing(w, p, codeOk, q, k) ==
    LET v == Verdict(state, p, codeOk, q, now)
        s == AfterVerdict(state, v, p, q, k, Device)
    IN  /\ Start(w, ConsumePlan(s, v, p),
                 VerdictAnswer(v, p, q, k, NoChallenge, Device))
        /\ UNCHANGED minted

SignRelayChallenge(w, c) ==
    /\ IF ValidChallenge(c, Device, now)
       THEN Start(w, <<Audit("relay.challenge.signed", "success", c)>>, Done)
       ELSE Start(w, <<>>, Refused)
    /\ UNCHANGED minted

(* complete_relay_enrollment, once the challenge is valid and unused and   *)
(* the peer's proof verifies                                               *)
CompletedState(s, v, c, p, q, k) ==
    IF v = "enrolled"
    THEN [AfterVerdict(s, v, p, q, k, Device) EXCEPT !.used = @ \cup {c}]
    ELSE AfterVerdict(s, v, p, q, k, Device)

CompletePlan(s, v, c, p) ==
    ConsumePlan(s, v, p) \o
    (IF v = "enrolled"
     THEN <<Audit("relay.enrollment.completed", "success", c)>> ELSE <<>>)

CompleteRelayEnrollment(w, c, p, codeOk, q, k, proofOk) ==
    LET pruned == PruneUsedChallenges(state, now)
        v == Verdict(pruned, p, codeOk, q, now)
    IN  /\ IF ~ValidChallenge(c, Device, now) \/ c \in pruned.used
           THEN Start(w, <<>>, Refused)
           ELSE IF ~proofOk
           THEN Start(w, <<Audit("relay.enrollment.completed", "rejected", c)>>,
                      Refused)
           ELSE Start(w, CompletePlan(CompletedState(pruned, v, c, p, q, k),
                                      v, c, p),
                      VerdictAnswer(v, p, q, k, c, Device))
        /\ UNCHANGED minted

RevokePeer(w, q) ==
    /\ IF Active(state, q)
       THEN Start(w, <<SetState([state EXCEPT !.peers[q].revoked = TRUE]),
                       Audit("peer.revoked", "success", q)>>, Done)
       ELSE Start(w, <<>>, Refused)
    /\ UNCHANGED minted

(* defect: only the key is replaced *)
RotatePlanKeyOnly(d) ==
    <<SetIdentity(d), Audit("identity.created", "success", d),
      Audit("identity.rotated", "success", d)>>

(* rotate_identity replaces the key file first and the state file second *)
RotatePlan(d) ==
    <<SetIdentity(d), Audit("identity.created", "success", d),
      SetState(EmptyState), Audit("identity.rotated", "success", d)>>

RotateIdentity(w) ==
    /\ Device < MaxIdentity
    /\ Start(w, RotatePlan(Device + 1), Done)
    /\ UNCHANGED minted

------------------------------------------------------------------------------
(* Carrying a job out. *)

Next1(w, file) == job[w].plan # <<>> /\ Head(job[w].plan).file = file
Content(w) == Head(job[w].plan).content
Advance(w) == job' = [job EXCEPT ![w].plan = Tail(@)]

(* _write_json writes a temporary file and renames it over the old one *)
WriteIdentity(w) ==
    /\ Next1(w, "identity")
    /\ identity' = Content(w)
    /\ Advance(w)
    /\ UNCHANGED <<now, lock, state, audit, minted, issued, crashes, history>>

WriteState(w) ==
    LET a == job[w].answer
    IN  /\ Next1(w, "state")
        /\ state' = Content(w)
        /\ Advance(w)
        /\ enrolments' = IF a.kind = "enrolled"
                         THEN [enrolments EXCEPT ![a.pairing] = @ + 1]
                         ELSE enrolments
        /\ completions' = IF a.kind = "enrolled" /\ a.challenge # NoChallenge
                          THEN [completions EXCEPT ![a.challenge] = @ + 1]
                          ELSE completions
        /\ UNCHANGED <<now, lock, identity, audit, minted, issued, crashes,
                       guesses, receipts, setBack>>

(* _audit_locked appends one record; those that do not claim an enrolment *)
(* are not remembered *)
ClaimsEnrolment(r) ==
    /\ r.outcome = "success"
    /\ r.event \in {"pairing.consumed", "relay.enrollment.completed"}

AppendAudit(w) ==
    /\ Next1(w, "audit")
    /\ audit' = IF ClaimsEnrolment(Content(w))
                THEN audit \cup {Content(w)} ELSE audit
    /\ Advance(w)
    /\ UNCHANGED <<now, lock, identity, state, minted, issued, crashes, history>>

(* the finally clause of _locked, then the result reaches the caller *)
Return(w) ==
    LET a == job[w].answer
    IN  /\ job[w] # Idle /\ job[w].plan = <<>>
        /\ lock' = Nobody
        /\ job' = [job EXCEPT ![w] = Idle]
        /\ guesses' = IF a.kind = "wrong_code"
                      THEN [guesses EXCEPT ![a.pairing] = @ + 1] ELSE guesses
        /\ receipts' = IF a.kind = "enrolled"
                       THEN receipts \cup {a} ELSE receipts
        /\ UNCHANGED <<now, disk, minted, issued, crashes, enrolments,
                       completions, setBack>>

(* the process dies: the kernel drops its flock, the files stay *)
Crash(w) ==
    /\ job[w] # Idle
    /\ crashes < MaxCrashes
    /\ crashes' = crashes + 1
    /\ lock' = Nobody
    /\ job' = [job EXCEPT ![w] = Idle]
    /\ UNCHANGED <<now, disk, minted, issued, history>>

------------------------------------------------------------------------------
(* The environment: relays that issue challenges, and the wall clock. *)

(* create_relay_challenge, for a device identity the relay was told *)
IssueChallenge(c, d, ttl, ahead) ==
    /\ issued[c] = NoChallenge
    /\ ttl <= MaxChallengeLifetime
    /\ issued' = [issued EXCEPT ![c] = [audience |-> d, issued |-> now + ahead,
                                        expires |-> now + ahead + ttl]]
    /\ UNCHANGED <<now, lock, disk, job, minted, crashes, history>>

Tick ==
    /\ now < MaxTime
    /\ now' = now + 1
    /\ UNCHANGED <<lock, disk, job, minted, issued, crashes, history>>

StepBack ==
    /\ now > 0
    /\ now' = now - 1
    /\ setBack' = TRUE
    /\ UNCHANGED <<lock, disk, job, minted, issued, crashes, enrolments,
                   completions, guesses, receipts>>

Decide(w) ==
    \/ ReadIdentity(w)
    \/ \E p \in Pairings, ttl \in PairingTTLs : CreatePairing(w, p, ttl)
    \/ \E p \in Pairings, codeOk \in BOOLEAN, q \in Peers, k \in Keys :
          ConsumePairing(w, p, codeOk, q, k)
    \/ \E c \in Challenges : SignRelayChallenge(w, c)
    \/ \E c \in Challenges, p \in Pairings, codeOk \in BOOLEAN, q \in Peers,
          k \in Keys, proofOk \in BOOLEAN :
          CompleteRelayEnrollment(w, c, p, codeOk, q, k, proofOk)
    \/ \E q \in Peers : RevokePeer(w, q)
    \/ RotateIdentity(w)

Perform(w) == WriteIdentity(w) \/ WriteState(w) \/ AppendAudit(w) \/ Return(w)

Next ==
    \/ \E w \in Workers : Decide(w) \/ Perform(w) \/ Crash(w)
    \/ \E c \in Challenges, d \in 1..identity, ttl \in ChallengeTTLs,
          ahead \in 0..RelayAhead : IssueChallenge(c, d, ttl, ahead)
    \/ Tick
    \/ StepBack

Spec == Init /\ [][Next]_vars

------------------------------------------------------------------------------
(* Properties. *)

(* Every variable keeps its shape. *)
TypeOK ==
    /\ now \in Nat
    /\ lock \in Workers \cup {Nobody}
    /\ identity \in Nat
    /\ state \in State
    /\ audit \subseteq Record
    /\ job \in [Workers -> [plan : Seq(Effect), answer : Answer]]
    /\ minted \subseteq Pairings
    /\ issued \in [Challenges -> ChallengeRecord \cup {NoChallenge}]
    /\ crashes \in Nat
    /\ enrolments \in [Pairings -> Nat]
    /\ completions \in [Challenges -> Nat]
    /\ guesses \in [Pairings -> Nat]
    /\ receipts \subseteq Enrolled
    /\ setBack \in BOOLEAN

(* A pairing offer enrolls at most one peer once, whatever the crashes,    *)
(* the interleaving of processes and the revocations in between            *)
(* (_consume_pairing_locked deletes it in the write that adds the peer).   *)
PairingOnce == \A p \in Pairings : enrolments[p] <= 1

(* No more than PAIRING_ATTEMPTS wrong codes are ever answered as such for *)
(* one pairing: the spent attempt is on disk before the caller learns the  *)
(* verdict, so killing the process cannot buy a guess.                     *)
GuessBound == \A p \in Pairings : guesses[p] <= PairingAttempts

(* A relay challenge completes at most one enrollment, although used ids   *)
(* are forgotten at their expiry and wiped by a rotation, as long as the   *)
(* clock is never set back.                                                *)
ChallengeOnceUnlessSetBack ==
    ~setBack => \A c \in Challenges : completions[c] <= 1

(* The audit trail never runs ahead of the state: a success record for a   *)
(* pairing or a challenge is only there once the enrollment is on disk.    *)
AuditFollowsState ==
    \A r \in audit : r.outcome = "success" =>
        /\ r.event = "pairing.consumed" => enrolments[r.subject] > 0
        /\ r.event = "relay.enrollment.completed" =>
               completions[r.subject] > 0

(* While nobody is inside the store, every offer and every peer on disk    *)
(* was made under the identity on disk (rotate_identity clears them all).  *)
RotationClears ==
    lock = Nobody =>
        /\ \A p \in Pairings :
               Offered(state, p) => state.pairings[p].device = identity
        /\ \A q \in Peers :
               state.peers[q] # NoPeer => state.peers[q].device = identity

(* The same, when no process has died inside a job. *)
RotationClearsUnlessCrash == crashes = 0 => RotationClears

(* A receipt is only handed out while the peer it names is on disk, active *)
(* and with that key, under the identity that signed it.                   *)
ReceiptBacked ==
    [][\A r \in receipts' \ receipts :
          /\ state.peers[r.peer] =
                [key |-> r.key, revoked |-> FALSE, device |-> r.device]
          /\ r.device = identity]_vars

==============================================================================
