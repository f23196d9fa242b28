-------------------------- MODULE EnrollmentExchange --------------------------
(***************************************************************************)
(* One device and its relays enrolling with each other by files that an    *)
(* operator carries: the device's pairing offer goes to a relay, which     *)
(* answers with an enrollment request for a fresh challenge; the request   *)
(* goes back to the device, which answers with a signed receipt; the       *)
(* receipt goes to the relay, which puts the device on its allowlist.      *)
(*                                                                         *)
(* A file may be copied to several places, be delivered late, twice or     *)
(* never: every file ever written can be handed in at any time.  The       *)
(* device is a PairingLedger (EnrollmentLedger shows that EnrollmentStore  *)
(* is one) with its used challenges; each relay is a RelayLedger, as       *)
(* RelayConfiguration is.  A command holds its lock from beginning to end, *)
(* so it is one step here, cut short where a crash leaves one file changed *)
(* and the next one not.  Codes and signatures are right or the file would *)
(* have been refused; a relay's peer id stands for its key.                *)
(***************************************************************************)
EXTENDS PairingLedger

CONSTANTS
    Challenges,      \* challenge ids, each drawn at most once
    NoChallenge,
    MaxGeneration,   \* bound on identity rotations
    MaxCuts          \* bound on commands cut short

Relays == Peers
Generations == 1..MaxGeneration

ASSUME ExchangeAssumption ==
    /\ Keys = Relays            \* a relay's peer id stands for its key
    /\ NoChallenge \notin [relay : Relays, pairing : Pairings,
                           device : Nat, lapsed : BOOLEAN]
    /\ MaxGeneration \in Nat \ {0}
    /\ MaxCuts \in Nat

VARIABLES
    identity,    \* the device's identity generation
    offerFiles,  \* pairing offers given out: the pairing and the identity
    made,        \* challenges relays have made, and whether each has lapsed
    requests,    \* challenges whose request file exists
    used,        \* used_challenges of the device
    receipts,    \* receipts the device has given out
    relays,      \* each relay's pending challenges and allowlist
    cuts,        \* commands cut short
    enrolled,    \* history: challenges that made their relay a peer
    imported,    \* history: receipts each relay has imported
    revoked      \* history: relays whose enrollment was revoked or cleared

device == <<ledger, identity, used, receipts>>
vars == <<device, offerFiles, made, requests, relays, cuts,
          enrolled, imported, revoked>>

Challenge == [relay : Relays, pairing : Pairings, device : Generations,
              lapsed : BOOLEAN]
Relay == [pending : SUBSET Challenges, devices : SUBSET Generations]

Init ==
    /\ LedgerInit
    /\ identity = 1
    /\ offerFiles = {}
    /\ made = [c \in Challenges |-> NoChallenge]
    /\ requests = {}
    /\ used = {}
    /\ receipts = {}
    /\ relays = [r \in Relays |-> [pending |-> {}, devices |-> {}]]
    /\ cuts = 0
    /\ enrolled = {}
    /\ imported = [r \in Relays |-> {}]
    /\ revoked = {}

(* a command may end early: it dies, or its next write fails *)
Cut == cuts < MaxCuts /\ cuts' = cuts + 1
Whole == UNCHANGED cuts

------------------------------------------------------------------------------
(* The device.  Definitions marked "defect:" are not part of the model:    *)
(* each is a variant of the definition after it with a plausible mistake   *)
(* in it.                                                                  *)

(* create_pairing: the offer is on disk before its code is printed *)
CreatePairing(p, ended) ==
    /\ MakeOffer(p, ended)
    /\ \/ /\ offerFiles' = offerFiles \cup {[pairing |-> p, device |-> identity]}
          /\ Whole
       \/ UNCHANGED offerFiles /\ Cut
    /\ UNCHANGED <<identity, used, receipts, made, requests, relays,
                   enrolled, imported, revoked>>

(* an offer expires, or wrong codes use up its attempts *)
OfferEnds(p) ==
    /\ Open(p)
    /\ CloseOffers({p})
    /\ UNCHANGED <<identity, used, receipts, offerFiles, made, requests, relays,
                   cuts, enrolled, imported, revoked>>

(* _validate_relay_challenge and the replay check *)
Answerable(c) ==
    /\ made[c].device = identity
    /\ ~made[c].lapsed
    /\ c \notin used

(* used_challenges once those that have lapsed are dropped *)
StillUsed == {c \in used : ~made[c].lapsed}

(* defect: whatever offer is open is used up *)
EnrollByAnyOffer(c) ==
    \E p \in Pairings : Open(p) /\ Enroll(p, made[c].relay, made[c].relay)

EnrollBy(c) == Enroll(made[c].pairing, made[c].relay, made[c].relay)

(* complete_relay_enrollment where the offer and the relay pass: one write *)
(* enrolls the peer and marks the challenge; the receipt follows, unless   *)
(* the command dies first                                                  *)
CompleteEnrollment(c) ==
    /\ c \in requests /\ Answerable(c)
    /\ EnrollBy(c)
    /\ used' = StillUsed \cup {c}
    /\ enrolled' = enrolled \cup {c}
    /\ revoked' = revoked \ {made[c].relay}
    /\ \/ receipts' = receipts \cup {c} /\ Whole
       \/ UNCHANGED receipts /\ Cut
    /\ UNCHANGED <<identity, offerFiles, made, requests, relays, imported>>

(* the same where the offer is closed or the relay is a peer already: the  *)
(* offer is used up and there is no receipt                                *)
RejectEnrollment(c) ==
    /\ c \in requests /\ Answerable(c)
    /\ ~Open(made[c].pairing) \/ IsActive(made[c].relay)
    /\ CloseOffers({made[c].pairing})
    /\ used' = StillUsed
    /\ UNCHANGED <<identity, receipts, offerFiles, made, requests, relays, cuts,
                   enrolled, imported, revoked>>

RevokePeer(r) ==
    /\ Revoke(r)
    /\ revoked' = revoked \cup {r}
    /\ UNCHANGED <<identity, used, receipts, offerFiles, made, requests, relays,
                   cuts, enrolled, imported>>

(* rotate_identity: the key first; cut short, everything else stays *)
RotateIdentity ==
    /\ identity < MaxGeneration
    /\ identity' = identity + 1
    /\ \/ /\ ClearLedger
          /\ used' = {}
          /\ revoked' = Relays
          /\ Whole
       \/ UNCHANGED <<ledger, used, revoked>> /\ Cut
    /\ UNCHANGED <<receipts, offerFiles, made, requests, relays, enrolled,
                   imported>>

------------------------------------------------------------------------------
(* The relays. *)

(* create_enrollment_request: the request file first, then the state with  *)
(* the pending challenge.  The relay refuses an offer past its expiry; an  *)
(* offer may also have ended early, which only the device can tell, and    *)
(* here the device tells for both.                                         *)
CreateEnrollmentRequest(r, c, o) ==
    /\ made[c] = NoChallenge
    /\ made' = [made EXCEPT ![c] = [relay |-> r, pairing |-> o.pairing,
                                    device |-> o.device, lapsed |-> FALSE]]
    /\ requests' = requests \cup {c}
    /\ \/ relays' = [relays EXCEPT ![r].pending = @ \cup {c}] /\ Whole
       \/ UNCHANGED relays /\ Cut
    /\ UNCHANGED <<device, offerFiles, enrolled, imported, revoked>>

(* defect: the receipt is not matched with a challenge of this relay *)
MatchesAnyRelay(r, c) == c \in receipts

(* defect: a receipt may be handed in again *)
MatchesAgain(r, c) == c \in receipts /\ made[c].relay = r

(* the receipt names this relay and one of its pending challenges *)
Matches(r, c) == c \in receipts /\ made[c].relay = r /\ c \in relays[r].pending

(* defect: an import forgets every pending challenge *)
ReceiptTakenAll(r, c) ==
    [relays EXCEPT ![r] = [pending |-> {},
                           devices |-> @.devices \cup {made[c].device}]]

ReceiptTaken(r, c) ==
    [relays EXCEPT ![r] = [pending |-> @.pending \ {c},
                           devices |-> @.devices \cup {made[c].device}]]

(* add_receipt: the allowlist first, then the state *)
AddReceipt(r, c) ==
    /\ Matches(r, c)
    /\ imported' = [imported EXCEPT ![r] = @ \cup {c}]
    /\ \/ relays' = ReceiptTaken(r, c) /\ Whole
       \/ relays' = [relays EXCEPT ![r].devices = @ \cup {made[c].device}] /\ Cut
    /\ UNCHANGED <<device, offerFiles, made, requests, enrolled, revoked>>

RemoveDevice(r, d) ==
    /\ d \in relays[r].devices
    /\ relays' = [relays EXCEPT ![r].devices = @ \ {d}]
    /\ UNCHANGED <<device, offerFiles, made, requests, cuts, enrolled, imported,
                   revoked>>

(* a challenge reaches its expiry *)
Lapse(c) ==
    /\ made[c] # NoChallenge /\ ~made[c].lapsed
    /\ made' = [made EXCEPT ![c].lapsed = TRUE]
    /\ UNCHANGED <<device, offerFiles, requests, relays, cuts, enrolled,
                   imported, revoked>>

------------------------------------------------------------------------------
DeviceStep ==
    \/ \E p \in Pairings, ended \in SUBSET Pairings : CreatePairing(p, ended)
    \/ \E p \in Pairings : OfferEnds(p)
    \/ \E c \in Challenges : CompleteEnrollment(c) \/ RejectEnrollment(c)
    \/ \E r \in Relays : RevokePeer(r)
    \/ RotateIdentity

RelayStep(r) ==
    \/ \E c \in Challenges, o \in offerFiles : CreateEnrollmentRequest(r, c, o)
    \/ \E c \in Challenges : AddReceipt(r, c)
    \/ \E d \in Generations : RemoveDevice(r, d)

Next ==
    \/ DeviceStep
    \/ \E r \in Relays : RelayStep(r)
    \/ \E c \in Challenges : Lapse(c)

ExchangeSpec == Init /\ [][Next]_vars

------------------------------------------------------------------------------
(* Properties. *)

(* Every variable keeps its shape; a receipt is only given for an          *)
(* enrollment.                                                             *)
TypeOK ==
    /\ offers \in [Pairings -> {"unmade", "open", "closed"}]
    /\ peers \in [Peers -> [key : Keys, revoked : BOOLEAN] \cup {NoPeer}]
    /\ identity \in Generations
    /\ offerFiles \subseteq [pairing : Pairings, device : Generations]
    /\ made \in [Challenges -> Challenge \cup {NoChallenge}]
    /\ requests \subseteq Challenges
    /\ used \subseteq enrolled
    /\ receipts \subseteq enrolled
    /\ relays \in [Relays -> Relay]
    /\ cuts \in Nat
    /\ enrolled \subseteq Challenges
    /\ imported \in [Relays -> SUBSET receipts]
    /\ revoked \subseteq Relays

(* An offer file copied to several relays, or used by one relay for        *)
(* several requests, lists the device at one relay by one receipt at most. *)
OneRelayPerOffer ==
    \A r1, r2 \in Relays : \A c1 \in imported[r1], c2 \in imported[r2] :
        made[c1].pairing = made[c2].pairing => r1 = r2 /\ c1 = c2

(* A relay that lists the device under its present identity is a peer of   *)
(* the device, unless the device revoked it since it was last enrolled:    *)
(* revocation and rotation are the only ways the two sides come apart.     *)
ListedIsPeerUnlessRevoked ==
    \A r \in Relays :
        identity \in relays[r].devices => IsActive(r) \/ r \in revoked

(* An active peer can still be, or was, listed by its receipt: the receipt *)
(* was given out and its challenge is pending at the relay until it is     *)
(* imported.  A command cut short may lose the receipt, or the pending     *)
(* challenge; then only revoking the peer and starting over helps.         *)
EnrollableUnlessCut ==
    cuts = 0 => \A r \in Relays : IsActive(r) =>
        \E c \in receipts : /\ made[c].relay = r
                            /\ made[c].device = identity
                            /\ c \in relays[r].pending \cup imported[r]

(* Each relay, by itself, is the RelayLedger that RelayConfiguration was    *)
(* shown to be, whatever the device and the other relays do with the same  *)
(* files.                                                                  *)
MadeFor(r) ==
    [c \in Challenges |-> IF made[c] = NoChallenge \/ made[c].relay # r THEN 0
                          ELSE made[c].device]

Side(r) == INSTANCE RelayLedger WITH
    Devices <- Generations,
    NoDevice <- 0,
    target <- MadeFor(r),
    pending <- relays[r].pending,
    consumed <- imported[r] \ relays[r].pending,
    receipts <- {c \in receipts : made[c].relay = r},
    allowed <- relays[r].devices

RelaysAreLedgers ==
    /\ \A r \in Relays : Side(r)!Init
    /\ [][\A r \in Relays : [Side(r)!Next]_(Side(r)!vars)]_vars

==============================================================================
