----------------------- MODULE EnrollmentExchangeProofs -----------------------
(* Theorems about EnrollmentExchange for every set of relays, pairings and  *)
(* challenges, any number of rotations and of commands cut short.           *)
EXTENDS EnrollmentExchange, TLAPS

USE LedgerAssumption, ExchangeAssumption

(* Only challenges that have been made are requested, awaited, enrolled or  *)
(* imported, each by its own relay.                                         *)
Traced ==
    /\ \A c \in requests : made[c] \in Challenge
    /\ enrolled \subseteq requests
    /\ \A r \in Relays : relays[r].pending \subseteq requests
    /\ \A r \in Relays : \A c \in imported[r] \cup relays[r].pending : made[c].relay = r

(* The identities that offers, challenges and relays know of the device are *)
(* its present one or older ones.                                           *)
NoFutureIdentity ==
    /\ \A o \in offerFiles : o.device <= identity
    /\ \A c \in requests : made[c].device <= identity
    /\ \A r \in Relays : \A d \in relays[r].devices : d <= identity

(* An enrollment used up its offer, and no two used the same one.           *)
OfferUsedUp ==
    /\ \A c \in enrolled : offers[made[c].pairing] = "closed"
    /\ \A c1, c2 \in enrolled : made[c1].pairing = made[c2].pairing => c1 = c2

(* A relay enrolled under the present identity is a peer, or was revoked.   *)
EnrolledIsPeer ==
    \A c \in enrolled :
        made[c].device = identity =>
            IsActive(made[c].relay) \/ made[c].relay \in revoked

(* While no command has been cut short, a relay knows the challenge of      *)
(* every request of its own.                                                *)
RequestIsKnown ==
    cuts = 0 => \A c \in requests :
        c \in relays[made[c].relay].pending \cup imported[made[c].relay]

IndInv ==
    /\ TypeOK
    /\ Traced
    /\ NoFutureIdentity
    /\ OfferUsedUp
    /\ EnrolledIsPeer
    /\ ListedIsPeerUnlessRevoked
    /\ RequestIsKnown
    /\ EnrollableUnlessCut

(* Nothing has happened yet.                                                *)
LEMMA InitInd == Init => IndInv
  <1> SUFFICES ASSUME Init PROVE IndInv
    OBVIOUS
  <1>1. TypeOK
    BY DEF Init, LedgerInit, NoPeers, TypeOK, Relays, Relay, Generations
  <1>2. \A r \in Relays : /\ relays[r].devices = {} /\ relays[r].pending = {}
                           /\ imported[r] = {} /\ ~IsActive(r)
    BY DEF Init, LedgerInit, NoPeers, IsActive, Relays
  <1>3. requests = {} /\ enrolled = {} /\ offerFiles = {}
    BY DEF Init
  <1> QED
    BY <1>1, <1>2, <1>3 DEF IndInv, Traced, NoFutureIdentity, OfferUsedUp,
       EnrolledIsPeer, ListedIsPeerUnlessRevoked, RequestIsKnown, EnrollableUnlessCut

------------------------------------------------------------------------------
(* The ledger.                                                              *)

(* The offers and the peers keep their shape, and a closed offer stays      *)
(* closed, whatever the ledger does.                                        *)
LedgerOK ==
    /\ offers \in [Pairings -> {"unmade", "open", "closed"}]
    /\ peers \in [Peers -> [key : Keys, revoked : BOOLEAN] \cup {NoPeer}]

ClosedStay == \A p \in Pairings : offers[p] = "closed" => offers'[p] = "closed"

(* A new offer leaves the peers alone.                                      *)
LEMMA MakeOfferFacts ==
    ASSUME LedgerOK, NEW p \in Pairings, NEW ended \in SUBSET Pairings,
           MakeOffer(p, ended)
    PROVE  LedgerOK' /\ ClosedStay /\ peers' = peers
  BY DEF LedgerOK, ClosedStay, MakeOffer, Closing, Open

(* So does closing some.                                                    *)
LEMMA CloseOffersFacts ==
    ASSUME LedgerOK, NEW S \in SUBSET Pairings, CloseOffers(S)
    PROVE  LedgerOK' /\ ClosedStay /\ peers' = peers
  BY DEF LedgerOK, ClosedStay, CloseOffers, Closing

(* An enrolment uses up its open offer, makes its peer active and leaves    *)
(* the other peers alone.                                                   *)
LEMMA EnrollFacts ==
    ASSUME LedgerOK, NEW p \in Pairings, NEW q \in Peers, NEW k \in Keys,
           Enroll(p, q, k)
    PROVE  /\ LedgerOK' /\ ClosedStay
           /\ offers[p] = "open" /\ offers'[p] = "closed"
           /\ IsActive(q)'
           /\ \A x \in Peers \ {q} : peers'[x] = peers[x]
  <1>1. /\ offers[p] = "open"
        /\ offers' = [x \in Pairings |-> IF x \in {p} THEN "closed" ELSE offers[x]]
    BY DEF Enroll, Open, Closing
  <1>2. PICK new : new = [key |-> k, revoked |-> FALSE]
    OBVIOUS
  <1>3. /\ new \in [key : Keys, revoked : BOOLEAN] /\ ~new.revoked
        /\ new # NoPeer
    <2>1. new \in [key : Keys, revoked : BOOLEAN] /\ ~new.revoked
      BY <1>2
    <2> QED
      BY <2>1, LedgerAssumption
  <1>4. peers' = [peers EXCEPT ![q] = new]
    BY <1>2 DEF Enroll
  <1> QED
    BY <1>1, <1>3, <1>4 DEF LedgerOK, ClosedStay, IsActive

(* A revocation ends one peer and leaves the others alone.                  *)
LEMMA RevokeFacts ==
    ASSUME LedgerOK, NEW q \in Peers, Revoke(q)
    PROVE  /\ LedgerOK' /\ ClosedStay
           /\ ~IsActive(q)'
           /\ \A x \in Peers \ {q} : peers'[x] = peers[x]
  <1>1. /\ peers[q] \in [key : Keys, revoked : BOOLEAN] /\ offers' = offers
        /\ peers' = [peers EXCEPT ![q].revoked = TRUE]
    BY DEF LedgerOK, Revoke, IsActive
  <1>2. /\ peers'[q] \in [key : Keys, revoked : BOOLEAN] /\ peers'[q].revoked
        /\ \A x \in Peers \ {q} : peers'[x] = peers[x]
        /\ DOMAIN peers' = Peers
    BY <1>1 DEF LedgerOK
  <1>3. peers' \in [Peers -> [key : Keys, revoked : BOOLEAN] \cup {NoPeer}]
    BY <1>1 DEF LedgerOK
  <1> QED
    BY <1>1, <1>2, <1>3 DEF LedgerOK, ClosedStay, IsActive

(* A cleared ledger has no active peer and no open offer.                   *)
LEMMA ClearLedgerFacts ==
    ASSUME LedgerOK, ClearLedger
    PROVE  LedgerOK' /\ ClosedStay /\ \A q \in Peers : ~IsActive(q)'
  BY DEF LedgerOK, ClosedStay, ClearLedger, Closing, Open, NoPeers, IsActive

------------------------------------------------------------------------------
(* The device.                                                              *)

(* What the invariant says of the shape of the other variables.             *)
LEMMA Shapes ==
    ASSUME IndInv
    PROVE  /\ LedgerOK
           /\ identity \in Nat /\ identity \in Generations /\ cuts \in Nat
           /\ offerFiles \subseteq [pairing : Pairings, device : Generations]
           /\ made \in [Challenges -> Challenge \cup {NoChallenge}]
           /\ requests \subseteq Challenges /\ used \subseteq enrolled
           /\ receipts \subseteq enrolled /\ enrolled \subseteq requests
           /\ relays \in [Relays -> Relay]
           /\ imported \in [Relays -> SUBSET receipts]
           /\ revoked \subseteq Relays
           /\ \A c \in requests : /\ made[c] \in Challenge
                                  /\ made[c].relay \in Relays
                                  /\ made[c].pairing \in Pairings
                                  /\ made[c].device \in Generations
           /\ \A r \in Relays : /\ relays[r].pending \subseteq Challenges
                                /\ relays[r].devices \subseteq Generations
           /\ Generations \subseteq Nat
  BY DEF IndInv, TypeOK, LedgerOK, Traced, Challenge, Relay, Generations

(* A step of the ledger that enrolls and revokes nobody disturbs only the   *)
(* offers, and closed ones stay closed.                                     *)
LEMMA OffersStep ==
    ASSUME IndInv, LedgerOK', ClosedStay, UNCHANGED peers,
           UNCHANGED <<identity, receipts, made, requests, relays, enrolled,
                       imported, revoked>>,
           used' \subseteq used,
           offerFiles' \subseteq
               offerFiles \cup {[pairing |-> p, device |-> identity] : p \in Pairings},
           cuts' \in Nat, cuts' = 0 => cuts = 0
    PROVE  IndInv'
  <1>1. /\ offerFiles' \subseteq [pairing : Pairings, device : Generations]
        /\ \A o \in offerFiles' : o.device <= identity
    BY Shapes DEF IndInv, NoFutureIdentity
  <1>2. TypeOK'
    BY <1>1 DEF IndInv, TypeOK, LedgerOK
  <1>3. OfferUsedUp'
    BY Shapes DEF IndInv, OfferUsedUp, ClosedStay
  <1>4. Traced' /\ NoFutureIdentity' /\ EnrolledIsPeer' /\ ListedIsPeerUnlessRevoked'
        /\ RequestIsKnown' /\ EnrollableUnlessCut'
    BY <1>1 DEF IndInv, Traced, NoFutureIdentity, EnrolledIsPeer, IsActive,
       ListedIsPeerUnlessRevoked, RequestIsKnown, EnrollableUnlessCut
  <1> QED
    BY <1>2, <1>3, <1>4 DEF IndInv

(* Cut short or whole, a command counts its cuts.                           *)
LEMMA CutFacts ==
    ASSUME IndInv, Cut \/ Whole
    PROVE  cuts' \in Nat /\ (cuts' = 0 => cuts = 0 /\ Whole)
  BY Shapes DEF Cut, Whole

(* create_pairing: an offer carries the identity of its day.                *)
LEMMA CreatePairingStep ==
    ASSUME IndInv, NEW p \in Pairings, NEW ended \in SUBSET Pairings,
           CreatePairing(p, ended)
    PROVE  IndInv'
  <1>1. LedgerOK' /\ ClosedStay /\ peers' = peers
    BY Shapes, MakeOfferFacts DEF CreatePairing
  <1>2. cuts' \in Nat /\ (cuts' = 0 => cuts = 0)
    BY CutFacts DEF CreatePairing
  <1>3. /\ UNCHANGED <<identity, used, receipts, made, requests, relays, enrolled,
                       imported, revoked>>
        /\ offerFiles' \subseteq
               offerFiles \cup {[pairing |-> x, device |-> identity] : x \in Pairings}
    BY DEF CreatePairing
  <1> QED
    BY <1>1, <1>2, <1>3, OffersStep

(* An offer expires or is spent on wrong codes: a closed offer enrolls      *)
(* nobody.                                                                  *)
LEMMA OfferEndsStep ==
    ASSUME IndInv, NEW p \in Pairings, OfferEnds(p)
    PROVE  IndInv'
  <1>1. LedgerOK' /\ ClosedStay /\ peers' = peers
    BY Shapes, CloseOffersFacts DEF OfferEnds
  <1>2. /\ UNCHANGED <<identity, used, receipts, offerFiles, made, requests, relays,
                       cuts, enrolled, imported, revoked>>
        /\ cuts \in Nat
    BY Shapes DEF OfferEnds
  <1> QED
    BY <1>1, <1>2, OffersStep

(* A refused enrolment request may spend the offer it named.                *)
LEMMA RejectStep ==
    ASSUME IndInv, NEW c \in Challenges, RejectEnrollment(c)
    PROVE  IndInv'
  <1>1. made[c].pairing \in Pairings
    BY Shapes DEF RejectEnrollment
  <1>2. LedgerOK' /\ ClosedStay /\ peers' = peers
    BY <1>1, Shapes, CloseOffersFacts DEF RejectEnrollment
  <1>3. /\ UNCHANGED <<identity, receipts, offerFiles, made, requests, relays,
                       cuts, enrolled, imported, revoked>>
        /\ used' \subseteq used /\ cuts \in Nat
    BY Shapes DEF RejectEnrollment, StillUsed
  <1> QED
    BY <1>2, <1>3, OffersStep

(* An enrollment uses up an offer nobody has used, and its relay becomes a  *)
(* peer.                                                                    *)
LEMMA CompleteStep ==
    ASSUME IndInv, NEW c \in Challenges, CompleteEnrollment(c)
    PROVE  IndInv'
  <1>1. PICK r, p : r = made[c].relay /\ p = made[c].pairing
    OBVIOUS
  <1>2. /\ c \in requests /\ made[c].device = identity
        /\ Enroll(p, r, r)
        /\ used' = StillUsed \cup {c}
        /\ enrolled' = enrolled \cup {c}
        /\ revoked' = revoked \ {r}
        /\ \/ receipts' = receipts \cup {c} /\ Whole
           \/ receipts' = receipts /\ Cut
        /\ UNCHANGED <<identity, offerFiles, made, requests, relays, imported>>
    BY <1>1 DEF CompleteEnrollment, Answerable, EnrollBy
  <1>3. r \in Relays /\ p \in Pairings
    BY <1>1, <1>2, Shapes
  <1>4. /\ LedgerOK' /\ ClosedStay
        /\ offers[p] = "open" /\ offers'[p] = "closed"
        /\ IsActive(r)'
        /\ \A x \in Relays \ {r} : peers'[x] = peers[x]
    BY <1>2, <1>3, Shapes, EnrollFacts DEF Relays
  <1>5. cuts' \in Nat /\ (cuts' = 0 => cuts = 0 /\ Whole)
    BY <1>2, CutFacts
  <1>6. \A x \in Relays \ {r} : IsActive(x)' <=> IsActive(x)
    BY <1>4 DEF IsActive
  <1>7. TypeOK'
    <2>1. imported' \in [Relays -> SUBSET receipts']
      BY <1>2, Shapes
    <2>2. used' \subseteq enrolled' /\ receipts' \subseteq enrolled'
          /\ enrolled' \subseteq Challenges /\ revoked' \subseteq Relays
      BY <1>2, Shapes DEF StillUsed
    <2> QED
      BY <1>2, <1>4, <1>5, <2>1, <2>2 DEF IndInv, TypeOK, LedgerOK
  <1>8. Traced' /\ NoFutureIdentity'
    BY <1>2 DEF IndInv, Traced, NoFutureIdentity
  <1>9. OfferUsedUp'
    <2>1. \A x \in enrolled : made[x].pairing # p
      BY <1>4 DEF IndInv, OfferUsedUp
    <2>2. \A x \in enrolled : made[x].pairing \in Pairings
      BY Shapes
    <2> QED
      BY <1>1, <1>2, <1>4, <2>1, <2>2 DEF IndInv, OfferUsedUp, ClosedStay
  <1>10. EnrolledIsPeer'
    <2>1. ASSUME NEW x \in enrolled', made[x].device = identity
          PROVE  IsActive(made[x].relay)' \/ made[x].relay \in revoked'
      <3>1. CASE made[x].relay = r
        BY <1>2, <1>4, <3>1 DEF IsActive
      <3>2. CASE made[x].relay # r
        <4>1. x \in enrolled /\ made[x].relay \in Relays \ {r}
          BY <1>1, <1>2, <3>2, Shapes
        <4> QED
          BY <1>2, <1>6, <2>1, <4>1 DEF IndInv, EnrolledIsPeer
      <3> QED
        BY <3>1, <3>2
    <2> QED
      BY <1>2, <2>1 DEF EnrolledIsPeer, IsActive
  <1>11. ListedIsPeerUnlessRevoked'
    BY <1>2, <1>4, <1>6 DEF IndInv, ListedIsPeerUnlessRevoked
  <1>12. RequestIsKnown'
    BY <1>2, <1>5 DEF IndInv, RequestIsKnown
  <1>13. EnrollableUnlessCut'
    <2> SUFFICES ASSUME cuts' = 0, NEW x \in Relays, IsActive(x)'
                 PROVE  \E e \in receipts' : /\ made[e].relay = x
                                             /\ made[e].device = identity
                                             /\ e \in relays[x].pending \cup imported[x]
      BY <1>2 DEF EnrollableUnlessCut
    <2>1. cuts = 0 /\ (receipts' = receipts \cup {c} \/ (receipts' = receipts /\ Cut)) /\ Whole
      BY <1>2, <1>5
    <2>2. receipts' = receipts \cup {c}
      BY <1>2, <2>1, Shapes DEF Cut, Whole
    <2>3. CASE x = r
      BY <1>1, <1>2, <2>1, <2>2, <2>3 DEF IndInv, RequestIsKnown
    <2>4. CASE x # r
      BY <1>6, <2>1, <2>2, <2>4 DEF IndInv, EnrollableUnlessCut
    <2> QED
      BY <2>3, <2>4
  <1> QED
    BY <1>7, <1>8, <1>9, <1>10, <1>11, <1>12, <1>13 DEF IndInv

(* revoke_peer: the relay counts as revoked from then on.                   *)
LEMMA RevokeStep ==
    ASSUME IndInv, NEW r \in Relays, RevokePeer(r)
    PROVE  IndInv'
  <1>1. /\ revoked' = revoked \cup {r}
        /\ UNCHANGED <<identity, used, receipts, offerFiles, made, requests, relays,
                       cuts, enrolled, imported>>
    BY DEF RevokePeer
  <1>2. /\ LedgerOK' /\ ClosedStay /\ ~IsActive(r)'
        /\ \A x \in Relays \ {r} : peers'[x] = peers[x]
    BY Shapes, RevokeFacts DEF RevokePeer, Relays
  <1>3. \A x \in Relays \ {r} : IsActive(x)' <=> IsActive(x)
    BY <1>2 DEF IsActive
  <1>4. TypeOK'
    BY <1>1, <1>2 DEF IndInv, TypeOK, LedgerOK
  <1>5. Traced' /\ NoFutureIdentity' /\ RequestIsKnown'
    BY <1>1 DEF IndInv, Traced, NoFutureIdentity, RequestIsKnown
  <1>6. OfferUsedUp'
    BY <1>1, <1>2, Shapes DEF IndInv, OfferUsedUp, ClosedStay
  <1>7. EnrolledIsPeer'
    <2>1. ASSUME NEW x \in enrolled, made[x].device = identity
          PROVE  IsActive(made[x].relay)' \/ made[x].relay \in revoked'
      BY <1>1, <1>3, <2>1, Shapes DEF IndInv, EnrolledIsPeer
    <2> QED
      BY <1>1, <2>1 DEF EnrolledIsPeer, IsActive
  <1>8. ListedIsPeerUnlessRevoked' /\ EnrollableUnlessCut'
    BY <1>1, <1>2, <1>3 DEF IndInv, ListedIsPeerUnlessRevoked, EnrollableUnlessCut
  <1> QED
    BY <1>4, <1>5, <1>6, <1>7, <1>8 DEF IndInv

(* After a rotation nobody has enrolled the new identity; cut short, the    *)
(* ledger still has the peers of the old one.                               *)
LEMMA RotateStep ==
    ASSUME IndInv, RotateIdentity
    PROVE  IndInv'
  <1>1. /\ identity < MaxGeneration /\ identity' = identity + 1
        /\ UNCHANGED <<receipts, offerFiles, made, requests, relays, enrolled,
                       imported>>
        /\ \/ ClearLedger /\ used' = {} /\ revoked' = Relays /\ Whole
           \/ UNCHANGED <<offers, peers, used, revoked>> /\ Cut
    BY DEF RotateIdentity, ledger
  <1>2. /\ LedgerOK' /\ ClosedStay /\ used' \subseteq used
        /\ revoked' \subseteq Relays
    <2>1. CASE ClearLedger /\ used' = {} /\ revoked' = Relays
      BY <2>1, Shapes, ClearLedgerFacts
    <2>2. CASE UNCHANGED <<offers, peers, used, revoked>>
      BY <2>2, Shapes DEF LedgerOK, ClosedStay
    <2> QED
      BY <1>1, <2>1, <2>2
  <1>3. /\ identity \in Nat /\ identity' \in Generations
        /\ \A x \in Nat : x <= identity => x <= identity' /\ x # identity'
    BY <1>1, Shapes DEF Generations
  <1>4. cuts' \in Nat /\ (cuts' = 0 => cuts = 0 /\ Whole)
    BY <1>1, CutFacts
  <1>5. TypeOK'
    BY <1>1, <1>2, <1>3, <1>4 DEF IndInv, TypeOK, LedgerOK
  <1>6. Traced' /\ RequestIsKnown'
    BY <1>1, <1>4 DEF IndInv, Traced, RequestIsKnown
  <1>7. NoFutureIdentity'
    BY <1>1, <1>3, Shapes DEF IndInv, NoFutureIdentity
  <1>8. OfferUsedUp'
    BY <1>1, <1>2, Shapes DEF IndInv, OfferUsedUp, ClosedStay
  <1>9. \A x \in enrolled : made[x].device # identity'
    BY <1>3, Shapes DEF IndInv, NoFutureIdentity
  <1>10. \A r \in Relays : identity' \notin relays[r].devices
    BY <1>3, Shapes DEF IndInv, NoFutureIdentity
  <1>11. EnrolledIsPeer' /\ ListedIsPeerUnlessRevoked'
    BY <1>1, <1>9, <1>10 DEF EnrolledIsPeer, ListedIsPeerUnlessRevoked
  <1>12. EnrollableUnlessCut'
    <2>1. cuts' = 0 => ClearLedger
      BY <1>1, <1>4, Shapes DEF Cut, Whole
    <2>2. cuts' = 0 => \A r \in Relays : ~IsActive(r)'
      BY <2>1, Shapes, ClearLedgerFacts DEF Relays
    <2> QED
      BY <2>2 DEF EnrollableUnlessCut
  <1> QED
    BY <1>5, <1>6, <1>7, <1>8, <1>11, <1>12 DEF IndInv

------------------------------------------------------------------------------
(* The relays.                                                              *)

(* A relay's answer to an offer is a challenge nobody has seen.             *)
LEMMA RequestStep ==
    ASSUME IndInv, NEW r \in Relays, NEW c \in Challenges, NEW o \in offerFiles,
           CreateEnrollmentRequest(r, c, o)
    PROVE  IndInv'
  <1> DEFINE new == [relay |-> r, pairing |-> o.pairing, device |-> o.device,
                     lapsed |-> FALSE]
  <1>1. /\ made[c] = NoChallenge /\ made' = [made EXCEPT ![c] = new]
        /\ requests' = requests \cup {c}
        /\ \/ relays' = [relays EXCEPT ![r].pending = @ \cup {c}] /\ Whole
           \/ relays' = relays /\ Cut
        /\ UNCHANGED <<offers, peers, identity, used, receipts, offerFiles, enrolled,
                       imported, revoked>>
    BY DEF CreateEnrollmentRequest, device, ledger
  <1>2. /\ new \in Challenge /\ new.relay = r /\ new.device = o.device
        /\ new.device <= identity
    BY Shapes DEF Challenge, IndInv, NoFutureIdentity
  <1>3. NoChallenge \notin Challenge
    <2>1. Challenge \subseteq [relay : Relays, pairing : Pairings, device : Nat,
                               lapsed : BOOLEAN]
      BY Shapes DEF Challenge
    <2> QED
      BY <2>1
  <1>4. c \notin requests
    BY <1>1, <1>3, Shapes
  <1> HIDE DEF new
  <1>5. /\ made' \in [Challenges -> Challenge \cup {NoChallenge}]
        /\ made'[c] = new
        /\ \A x \in requests : made'[x] = made[x]
    BY <1>1, <1>2, <1>4, Shapes
  <1>6. /\ relays' \in [Relays -> Relay]
        /\ \A x \in Relays : /\ relays'[x].devices = relays[x].devices
                             /\ relays[x].pending \subseteq relays'[x].pending
                             /\ relays'[x].pending \subseteq
                                    relays[x].pending \cup IF x = r THEN {c} ELSE {}
        /\ Whole => c \in relays'[r].pending \/ Cut
    <2>1. CASE relays' = [relays EXCEPT ![r].pending = @ \cup {c}]
      BY <2>1, Shapes DEF Relay
    <2>2. CASE relays' = relays /\ Cut
      BY <2>2, Shapes
    <2> QED
      BY <1>1, <2>1, <2>2
  <1>7. cuts' \in Nat /\ (cuts' = 0 => cuts = 0 /\ Whole /\ ~Cut)
    BY <1>1, CutFacts, Shapes DEF Cut, Whole
  <1>8. TypeOK'
    BY <1>1, <1>5, <1>6, <1>7 DEF IndInv, TypeOK
  <1>9. /\ enrolled \subseteq requests /\ receipts \subseteq requests
        /\ \A x \in Relays : imported[x] \subseteq requests
    BY Shapes
  <1>10. Traced'
    <2>1. \A x \in Relays : relays[x].pending \subseteq requests
      BY DEF IndInv, Traced
    <2>2. \A x \in Relays : relays'[x].pending \subseteq requests'
      BY <1>1, <1>6, <2>1
    <2>3. \A x \in Relays : \A e \in imported[x] \cup relays'[x].pending :
             made'[e].relay = x
      BY <1>2, <1>4, <1>5, <1>6, <1>9, <2>1 DEF IndInv, Traced
    <2> QED
      BY <1>1, <1>2, <1>5, <1>9, <2>2, <2>3 DEF IndInv, Traced
  <1>11. NoFutureIdentity'
    BY <1>1, <1>2, <1>5, <1>6 DEF IndInv, NoFutureIdentity
  <1>12. OfferUsedUp' /\ EnrolledIsPeer'
    BY <1>1, <1>5, <1>9 DEF IndInv, OfferUsedUp, EnrolledIsPeer, IsActive
  <1>13. ListedIsPeerUnlessRevoked'
    BY <1>1, <1>6 DEF IndInv, ListedIsPeerUnlessRevoked, IsActive
  <1>14. RequestIsKnown'
    <2> SUFFICES ASSUME cuts' = 0, NEW x \in requests'
                 PROVE  x \in relays'[made'[x].relay].pending \cup imported'[made'[x].relay]
      BY DEF RequestIsKnown
    <2>1. CASE x = c
      BY <1>2, <1>5, <1>6, <1>7, <2>1
    <2>2. CASE x # c
      <3>1. x \in requests /\ made'[x] = made[x] /\ made[x].relay \in Relays
        BY <1>1, <1>5, <2>2, Shapes
      <3>2. x \in relays[made[x].relay].pending \cup imported[made[x].relay]
        BY <1>7, <3>1 DEF IndInv, RequestIsKnown
      <3> QED
        BY <1>1, <1>6, <3>1, <3>2
    <2> QED
      BY <2>1, <2>2
  <1>15. EnrollableUnlessCut'
    <2> SUFFICES ASSUME cuts' = 0, NEW x \in Relays, IsActive(x)'
                 PROVE  \E e \in receipts : /\ made'[e].relay = x
                                            /\ made'[e].device = identity
                                            /\ e \in relays'[x].pending \cup imported[x]
      BY <1>1 DEF EnrollableUnlessCut
    <2>1. IsActive(x) /\ cuts = 0
      BY <1>1, <1>7 DEF IsActive
    <2>2. PICK e \in receipts : /\ made[e].relay = x
                                /\ made[e].device = identity
                                /\ e \in relays[x].pending \cup imported[x]
      BY <2>1 DEF IndInv, EnrollableUnlessCut
    <2> QED
      BY <1>5, <1>6, <1>9, <2>2
  <1> QED
    BY <1>8, <1>10, <1>11, <1>12, <1>13, <1>14, <1>15 DEF IndInv

(* A receipt lists the device it was given for, under the identity that has *)
(* signed it.                                                               *)
LEMMA AddReceiptStep ==
    ASSUME IndInv, NEW r \in Relays, NEW c \in Challenges, AddReceipt(r, c)
    PROVE  IndInv'
  <1>1. /\ c \in receipts /\ made[c].relay = r /\ c \in relays[r].pending
        /\ imported' = [imported EXCEPT ![r] = @ \cup {c}]
        /\ \/ relays' = ReceiptTaken(r, c) /\ Whole
           \/ /\ relays' = [relays EXCEPT ![r].devices = @ \cup {made[c].device}]
              /\ Cut
        /\ UNCHANGED <<offers, peers, identity, used, receipts, offerFiles, made,
                       requests, enrolled, revoked>>
    BY DEF AddReceipt, Matches, device, ledger
  <1>2. PICK d \in Generations : d = made[c].device
    BY <1>1, Shapes
  <1>3. c \in enrolled /\ c \in requests /\ d <= identity
    BY <1>1, <1>2, Shapes DEF IndInv, NoFutureIdentity
  <1>4. /\ relays' \in [Relays -> Relay]
        /\ relays'[r].devices = relays[r].devices \cup {d}
        /\ relays[r].pending \ {c} \subseteq relays'[r].pending
        /\ relays'[r].pending \subseteq relays[r].pending
        /\ \A x \in Relays \ {r} : relays'[x] = relays[x]
    <2>1. CASE relays' = ReceiptTaken(r, c)
      <3>1. relays' = [relays EXCEPT ![r] = [pending |-> relays[r].pending \ {c},
                                             devices |-> relays[r].devices \cup {d}]]
        BY <1>2, <2>1, Shapes DEF ReceiptTaken
      <3> QED
        BY <3>1, Shapes DEF Relay
    <2>2. CASE relays' = [relays EXCEPT ![r].devices = @ \cup {d}]
      BY <2>2, Shapes DEF Relay
    <2> QED
      BY <1>1, <1>2, <2>1, <2>2
  <1>5. /\ imported' \in [Relays -> SUBSET receipts]
        /\ imported'[r] = imported[r] \cup {c}
        /\ \A x \in Relays \ {r} : imported'[x] = imported[x]
    BY <1>1, Shapes
  <1>6. cuts' \in Nat /\ (cuts' = 0 => cuts = 0)
    BY <1>1, CutFacts
  <1>7. TypeOK'
    BY <1>1, <1>4, <1>5, <1>6 DEF IndInv, TypeOK
  <1>8. Traced'
    BY <1>1, <1>4, <1>5 DEF IndInv, Traced
  <1>9. NoFutureIdentity'
    BY <1>1, <1>3, <1>4 DEF IndInv, NoFutureIdentity
  <1>10. OfferUsedUp' /\ EnrolledIsPeer'
    BY <1>1 DEF IndInv, OfferUsedUp, EnrolledIsPeer, IsActive
  <1>11. ListedIsPeerUnlessRevoked'
    <2> SUFFICES ASSUME NEW x \in Relays, identity \in relays'[x].devices
                 PROVE  IsActive(x) \/ x \in revoked
      BY <1>1 DEF ListedIsPeerUnlessRevoked, IsActive
    <2>1. CASE identity \in relays[x].devices
      BY <2>1 DEF IndInv, ListedIsPeerUnlessRevoked
    <2>2. CASE identity \notin relays[x].devices
      <3>1. x = r /\ identity = d
        BY <1>4, <2>2
      <3> QED
        BY <1>1, <1>2, <1>3, <3>1 DEF IndInv, EnrolledIsPeer
    <2> QED
      BY <2>1, <2>2
  <1>12. \A x \in Relays : relays[x].pending \cup imported[x]
                              \subseteq relays'[x].pending \cup imported'[x]
    BY <1>4, <1>5
  <1>13. RequestIsKnown'
    BY <1>1, <1>6, <1>12, Shapes DEF IndInv, RequestIsKnown
  <1>14. EnrollableUnlessCut'
    BY <1>1, <1>6, <1>12 DEF IndInv, EnrollableUnlessCut, IsActive
  <1> QED
    BY <1>7, <1>8, <1>9, <1>10, <1>11, <1>13, <1>14 DEF IndInv

(* remove_device takes a device from a relay's list, which only shortens    *)
(* what the invariant speaks of.                                            *)
LEMMA RemoveDeviceStep ==
    ASSUME IndInv, NEW r \in Relays, NEW d \in Generations, RemoveDevice(r, d)
    PROVE  IndInv'
  <1>1. /\ relays' = [relays EXCEPT ![r].devices = @ \ {d}]
        /\ UNCHANGED <<offers, peers, identity, used, receipts, offerFiles, made,
                       requests, cuts, enrolled, imported, revoked>>
    BY DEF RemoveDevice, device, ledger
  <1>2. /\ relays' \in [Relays -> Relay]
        /\ \A x \in Relays : /\ relays'[x].devices \subseteq relays[x].devices
                             /\ relays'[x].pending = relays[x].pending
    BY <1>1, Shapes DEF Relay
  <1>3. TypeOK'
    BY <1>1, <1>2 DEF IndInv, TypeOK
  <1>4. Traced' /\ NoFutureIdentity' /\ OfferUsedUp' /\ EnrolledIsPeer'
    BY <1>1, <1>2 DEF IndInv, Traced, NoFutureIdentity, OfferUsedUp, EnrolledIsPeer,
       IsActive
  <1>5. ListedIsPeerUnlessRevoked'
    BY <1>1, <1>2 DEF IndInv, ListedIsPeerUnlessRevoked, IsActive
  <1>6. RequestIsKnown' /\ EnrollableUnlessCut'
    BY <1>1, <1>2, Shapes DEF IndInv, RequestIsKnown, EnrollableUnlessCut, IsActive
  <1> QED
    BY <1>3, <1>4, <1>5, <1>6 DEF IndInv

(* A challenge that lapses keeps its relay, its pairing and its device.     *)
LEMMA LapseStep ==
    ASSUME IndInv, NEW c \in Challenges, Lapse(c)
    PROVE  IndInv'
  <1>1. /\ made[c] # NoChallenge
        /\ made' = [made EXCEPT ![c].lapsed = TRUE]
        /\ UNCHANGED <<offers, peers, identity, used, receipts, offerFiles, requests,
                       relays, cuts, enrolled, imported, revoked>>
    BY DEF Lapse, device, ledger
  <1>2. made \in [Challenges -> Challenge \cup {NoChallenge}] /\ made[c] \in Challenge
    BY <1>1, Shapes
  <1>3. /\ made' \in [Challenges -> Challenge \cup {NoChallenge}]
        /\ \A x \in Challenges : /\ made'[x].relay = made[x].relay
                                 /\ made'[x].pairing = made[x].pairing
                                 /\ made'[x].device = made[x].device
                                 /\ made[x] \in Challenge => made'[x] \in Challenge
    BY <1>1, <1>2 DEF Challenge
  <1>4. TypeOK'
    BY <1>1, <1>3 DEF IndInv, TypeOK
  <1>5. Traced' /\ NoFutureIdentity'
    BY <1>1, <1>3, Shapes DEF IndInv, Traced, NoFutureIdentity
  <1>6. OfferUsedUp' /\ EnrolledIsPeer' /\ ListedIsPeerUnlessRevoked'
    BY <1>1, <1>3, Shapes DEF IndInv, OfferUsedUp, EnrolledIsPeer,
       ListedIsPeerUnlessRevoked, IsActive
  <1>7. RequestIsKnown' /\ EnrollableUnlessCut'
    BY <1>1, <1>3, Shapes DEF IndInv, RequestIsKnown, EnrollableUnlessCut, IsActive
  <1> QED
    BY <1>4, <1>5, <1>6, <1>7 DEF IndInv

------------------------------------------------------------------------------
(* Theorems.                                                                *)

(* Every step preserves the invariant.                                      *)
LEMMA NextInd == IndInv /\ [Next]_vars => IndInv'
  <1> SUFFICES ASSUME IndInv, [Next]_vars PROVE IndInv'
    OBVIOUS
  <1>1. CASE UNCHANGED vars
    BY <1>1 DEF vars, device, ledger, IndInv, TypeOK, Traced, NoFutureIdentity,
       OfferUsedUp, EnrolledIsPeer, ListedIsPeerUnlessRevoked, RequestIsKnown,
       EnrollableUnlessCut, IsActive
  <1>2. CASE DeviceStep
    BY <1>2, CreatePairingStep, OfferEndsStep, CompleteStep, RejectStep, RevokeStep,
       RotateStep DEF DeviceStep
  <1>3. ASSUME NEW r \in Relays, RelayStep(r) PROVE IndInv'
    BY <1>3, RequestStep, AddReceiptStep, RemoveDeviceStep DEF RelayStep
  <1>4. ASSUME NEW c \in Challenges, Lapse(c) PROVE IndInv'
    BY <1>4, LapseStep
  <1> QED
    BY <1>1, <1>2, <1>3, <1>4 DEF Next

(* The inductive invariant holds in every reachable state.                  *)
THEOREM Invariance == ExchangeSpec => []IndInv
  <1> QED
    BY InitInd, NextInd, PTL DEF ExchangeSpec

(* The variables of the device and of its relays keep their types.          *)
THEOREM TypeTheorem == ExchangeSpec => []TypeOK
  <1>1. IndInv => TypeOK
    BY DEF IndInv
  <1> QED
    BY <1>1, Invariance, PTL

(* However often the files of an offer are copied, delayed or handed in     *)
(* twice, one receipt at one relay comes of it at most.                     *)
THEOREM OneRelayTheorem == ExchangeSpec => []OneRelayPerOffer
  <1>1. ASSUME IndInv PROVE OneRelayPerOffer
    <2> SUFFICES ASSUME NEW r1 \in Relays, NEW r2 \in Relays,
                        NEW c1 \in imported[r1], NEW c2 \in imported[r2],
                        made[c1].pairing = made[c2].pairing
                 PROVE  r1 = r2 /\ c1 = c2
      BY DEF OneRelayPerOffer
    <2>1. /\ c1 \in enrolled /\ c2 \in enrolled
          /\ made[c1].relay = r1 /\ made[c2].relay = r2
      BY <1>1, Shapes DEF IndInv, Traced
    <2>2. c1 = c2
      BY <1>1, <2>1 DEF IndInv, OfferUsedUp
    <2> QED
      BY <2>1, <2>2
  <1> QED
    BY <1>1, Invariance, PTL

(* The two sides come apart only by revocation or rotation.                 *)
THEOREM ListedTheorem == ExchangeSpec => []ListedIsPeerUnlessRevoked
  <1>1. IndInv => ListedIsPeerUnlessRevoked
    BY DEF IndInv
  <1> QED
    BY <1>1, Invariance, PTL

(* While no command has been cut short, a peer's receipt is out and still   *)
(* of use, or has been used.                                                *)
THEOREM EnrollableTheorem == ExchangeSpec => []EnrollableUnlessCut
  <1>1. IndInv => EnrollableUnlessCut
    BY DEF IndInv
  <1> QED
    BY <1>1, Invariance, PTL

------------------------------------------------------------------------------
(* Each relay as a RelayLedger.                                             *)

(* Nothing has been made, asked or listed.                                  *)
LEMMA SideInit == ASSUME Init, NEW r \in Relays PROVE Side(r)!Init
  BY DEF Init, MadeFor, Side!Init

(* What a relay's ledger sees of a step of others.                          *)
LEMMA SideStutter ==
    ASSUME NEW r \in Relays, MadeFor(r)' = MadeFor(r),
           relays'[r] = relays[r], imported'[r] = imported[r],
           {c \in receipts' : made'[c].relay = r} = {c \in receipts : made[c].relay = r}
    PROVE  [Side(r)!Next]_(Side(r)!vars)
  BY DEF Side!vars

(* The device a relay's challenge was made for, once there is one.          *)
LEMMA MadeForFacts ==
    ASSUME IndInv, NEW r \in Relays, NEW c \in requests, made[c].relay = r
    PROVE  MadeFor(r)[c] = made[c].device /\ made[c].device # 0
  <1>1. /\ c \in Challenges /\ made[c] \in Challenge
        /\ made[c].device \in Generations
    BY Shapes
  <1>2. made[c] # NoChallenge
    <2>1. Challenge \subseteq [relay : Relays, pairing : Pairings, device : Nat,
                               lapsed : BOOLEAN]
      BY Shapes DEF Challenge
    <2> QED
      BY <1>1, <2>1
  <1> QED
    BY <1>1, <1>2 DEF MadeFor, Generations

(* Whatever the device does, at most one receipt is new to a relay.         *)
LEMMA DeviceSide ==
    ASSUME IndInv, DeviceStep, NEW r \in Relays
    PROVE  [Side(r)!Next]_(Side(r)!vars)
  <1>1. UNCHANGED <<made, relays, imported>>
    BY DEF DeviceStep, CreatePairing, OfferEnds, CompleteEnrollment,
       RejectEnrollment, RevokePeer, RotateIdentity
  <1>2. MadeFor(r)' = MadeFor(r)
    BY <1>1 DEF MadeFor
  <1>3. CASE receipts' = receipts
    BY <1>1, <1>2, <1>3, SideStutter
  <1>4. ASSUME NEW c \in Challenges, CompleteEnrollment(c), receipts' # receipts
        PROVE  [Side(r)!Next]_(Side(r)!vars)
    <2>1. c \in requests /\ receipts' = receipts \cup {c}
      BY <1>4 DEF CompleteEnrollment
    <2>2. CASE made[c].relay # r
      BY <1>1, <1>2, <2>1, <2>2, SideStutter
    <2>3. CASE made[c].relay = r
      <3>1. MadeFor(r)[c] # 0
        BY <2>1, <2>3, MadeForFacts
      <3>2. {x \in receipts' : made'[x].relay = r}
                = {x \in receipts : made[x].relay = r} \cup {c}
        BY <1>1, <2>1, <2>3
      <3>3. Side(r)!Sign(c)
        BY <1>1, <1>2, <3>1, <3>2 DEF Side!Sign, Side!Made
      <3> QED
        BY <3>3 DEF Side!Next
    <2> QED
      BY <2>2, <2>3
  <1>5. \/ receipts' = receipts
        \/ \E c \in Challenges : CompleteEnrollment(c)
    BY DEF DeviceStep, CreatePairing, OfferEnds, RejectEnrollment, RevokePeer,
       RotateIdentity
  <1> QED
    BY <1>3, <1>4, <1>5

(* A new challenge is one relay's.                                          *)
LEMMA RequestSide ==
    ASSUME IndInv, NEW s \in Relays, NEW c \in Challenges, NEW o \in offerFiles,
           CreateEnrollmentRequest(s, c, o), NEW r \in Relays
    PROVE  [Side(r)!Next]_(Side(r)!vars)
  <1> DEFINE new == [relay |-> s, pairing |-> o.pairing, device |-> o.device,
                     lapsed |-> FALSE]
  <1>1. /\ made[c] = NoChallenge /\ made' = [made EXCEPT ![c] = new]
        /\ \/ relays' = [relays EXCEPT ![s].pending = @ \cup {c}]
           \/ relays' = relays
        /\ UNCHANGED <<receipts, imported>>
    BY DEF CreateEnrollmentRequest, device
  <1>2. /\ made'[c] = new /\ new.relay = s /\ new.device = o.device
        /\ new # NoChallenge /\ o.device \in Generations
        /\ \A x \in Challenges \ {c} : made'[x] = made[x]
    <2>1. o.pairing \in Pairings /\ o.device \in Generations /\ Generations \subseteq Nat
      BY Shapes
    <2>2. new \in [relay : Relays, pairing : Pairings, device : Nat, lapsed : BOOLEAN]
      BY <2>1
    <2>3. new # NoChallenge /\ new.relay = s /\ new.device = o.device
      BY <2>2
    <2> HIDE DEF new
    <2> QED
      BY <1>1, <2>1, <2>3, Shapes
  <1>3. c \notin requests
    <2>1. NoChallenge \notin Challenge
      BY Shapes DEF Challenge
    <2> QED
      BY <1>1, <2>1, Shapes
  <1> HIDE DEF new
  <1>4. c \notin receipts /\ c \notin imported[r] /\ receipts \subseteq Challenges
    BY <1>3, Shapes
  <1>5. {x \in receipts' : made'[x].relay = r} = {x \in receipts : made[x].relay = r}
    BY <1>1, <1>2, <1>4
  <1>6. CASE s # r
    <2>1. MadeFor(r)' = MadeFor(r)
      BY <1>1, <1>2, <1>6 DEF MadeFor
    <2>2. relays'[r] = relays[r] /\ imported'[r] = imported[r]
      BY <1>1, <1>6, Shapes
    <2> QED
      BY <1>5, <2>1, <2>2, SideStutter
  <1>7. CASE s = r
    <2>1. /\ MadeFor(r)[c] = 0
          /\ MadeFor(r)' = [MadeFor(r) EXCEPT ![c] = o.device]
      <3>1. \A x \in Challenges :
               MadeFor(r)'[x] = IF x = c THEN o.device ELSE MadeFor(r)[x]
        BY <1>2, <1>7 DEF MadeFor
      <3>2. MadeFor(r)[c] = 0
        BY <1>1 DEF MadeFor
      <3> QED
        BY <3>1, <3>2 DEF MadeFor
    <2>2. /\ relays'[r].devices = relays[r].devices
          /\ relays'[r].pending \in {relays[r].pending, relays[r].pending \cup {c}}
      BY <1>1, <1>7, Shapes DEF Relay
    <2>3. imported'[r] \ relays'[r].pending = imported[r] \ relays[r].pending
      BY <1>1, <1>4, <2>2
    <2>4. Side(r)!Make(c, o.device)
      BY <1>5, <2>1, <2>2, <2>3 DEF Side!Make, Side!Made
    <2> QED
      BY <1>2, <2>4 DEF Side!Next
  <1> QED
    BY <1>6, <1>7

(* A receipt is taken by the relay it is for.                               *)
LEMMA AddReceiptSide ==
    ASSUME IndInv, NEW s \in Relays, NEW c \in Challenges, AddReceipt(s, c),
           NEW r \in Relays
    PROVE  [Side(r)!Next]_(Side(r)!vars)
  <1>1. /\ c \in receipts /\ made[c].relay = s /\ c \in relays[s].pending
        /\ imported' = [imported EXCEPT ![s] = @ \cup {c}]
        /\ \/ relays' = ReceiptTaken(s, c)
           \/ relays' = [relays EXCEPT ![s].devices = @ \cup {made[c].device}]
        /\ UNCHANGED <<receipts, made>>
    BY DEF AddReceipt, Matches, device
  <1>2. MadeFor(r)' = MadeFor(r)
    BY <1>1 DEF MadeFor
  <1>3. CASE s # r
    <2>1. relays'[r] = relays[r] /\ imported'[r] = imported[r]
      BY <1>1, <1>3, Shapes DEF ReceiptTaken
    <2> QED
      BY <1>1, <1>2, <2>1, SideStutter
  <1>4. CASE s = r
    <2>1. MadeFor(r)[c] = made[c].device
      BY <1>1, <1>4, Shapes, MadeForFacts
    <2>2. /\ imported'[r] = imported[r] \cup {c}
          /\ relays'[r].devices = relays[r].devices \cup {MadeFor(r)[c]}
          /\ \/ relays'[r].pending = relays[r].pending \ {c}
             \/ relays'[r].pending = relays[r].pending
      BY <1>1, <1>4, <2>1, Shapes DEF ReceiptTaken, Relay
    <2>3. Side(r)!Import(c)
      BY <1>1, <1>2, <1>4, <2>2 DEF Side!Import
    <2> QED
      BY <2>3 DEF Side!Next
  <1> QED
    BY <1>3, <1>4

(* A device is removed from one relay's list.                               *)
LEMMA RemoveSide ==
    ASSUME IndInv, NEW s \in Relays, NEW d \in Generations, RemoveDevice(s, d),
           NEW r \in Relays
    PROVE  [Side(r)!Next]_(Side(r)!vars)
  <1>1. /\ relays' = [relays EXCEPT ![s].devices = @ \ {d}]
        /\ UNCHANGED <<receipts, imported, made>>
    BY DEF RemoveDevice, device
  <1>2. MadeFor(r)' = MadeFor(r)
    BY <1>1 DEF MadeFor
  <1>3. CASE s # r
    BY <1>1, <1>2, <1>3, Shapes, SideStutter
  <1>4. CASE s = r
    <2>1. /\ relays'[r].devices = relays[r].devices \ {d}
          /\ relays'[r].pending = relays[r].pending
      BY <1>1, <1>4, Shapes DEF Relay
    <2>2. Side(r)!Remove(d)
      BY <1>1, <1>2, <2>1 DEF Side!Remove
    <2> QED
      BY <2>2 DEF Side!Next
  <1> QED
    BY <1>3, <1>4

(* A challenge that lapses is still for the same device.                    *)
LEMMA LapseSide ==
    ASSUME IndInv, NEW c \in Challenges, Lapse(c), NEW r \in Relays
    PROVE  [Side(r)!Next]_(Side(r)!vars)
  <1>1. /\ made[c] # NoChallenge /\ made' = [made EXCEPT ![c].lapsed = TRUE]
        /\ UNCHANGED <<relays, imported, receipts>>
    BY DEF Lapse, device
  <1>2. /\ \A x \in Challenges : /\ made'[x].relay = made[x].relay
                                 /\ made'[x].device = made[x].device
                                 /\ made'[x] = NoChallenge <=> made[x] = NoChallenge
        /\ receipts \subseteq Challenges
    <2>1. made[c] \in Challenge /\ made'[c] \in Challenge
      BY <1>1, Shapes DEF Challenge
    <2>2. NoChallenge \notin Challenge
      BY Shapes DEF Challenge
    <2> QED
      BY <1>1, <2>1, <2>2, Shapes DEF Challenge
  <1>3. MadeFor(r)' = MadeFor(r)
    BY <1>2 DEF MadeFor
  <1> QED
    BY <1>1, <1>2, <1>3, SideStutter

(* Every relay of the exchange keeps to the ledger, for any number of them. *)
THEOREM RelaysTheorem == ExchangeSpec => RelaysAreLedgers
  <1>1. Init => \A r \in Relays : Side(r)!Init
    BY SideInit
  <1>2. ASSUME IndInv, [Next]_vars, NEW r \in Relays
        PROVE  [Side(r)!Next]_(Side(r)!vars)
    <2>1. CASE UNCHANGED vars
      <3>1. UNCHANGED <<made, relays, imported, receipts>>
        BY <2>1 DEF vars, device
      <3> QED
        BY <3>1, SideStutter DEF MadeFor
    <2> QED
      BY <1>2, <2>1, DeviceSide, RequestSide, AddReceiptSide, RemoveSide, LapseSide
         DEF Next, RelayStep
  <1>3. IndInv /\ [Next]_vars =>
            [\A r \in Relays : [Side(r)!Next]_(Side(r)!vars)]_vars
    BY <1>2
  <1> QED
    BY <1>1, <1>3, Invariance, PTL DEF ExchangeSpec, RelaysAreLedgers

==============================================================================
