---------------------------- MODULE PairingLedger ----------------------------
(***************************************************************************)
(* What a device promises about pairing, whatever its files look like: an  *)
(* offer is opened at most once and then closed for ever, and a peer       *)
(* becomes active only by using up an open offer.  There are no locks,     *)
(* processes, clocks or attempts here; an offer may be closed at any time  *)
(* (it expired, its attempts were spent, the process that was to save it   *)
(* died).  EnrollmentLedger shows that EnrollmentStore implements this,    *)
(* EnrollmentExchange uses it as the device.                               *)
(***************************************************************************)
EXTENDS Naturals

CONSTANTS Pairings, Peers, Keys, NoPeer

ASSUME LedgerAssumption == NoPeer \notin [key : Keys, revoked : BOOLEAN]

VARIABLES
    offers,   \* each pairing offer: unmade, open or closed
    peers     \* each peer's key and whether it was revoked, or NoPeer

ledger == <<offers, peers>>

Open(p) == offers[p] = "open"
IsActive(q) == peers[q] # NoPeer /\ ~peers[q].revoked

NoPeers == [q \in Peers |-> NoPeer]

LedgerInit ==
    /\ offers = [p \in Pairings |-> "unmade"]
    /\ peers = NoPeers

Closing(S) == [p \in Pairings |-> IF p \in S THEN "closed" ELSE offers[p]]

(* a new offer; those that had expired go in the same write *)
MakeOffer(p, ended) ==
    /\ offers[p] = "unmade"
    /\ \A x \in ended : Open(x)
    /\ offers' = [Closing(ended) EXCEPT ![p] = "open"]
    /\ UNCHANGED peers

(* offers end without having been used *)
CloseOffers(S) ==
    /\ offers' = Closing(S)
    /\ UNCHANGED peers

(* one write uses up the offer and makes the peer active *)
Enroll(p, q, k) ==
    /\ Open(p)
    /\ ~IsActive(q)
    /\ offers' = Closing({p})
    /\ peers' = [peers EXCEPT ![q] = [key |-> k, revoked |-> FALSE]]

Revoke(q) ==
    /\ IsActive(q)
    /\ peers' = [peers EXCEPT ![q].revoked = TRUE]
    /\ UNCHANGED offers

(* the identity is rotated: every open offer and every peer goes *)
ClearLedger ==
    /\ offers' = Closing({p \in Pairings : Open(p)})
    /\ peers' = NoPeers

LedgerNext ==
    \/ \E S \in SUBSET Pairings : CloseOffers(S)
    \/ \E p \in Pairings, ended \in SUBSET Pairings : MakeOffer(p, ended)
    \/ \E p \in Pairings, q \in Peers, k \in Keys : Enroll(p, q, k)
    \/ \E q \in Peers : Revoke(q)
    \/ ClearLedger

Spec == LedgerInit /\ [][LedgerNext]_ledger

==============================================================================
