--------------------------- MODULE EnrollmentLedger ---------------------------
(***************************************************************************)
(* EnrollmentStore seen as a PairingLedger.  An offer is open while it is  *)
(* in state.json; it is still unmade while its id has not been drawn, or   *)
(* has been drawn by a job that has yet to save it.                        *)
(***************************************************************************)
EXTENDS EnrollmentStore

(* no peer as list_peers shows it, without "device", is NoPeer *)
ASSUME PublicAssumption == NoPeer \notin [key : Keys, revoked : BOOLEAN]

StateEffects(w) ==
    {i \in 1..Len(job[w].plan) : job[w].plan[i].file = "state"}

ToBeSaved(p) ==
    \E w \in Workers : \E i \in StateEffects(w) :
        Offered(job[w].plan[i].content, p)

OfferStatus ==
    [p \in Pairings |->
        CASE Offered(state, p) -> "open"
          [] ~Offered(state, p) /\ (p \notin minted \/ ToBeSaved(p)) -> "unmade"
          [] OTHER -> "closed"]

PublicPeers ==
    [q \in Peers |->
        IF state.peers[q] = NoPeer THEN NoPeer
        ELSE [key |-> state.peers[q].key, revoked |-> state.peers[q].revoked]]

Ledger == INSTANCE PairingLedger WITH offers <- OfferStatus, peers <- PublicPeers

(* EnrollmentStore keeps the ledger's promises: an offer that was used,    *)
(* expired, worn out or lost with its process never opens again, and a     *)
(* peer becomes active only in the write that uses up an open offer.       *)
ImplementsLedger == Ledger!Spec

==============================================================================
