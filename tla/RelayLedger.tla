----------------------------- MODULE RelayLedger -----------------------------
(***************************************************************************)
(* What a relay promises about the devices it lists, whatever files it     *)
(* keeps them in: a device comes onto the list only by the receipt of a    *)
(* challenge that is pending then; a challenge is made for one device, is  *)
(* pending once at most, and only its receipt ends that; nothing else a    *)
(* relay does touches another challenge or another device.                 *)
(*                                                                         *)
(* RelayConfiguration implements it with two files replaced one at a time  *)
(* by processes that may die, and each relay of EnrollmentExchange is one. *)
(***************************************************************************)
CONSTANTS Challenges, Devices, NoDevice

VARIABLES
    target,     \* the device each challenge was made for
    pending,    \* challenges whose receipt the relay waits for
    consumed,   \* challenges whose receipt it has taken
    receipts,   \* challenges whose device has signed a receipt
    allowed     \* the devices on the list

vars == <<target, pending, consumed, receipts, allowed>>

Init ==
    /\ target = [c \in Challenges |-> NoDevice]
    /\ pending = {}
    /\ consumed = {}
    /\ receipts = {}
    /\ allowed = {}

Made(c) == target[c] # NoDevice

(* a challenge is made, and may never become pending *)
Make(c, d) ==
    /\ ~Made(c)
    /\ target' = [target EXCEPT ![c] = d]
    /\ pending' \in {pending, pending \cup {c}}
    /\ UNCHANGED <<consumed, receipts, allowed>>

Await(c) ==
    /\ Made(c)
    /\ c \notin pending \cup consumed
    /\ pending' = pending \cup {c}
    /\ UNCHANGED <<target, consumed, receipts, allowed>>

Sign(c) ==
    /\ Made(c)
    /\ receipts' = receipts \cup {c}
    /\ UNCHANGED <<target, pending, consumed, allowed>>

(* the device is listed; the challenge is taken at once, or stays for a    *)
(* later attempt                                                           *)
Import(c) ==
    /\ c \in pending \cap receipts
    /\ allowed' = allowed \cup {target[c]}
    /\ \/ pending' = pending \ {c} /\ consumed' = consumed \cup {c}
       \/ UNCHANGED <<pending, consumed>>
    /\ UNCHANGED <<target, receipts>>

Remove(d) ==
    /\ allowed' = allowed \ {d}
    /\ UNCHANGED <<target, pending, consumed, receipts>>

Next ==
    \/ \E c \in Challenges : \/ \E d \in Devices : Make(c, d)
                             \/ Await(c) \/ Sign(c) \/ Import(c)
    \/ \E d \in Devices : Remove(d)

Spec == Init /\ [][Next]_vars

==============================================================================
