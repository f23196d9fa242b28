--------------------------- MODULE StatusDocument ---------------------------
(***************************************************************************)
(* What the rest of the agent may rely on about its status document: the   *)
(* newest payload of every printer in memory, and a file that lags behind  *)
(* but is only ever replaced by the whole document of that moment.  A new  *)
(* process starts with an empty document and leaves the file alone.        *)
(***************************************************************************)
CONSTANTS
    Instances,
    Payloads,
    NoPayload    \* what a document says of a printer it does not list

VARIABLES
    memory,      \* the document the API answers from
    disk         \* status.json

vars == <<memory, disk>>

Empty == [i \in Instances |-> NoPayload]

Init ==
    /\ memory = Empty
    /\ disk = Empty

(* a payload is put into the document, which may be written at once *)
Put(i, payload) == memory' = [memory EXCEPT ![i] = payload]
PutUnsaved(i, payload) == Put(i, payload) /\ UNCHANGED disk
PutSaved(i, payload) == Put(i, payload) /\ disk' = memory'
Report(i, payload) == PutUnsaved(i, payload) \/ PutSaved(i, payload)

Save ==
    /\ disk' = memory
    /\ UNCHANGED memory

Restart ==
    /\ memory' = Empty
    /\ UNCHANGED disk

Next ==
    \/ \E i \in Instances, payload \in Payloads : Report(i, payload)
    \/ Save
    \/ Restart

Spec == Init /\ [][Next]_vars

==============================================================================
