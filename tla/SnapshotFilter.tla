---------------------------- MODULE SnapshotFilter ----------------------------
(***************************************************************************)
(* The privacy filter of telemetry, sanitize_snapshot of                   *)
(* relay_transport.py, and its second use: the receiver filters what it    *)
(* got and refuses it unless the result is the same.  The two sides agree  *)
(* only if filtering a filtered document changes nothing, at any depth and *)
(* at the size limit.                                                      *)
(*                                                                         *)
(* A value is a scalar, an object or a list, each tagged as such.  A key   *)
(* is reduced to its lower-case form; several spellings share one.  One    *)
(* instance stands for all, and its status for every field of it that is   *)
(* passed on: they are filtered independently.  Two parts of a document    *)
(* are passed on as they are: when it was generated, which a foreign       *)
(* sender may give as any value, and the id an instance is listed under.   *)
(***************************************************************************)
EXTENDS Naturals, Sequences, FiniteSets

CONSTANTS
    Names,         \* keys of objects, as they are spelled
    LowerCase,     \* the lower-case form of each
    PrivateKeys,   \* PRIVATE_SNAPSHOT_KEYS
    Depth,         \* bound on the nesting of a status
    MaxList,       \* bound on the length of a list
    Limit          \* the payload limit, in nodes

Private(k) == LowerCase[k] \in PrivateKeys

Scalar == [tag |-> "scalar"]
Object(f) == [tag |-> "object", fields |-> f]
List(s) == [tag |-> "list", items |-> s]

PartialMaps(K, V) == UNION {[D -> V] : D \in SUBSET K}
ListsOf(V) == UNION {[1..n -> V] : n \in 0..MaxList}

(* every value nested at most n deep *)
RECURSIVE Values(_)
Values(n) ==
    IF n = 0 THEN {Scalar}
    ELSE {Scalar} \cup {Object(f) : f \in PartialMaps(Names, Values(n - 1))}
                  \cup {List(s) : s \in ListsOf(Values(n - 1))}

(* A field that a document may lack. *)
Absent == [tag |-> "absent"]

(* A document, the local one or a foreign sender's, with one instance: its *)
(* id, its status, its error ("null" stands for every false value) and     *)
(* whether it has fields besides those that are passed on.                 *)
Errors == {"absent", "null", "unavailable", "detail"}
Documents ==
    [generated_at : {Absent} \cup Values(1), id : Names,
     status : Values(Depth), error : Errors, extra : BOOLEAN]

------------------------------------------------------------------------------
(* The filter.  Definitions marked "defect:" are not part of the model:    *)
(* each is a variant of the definition after it with a plausible mistake   *)
(* in it.                                                                  *)

(* defect: only the outermost object is filtered *)
FilteredValueShallow(v) ==
    IF v.tag = "object"
    THEN Object([k \in {k \in DOMAIN v.fields : ~Private(k)} |-> v.fields[k]])
    ELSE v

(* _sanitize_snapshot_value *)
RECURSIVE FilteredValue(_)
FilteredValue(v) ==
    CASE v.tag = "scalar" -> v
      [] v.tag = "object" ->
            Object([k \in {k \in DOMAIN v.fields : ~Private(k)} |->
                        FilteredValue(v.fields[k])])
      [] v.tag = "list" ->
            List([i \in DOMAIN v.items |-> FilteredValue(v.items[i])])

ErrorText(e) == IF e \in {"absent", "null"} THEN "absent" ELSE "unavailable"

(* document.get("generated_at"): null when there is none *)
Stamp(t) == IF t = Absent THEN Scalar ELSE t

(* the length of the encoded document *)
RECURSIVE Size(_)
Size(v) ==
    CASE v.tag = "scalar" -> 1
      [] v.tag = "object" ->
            LET f[S \in SUBSET DOMAIN v.fields] ==
                    IF S = {} THEN 1
                    ELSE LET k == CHOOSE k \in S : TRUE
                         IN  1 + Size(v.fields[k]) + f[S \ {k}]
            IN  f[DOMAIN v.fields]
      [] v.tag = "list" ->
            LET f[n \in 0..Len(v.items)] ==
                    IF n = 0 THEN 1 ELSE Size(v.items[n]) + f[n - 1]
            IN  f[Len(v.items)]

(* sanitize_snapshot, but for the limit *)
Filtered(d) == [generated_at |-> Stamp(d.generated_at),
                id |-> d.id,
                status |-> FilteredValue(d.status),
                error |-> ErrorText(d.error),
                extra |-> FALSE]

Length(d) == Size(Stamp(d.generated_at)) + Size(d.status)
Fits(d) == Length(Filtered(d)) <= Limit

------------------------------------------------------------------------------
(* One snapshot on its way: fetched from the local agent, filtered by the  *)
(* worker inside the session, filtered again and compared by the receiver. *)
(* A sender of another make may leave the filter out.                      *)

VARIABLES
    document,   \* what is about to be sent, or was
    stage       \* how far it has come

vars == <<document, stage>>

Init == document \in Documents /\ stage = "fetched"

(* send_snapshot: an oversize snapshot ends the attempt *)
SendFiltered ==
    /\ stage = "fetched"
    /\ IF Fits(document)
       THEN document' = Filtered(document) /\ stage' = "filtered"
       ELSE UNCHANGED document /\ stage' = "too_large"

SendUnfiltered ==
    /\ stage = "fetched"
    /\ UNCHANGED document /\ stage' = "unfiltered"

(* _handle_agent: publish only what the filter leaves as it is *)
Receive ==
    /\ stage \in {"filtered", "unfiltered"}
    /\ stage' = IF Fits(document) /\ Filtered(document) = document
                THEN "published"
                ELSE IF stage = "filtered" THEN "own_refused" ELSE "refused"
    /\ UNCHANGED document

Next == SendFiltered \/ SendUnfiltered \/ Receive

Spec == Init /\ [][Next]_vars

------------------------------------------------------------------------------
(* Reference definition: the keys along every path into a value. *)
RECURSIVE Paths(_)
Paths(v) ==
    {<<>>} \cup
    (CASE v.tag = "scalar" -> {}
       [] v.tag = "object" ->
             UNION {{<<k>> \o p : p \in Paths(v.fields[k])} :
                        k \in DOMAIN v.fields}
       [] v.tag = "list" -> UNION {Paths(v.items[i]) : i \in DOMAIN v.items})

(* Nothing private in any field the filter looks into, and the form the    *)
(* filter gives a document.                                                *)
Clean(d) ==
    /\ \A p \in Paths(d.status) : \A i \in DOMAIN p : ~Private(p[i])
    /\ d.error \in {"absent", "unavailable"}
    /\ ~d.extra
    /\ d.generated_at # Absent

(* Properties. *)

(* relay_transport.py:419, relay_receiver.py:335: in what it looks into,   *)
(* the filter takes away the private keys at any depth and nothing else,   *)
(* so that the receiver's comparison of what it got with what its own      *)
(* filter makes of it decides exactly whether those fields are clean: it   *)
(* never refuses what this worker's filter let through, also at the limit, *)
(* nor publishes what another sender left in them.  Nothing is said of     *)
(* generated_at and of instance ids (relay_transport.py:398, :411): the    *)
(* filter copies both, so that a foreign sender's are published as sent.   *)
FilterAgrees ==
    [][/\ stage' = "filtered" /\ stage = "fetched" =>
              Paths(document'.status) =
                  {p \in Paths(document.status) :
                       \A i \in DOMAIN p : ~Private(p[i])}
       /\ stage' # "own_refused"
       /\ stage' = "published" => Clean(document)
       /\ stage' = "refused" =>
              ~Clean(document) \/ Length(document) > Limit]_vars

==============================================================================
