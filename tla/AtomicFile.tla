----------------------------- MODULE AtomicFile -----------------------------
(***************************************************************************)
(* What the programs expect of a private JSON file that they save whole:   *)
(* a save takes effect at one instant, or never when it is reported as     *)
(* failed or its process dies.  A power cut may bring back the contents    *)
(* that the disk had last.  Every other module here writes its files in    *)
(* one step on the strength of this one.                                   *)
(***************************************************************************)
CONSTANTS
    Writers,
    Documents,
    NoFile       \* what a file holds before it exists

VARIABLES
    contents,    \* what a reader finds
    durable,     \* what it would find after a power cut
    saving,      \* the document each writer is saving
    applied,     \* whether that save has taken effect
    answer       \* what each writer's last save reported

vars == <<contents, durable, saving, applied, answer>>

Idle(w) == saving[w] = NoFile

Init ==
    /\ contents = NoFile
    /\ durable = NoFile
    /\ saving = [w \in Writers |-> NoFile]
    /\ applied = [w \in Writers |-> FALSE]
    /\ answer = [w \in Writers |-> "none"]

Begin(w, d) ==
    /\ Idle(w)
    /\ saving' = [saving EXCEPT ![w] = d]
    /\ answer' = [answer EXCEPT ![w] = "none"]
    /\ UNCHANGED <<contents, durable, applied>>

Apply(w) ==
    /\ ~Idle(w) /\ ~applied[w]
    /\ contents' = saving[w]
    /\ applied' = [applied EXCEPT ![w] = TRUE]
    /\ UNCHANGED <<durable, saving, answer>>

End(w, result) ==
    /\ ~Idle(w)
    /\ saving' = [saving EXCEPT ![w] = NoFile]
    /\ applied' = [applied EXCEPT ![w] = FALSE]
    /\ answer' = [answer EXCEPT ![w] = result]
    /\ UNCHANGED <<contents, durable>>

(* success is only reported of a save that has taken effect *)
Succeed(w) == applied[w] /\ End(w, "saved")

Fail(w) == End(w, "failed")

Commit ==
    /\ durable' = contents
    /\ UNCHANGED <<contents, saving, applied, answer>>

PowerCut ==
    /\ contents' \in {contents, durable}
    /\ durable' = contents'
    /\ saving' = [w \in Writers |-> NoFile]
    /\ applied' = [w \in Writers |-> FALSE]
    /\ UNCHANGED answer

Next ==
    \/ \E w \in Writers : \/ \E d \in Documents : Begin(w, d)
                          \/ Apply(w) \/ Succeed(w) \/ Fail(w)
    \/ Commit
    \/ PowerCut

Spec == Init /\ [][Next]_vars

==============================================================================
