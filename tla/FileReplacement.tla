--------------------------- MODULE FileReplacement ---------------------------
(***************************************************************************)
(* How the programs save a private JSON file, one system call per step.    *)
(* All open a temporary file with a fixed name, write it and rename it     *)
(* over the target.  They differ in four ways, listed below, and so the    *)
(* kind of file is chosen at the start:                                    *)
(*    "enrollment"     _write_json of enrollment.py                        *)
(*    "configuration"  _write_private_json of relay_configuration.py       *)
(*    "registry"       _write_locked of relay_registry.py                  *)
(*    "worker"         write_state of relay_worker.py                      *)
(*    "status"         _write_locked of service.py                         *)
(***************************************************************************)
EXTENDS Naturals

CONSTANTS
    Writers, Documents,
    NoFile, NoInode,
    Empty, Torn,      \* contents of a file that is not a whole document
    Inodes,
    Kinds,            \* the kinds of file to look at
    MaxFaults         \* bound on crashes, failed calls, short writes, cuts

ASSUME ReplacementAssumption ==
    /\ NoFile \notin Documents
    /\ Empty \notin Documents \cup {NoFile}
    /\ Torn \notin Documents \cup {NoFile, Empty}
    /\ NoInode \notin Inodes
    /\ Kinds \subseteq {"enrollment", "configuration", "registry", "worker",
                        "status"}
    /\ MaxFaults \in Nat

VARIABLES
    kind,       \* the file's kind
    inode,      \* what each inode holds, and whether that is on disk
    dir,        \* the directory: inodes of the temporary name and the target
    diskDir,    \* the directory as it is on disk
    pc,         \* where each writer is
    fd,         \* the inode it has open
    doc,        \* the document it saves
    answer,     \* what its last save reported
    faults,     \* how often something went wrong
    exposed     \* history: whether something happened that this kind of
                \* file has no protection against

files == <<inode, dir, diskDir>>
vars == <<kind, files, pc, fd, doc, answer, faults, exposed>>

(* Saves of the file never overlap: under a flock, or in one process.  A   *)
(* worker run by hand with --once shares its file with the service.        *)
Exclusive == kind # "worker"

(* a short write is continued; os.write, used as is, does not do that *)
Loops == kind # "enrollment"

(* the data is fsynced before the rename *)
Syncs == kind # "status"

(* a finally clause removes the temporary name *)
Unlinks == kind \in {"registry", "worker"}

Directory == [temporary : Inodes \cup {NoInode}, target : Inodes \cup {NoInode}]

Init ==
    /\ kind \in Kinds
    /\ inode = [i \in Inodes |-> [content |-> Empty, synced |-> FALSE]]
    /\ dir = [temporary |-> NoInode, target |-> NoInode]
    /\ diskDir = dir
    /\ pc = [w \in Writers |-> "idle"]
    /\ fd = [w \in Writers |-> NoInode]
    /\ doc = [w \in Writers |-> NoFile]
    /\ answer = [w \in Writers |-> "none"]
    /\ faults = 0
    /\ exposed = FALSE

------------------------------------------------------------------------------

At(w, step) == pc[w] = step
Goto(w, step) == pc' = [pc EXCEPT ![w] = step]
Others(w) == {v \in Writers \ {w} : pc[v] # "idle"}

Free(i) ==
    /\ \A name \in {"temporary", "target"} : dir[name] # i /\ diskDir[name] # i
    /\ \A w \in Writers : fd[w] # i

Hold(i, content) ==
    inode' = [inode EXCEPT ![i] = [content |-> content, synced |-> FALSE]]

(* os.open(temporary, O_WRONLY | O_CREAT | O_TRUNC): a left-over temporary  *)
(* file, even another writer's, is truncated and used                      *)
Open(w, d) ==
    /\ At(w, "idle")
    /\ Exclusive => Others(w) = {}
    /\ \E i \in Inodes :
          /\ IF dir.temporary = NoInode THEN Free(i) ELSE i = dir.temporary
          /\ Hold(i, Empty)
          /\ dir' = [dir EXCEPT !.temporary = i]
          /\ fd' = [fd EXCEPT ![w] = i]
    /\ doc' = [doc EXCEPT ![w] = d]
    /\ answer' = [answer EXCEPT ![w] = "none"]
    /\ exposed' = (exposed \/ Others(w) # {})
    /\ Goto(w, "write")
    /\ UNCHANGED <<kind, diskDir, faults>>

(* Definitions marked "defect:" are not part of the model: each is a       *)
(* variant of the definition after it with a plausible mistake in it.      *)

(* defect: what is left of a short write is forgotten *)
AfterShortWriteDropped == "written"

(* os.write returns a short count and is not asked for it; a file object   *)
(* writes the rest                                                         *)
AfterShortWrite == IF Loops THEN "write" ELSE "written"

WriteShort(w) ==
    /\ At(w, "write")
    /\ faults < MaxFaults
    /\ faults' = faults + 1
    /\ Hold(fd[w], Torn)
    /\ exposed' = (exposed \/ ~Loops)
    /\ Goto(w, AfterShortWrite)
    /\ UNCHANGED <<kind, dir, diskDir, fd, doc, answer>>

(* over another writer's bytes, the result depends on the lengths *)
Write(w) ==
    /\ At(w, "write")
    /\ \E content \in {doc[w]} \cup
                      (IF \E v \in Others(w) : fd[v] = fd[w]
                       THEN {Torn} ELSE {}) :
          Hold(fd[w], content)
    /\ Goto(w, "written")
    /\ UNCHANGED <<kind, dir, diskDir, fd, doc, answer, faults, exposed>>

(* defect: the data is not synced first *)
SyncSkipped(w) ==
    /\ At(w, "written")
    /\ Goto(w, "rename")
    /\ UNCHANGED <<kind, inode, dir, diskDir, fd, doc, answer, faults,
                   exposed>>

Sync(w) ==
    /\ At(w, "written")
    /\ inode' = IF Syncs THEN [inode EXCEPT ![fd[w]].synced = TRUE] ELSE inode
    /\ Goto(w, "rename")
    /\ UNCHANGED <<kind, dir, diskDir, fd, doc, answer, faults, exposed>>

(* os.close, then os.replace: whatever file has the temporary name now *)
Rename(w) ==
    /\ At(w, "rename")
    /\ dir.temporary # NoInode
    /\ dir' = [temporary |-> NoInode, target |-> dir.temporary]
    /\ fd' = [fd EXCEPT ![w] = NoInode]
    /\ Goto(w, "cleanup")
    /\ UNCHANGED <<kind, inode, diskDir, doc, answer, faults, exposed>>

Unlinked == IF Unlinks THEN [dir EXCEPT !.temporary = NoInode] ELSE dir

(* the finally clauses, and the result *)
Ends(w, result) ==
    /\ dir' = Unlinked
    /\ fd' = [fd EXCEPT ![w] = NoInode]
    /\ doc' = [doc EXCEPT ![w] = NoFile]
    /\ answer' = [answer EXCEPT ![w] = result]
    /\ Goto(w, "idle")
    /\ UNCHANGED <<kind, inode, diskDir, exposed>>

Succeed(w) == At(w, "cleanup") /\ Ends(w, "saved") /\ UNCHANGED faults

(* a system call raises; os.replace does when the temporary name is gone *)
Fail(w) ==
    /\ pc[w] # "idle"
    /\ Ends(w, "failed")
    /\ \/ faults < MaxFaults /\ faults' = faults + 1
       \/ At(w, "rename") /\ dir.temporary = NoInode /\ UNCHANGED faults

(* the process is killed: no finally clause runs *)
Crash(w) ==
    /\ pc[w] # "idle"
    /\ faults < MaxFaults
    /\ faults' = faults + 1
    /\ fd' = [fd EXCEPT ![w] = NoInode]
    /\ doc' = [doc EXCEPT ![w] = NoFile]
    /\ answer' = [answer EXCEPT ![w] = "failed"]
    /\ Goto(w, "idle")
    /\ UNCHANGED <<kind, files, exposed>>

------------------------------------------------------------------------------
(* The file system.  The directory reaches the disk some time; no program  *)
(* asks for it.                                                            *)

CommitDirectory ==
    /\ diskDir # dir
    /\ diskDir' = dir
    /\ UNCHANGED <<kind, inode, dir, pc, fd, doc, answer, faults, exposed>>

(* data that was never synced may be lost, in part or as a whole *)
PowerCut ==
    /\ faults < MaxFaults
    /\ faults' = faults + 1
    /\ exposed' = (exposed \/ ~Syncs)
    /\ dir' \in {dir, diskDir}
    /\ diskDir' = dir'
    /\ \E lost \in SUBSET {i \in Inodes : ~inode[i].synced}, left \in {Empty, Torn} :
          inode' = [i \in Inodes |-> IF i \in lost
                                     THEN [content |-> left, synced |-> FALSE]
                                     ELSE inode[i]]
    /\ pc' = [w \in Writers |-> "idle"]
    /\ fd' = [w \in Writers |-> NoInode]
    /\ doc' = [w \in Writers |-> NoFile]
    /\ UNCHANGED <<kind, answer>>

Next ==
    \/ \E w \in Writers :
          \/ \E d \in Documents : Open(w, d)
          \/ WriteShort(w) \/ Write(w) \/ Sync(w) \/ Rename(w)
          \/ Succeed(w) \/ Fail(w) \/ Crash(w)
    \/ CommitDirectory
    \/ PowerCut

Spec == Init /\ [][Next]_vars

------------------------------------------------------------------------------
(* Properties. *)

(* Every variable keeps its shape, and a writer has a document and an open *)
(* file exactly while it needs them.                                       *)
TypeOK ==
    /\ kind \in Kinds
    /\ inode \in [Inodes -> [content : Documents \cup {Empty, Torn},
                             synced : BOOLEAN]]
    /\ dir \in Directory /\ diskDir \in Directory
    /\ pc \in [Writers -> {"idle", "write", "written", "rename", "cleanup"}]
    /\ fd \in [Writers -> Inodes \cup {NoInode}]
    /\ doc \in [Writers -> Documents \cup {NoFile}]
    /\ answer \in [Writers -> {"none", "saved", "failed"}]
    /\ \A w \in Writers :
          /\ At(w, "idle") <=> doc[w] = NoFile
          /\ pc[w] \in {"idle", "cleanup"} <=> fd[w] = NoInode
    /\ faults \in Nat
    /\ exposed \in BOOLEAN

ContentOf(directory) ==
    IF directory.target = NoInode THEN NoFile
    ELSE inode[directory.target].content

Whole == ContentOf(dir) \in Documents \cup {NoFile}

(* docs/THREAT_MODEL.md:39: writes are atomic, so the file, once there,    *)
(* holds a whole document.  Three things break that, each for the kinds of *)
(* file that have no protection against it: saves that overlap, a short    *)
(* write nobody continues, a power cut before the data was synced.         *)
WholeUnlessExposed == exposed \/ Whole

Atomic == INSTANCE AtomicFile WITH
    contents <- ContentOf(dir),
    durable <- ContentOf(diskDir),
    saving <- doc,
    applied <- [w \in Writers |-> pc[w] = "cleanup"]

(* A file saved under a lock, with complete writes and fsync, is an atomic *)
(* file, whatever fails or dies and whenever the power is cut.             *)
Conforming == Exclusive /\ Loops /\ Syncs

ImplementsAtomicFile ==
    /\ Conforming => Atomic!Init
    /\ [][Conforming => Atomic!Next]_(Atomic!vars)

==============================================================================
