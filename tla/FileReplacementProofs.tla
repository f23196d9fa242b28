------------------------ MODULE FileReplacementProofs ------------------------
(* Theorems about FileReplacement for every set of writers, documents and   *)
(* inodes, every kind of file and any number of faults: what each program   *)
(* may expect of the files it saves.                                        *)
EXTENDS FileReplacement, TLAPS

USE ReplacementAssumption

(* Without overlapping saves, at most one writer is at work,                *)
Alone == \A v, w \in Writers : v # w => pc[v] = "idle" \/ pc[w] = "idle"

(* the temporary name is the file it has open,                              *)
OwnTemporary == \A w \in Writers : fd[w] # NoInode => dir.temporary = fd[w]

(* and nothing that can be the target, now or after a power cut, is ever    *)
(* opened again.                                                            *)
NamesApart ==
    /\ dir.temporary # NoInode => /\ dir.temporary # dir.target
                                  /\ dir.temporary # diskDir.target
    /\ diskDir.temporary # NoInode => diskDir.temporary # diskDir.target

(* A file that can be kept: whole, and safe from a power cut if this kind   *)
(* of file is ever safe.                                                    *)
Kept(i) == inode[i].content \in Documents /\ (Syncs => inode[i].synced)

TargetsKept ==
    /\ dir.target # NoInode => Kept(dir.target)
    /\ diskDir.target # NoInode => Kept(diskDir.target)

(* What is about to be renamed is the document that was to be saved.        *)
WrittenWhole ==
    \A w \in Writers :
        /\ pc[w] = "written" => inode[fd[w]].content = doc[w]
        /\ pc[w] = "rename" => /\ inode[fd[w]].content = doc[w]
                               /\ Syncs => inode[fd[w]].synced

Protected ==
    Alone /\ OwnTemporary /\ NamesApart /\ TargetsKept /\ WrittenWhole

IndInv ==
    /\ TypeOK
    /\ Conforming => ~exposed
    /\ exposed \/ Protected

(* Nothing has been saved yet.                                              *)
LEMMA InitInd == Init => IndInv
  <1> SUFFICES ASSUME Init PROVE IndInv
    OBVIOUS
  <1>1. TypeOK
    BY DEF Init, TypeOK, Directory, At
  <1> QED
    BY <1>1 DEF Init, IndInv, Protected, Alone, OwnTemporary, NamesApart,
       TargetsKept, WrittenWhole

(* The shape of the inodes, the directories and the writers.                *)
LEMMA Types ==
    ASSUME TypeOK
    PROVE  /\ inode \in [Inodes -> [content : Documents \cup {Empty, Torn},
                                    synced : BOOLEAN]]
           /\ dir \in Directory /\ diskDir \in Directory
           /\ pc \in [Writers -> {"idle", "write", "written", "rename", "cleanup"}]
           /\ fd \in [Writers -> Inodes \cup {NoInode}]
           /\ doc \in [Writers -> Documents \cup {NoFile}]
           /\ answer \in [Writers -> {"none", "saved", "failed"}]
           /\ \A w \in Writers :
                 /\ pc[w] = "idle" <=> doc[w] = NoFile
                 /\ pc[w] \in {"idle", "cleanup"} <=> fd[w] = NoInode
                 /\ fd[w] # NoInode => fd[w] \in Inodes
                 /\ doc[w] # NoFile => doc[w] \in Documents
           /\ faults \in Nat /\ exposed \in BOOLEAN /\ kind \in Kinds
  BY DEF TypeOK, At

(* Writing into an inode changes that inode only.                           *)
LEMMA HoldChanges ==
    ASSUME TypeOK, NEW i \in Inodes, NEW content \in Documents \cup {Empty, Torn},
           Hold(i, content)
    PROVE  /\ inode' \in [Inodes -> [content : Documents \cup {Empty, Torn},
                                     synced : BOOLEAN]]
           /\ inode'[i] = [content |-> content, synced |-> FALSE]
           /\ \A j \in Inodes \ {i} : inode'[j] = inode[j]
  BY Types DEF Hold

(* Opening the temporary file preserves the invariant.                      *)
LEMMA OpenStep ==
    ASSUME IndInv, NEW w \in Writers, NEW d \in Documents, Open(w, d)
    PROVE  IndInv'
  <1>0. TypeOK
    BY DEF IndInv
  <1>1. PICK i \in Inodes :
           /\ IF dir.temporary = NoInode THEN Free(i) ELSE i = dir.temporary
           /\ Hold(i, Empty)
           /\ dir' = [dir EXCEPT !.temporary = i]
           /\ fd' = [fd EXCEPT ![w] = i]
    BY DEF Open
  <1>2. /\ pc[w] = "idle" /\ pc' = [pc EXCEPT ![w] = "write"]
        /\ doc' = [doc EXCEPT ![w] = d]
        /\ answer' = [answer EXCEPT ![w] = "none"]
        /\ exposed' = (exposed \/ Others(w) # {})
        /\ Exclusive => Others(w) = {}
        /\ UNCHANGED <<kind, diskDir, faults>>
    BY DEF Open, At, Goto
  <1>3. /\ dir' \in Directory /\ dir'.temporary = i /\ dir'.target = dir.target
        /\ i # NoInode
    BY <1>0, <1>1, Types DEF Directory
  <1>4. /\ inode' \in [Inodes -> [content : Documents \cup {Empty, Torn},
                                  synced : BOOLEAN]]
        /\ \A j \in Inodes \ {i} : inode'[j] = inode[j]
    BY <1>0, <1>1, HoldChanges
  <1>5. TypeOK'
    BY <1>0, <1>1, <1>2, <1>3, <1>4, Types DEF TypeOK, At
  <1>6. (Conforming => ~exposed)'
    BY <1>2 DEF IndInv, Conforming, Exclusive, Loops, Syncs
  <1>7. ASSUME ~exposed' PROVE Protected'
    <2>1. ~exposed /\ Protected /\ \A v \in Writers \ {w} : pc[v] = "idle"
      BY <1>2, <1>7 DEF IndInv, Others
    <2>2. i # dir.target /\ i # diskDir.target
      BY <1>1, <1>3, <2>1 DEF Protected, NamesApart, Free
    <2>3. Alone'
      BY <1>0, <1>2, <2>1, Types DEF Alone
    <2>4. OwnTemporary'
      BY <1>0, <1>1, <1>2, <1>3, <2>1, Types DEF OwnTemporary
    <2>5. NamesApart'
      BY <1>2, <1>3, <2>1, <2>2 DEF Protected, NamesApart
    <2>6. TargetsKept'
      BY <1>0, <1>2, <1>3, <1>4, <2>1, <2>2, Types
         DEF Protected, TargetsKept, Kept, Syncs, Directory
    <2>7. WrittenWhole'
      BY <1>0, <1>2, <2>1, Types DEF WrittenWhole
    <2> QED
      BY <2>3, <2>4, <2>5, <2>6, <2>7 DEF Protected
  <1> QED
    BY <1>0, <1>5, <1>6, <1>7 DEF IndInv

(* Writing, all at once or in part, preserves the invariant: under way, the *)
(* file is not the target, and it is whole before it can become that.       *)
LEMMA WriteStep ==
    ASSUME IndInv, NEW w \in Writers, Write(w) \/ WriteShort(w)
    PROVE  IndInv'
  <1>0. TypeOK
    BY DEF IndInv
  <1>1. /\ pc[w] = "write" /\ fd[w] \in Inodes /\ doc[w] \in Documents
        /\ UNCHANGED <<kind, dir, diskDir, fd, doc, answer>>
        /\ exposed => exposed'
    BY <1>0, Types DEF Write, WriteShort, At
  <1>2. PICK content \in Documents \cup {Empty, Torn} :
           /\ Hold(fd[w], content)
           /\ \/ /\ pc' = [pc EXCEPT ![w] = "written"] /\ UNCHANGED exposed
                 /\ content = doc[w] \/ \E v \in Others(w) : TRUE
              \/ pc' = [pc EXCEPT ![w] = "write"] /\ UNCHANGED exposed
              \/ pc' = [pc EXCEPT ![w] = "written"] /\ exposed' /\ ~Loops
    <2>1. CASE Write(w)
      BY <1>1, <2>1 DEF Write, Goto
    <2>2. CASE WriteShort(w)
      <3>1. /\ Hold(fd[w], Torn) /\ exposed' = (exposed \/ ~Loops)
            /\ pc' = [pc EXCEPT ![w] = IF Loops THEN "write" ELSE "written"]
        BY <2>2 DEF WriteShort, Goto, AfterShortWrite
      <3>2. exposed \in BOOLEAN
        BY <1>0, Types
      <3> QED
        BY <3>1, <3>2
    <2> QED
      BY <2>1, <2>2
  <1>3. faults' \in Nat
    BY <1>0, Types DEF Write, WriteShort
  <1>4. /\ inode' \in [Inodes -> [content : Documents \cup {Empty, Torn},
                                  synced : BOOLEAN]]
        /\ inode'[fd[w]].content = content
        /\ \A j \in Inodes \ {fd[w]} : inode'[j] = inode[j]
    <2>1. fd[w] \in Inodes /\ Hold(fd[w], content)
      BY <1>1, <1>2
    <2>2. /\ inode' \in [Inodes -> [content : Documents \cup {Empty, Torn},
                                    synced : BOOLEAN]]
          /\ inode'[fd[w]] = [content |-> content, synced |-> FALSE]
          /\ \A j \in Inodes \ {fd[w]} : inode'[j] = inode[j]
      BY <1>0, <2>1, HoldChanges
    <2> QED
      BY <2>2
  <1>5. TypeOK'
    BY <1>0, <1>1, <1>2, <1>3, <1>4, Types DEF TypeOK, At
  <1>6. (Conforming => ~exposed)'
    BY <1>1, <1>2 DEF IndInv, Conforming, Exclusive, Loops, Syncs
  <1>7. ASSUME ~exposed' PROVE Protected'
    <2>1. ~exposed /\ Protected
      BY <1>1, <1>7 DEF IndInv
    <2>2. \A v \in Writers \ {w} : pc[v] = "idle"
      BY <1>1, <2>1 DEF Protected, Alone
    <2>3. /\ fd[w] # NoInode /\ dir.temporary = fd[w]
          /\ fd[w] # dir.target /\ fd[w] # diskDir.target
      BY <1>1, <2>1 DEF Protected, OwnTemporary, NamesApart
    <2>4. \A v \in Writers \ {w} : pc'[v] = "idle"
      BY <1>0, <1>2, <2>2, Types
    <2>5. pc'[w] = "written" => inode'[fd[w]].content = doc[w]
      BY <1>0, <1>2, <1>4, <1>7, <2>2, Types DEF Others
    <2>6. pc'[w] # "rename"
      BY <1>0, <1>2, Types
    <2>7. Alone'
      BY <2>4 DEF Alone
    <2>8. OwnTemporary' /\ NamesApart'
      BY <1>1, <2>1 DEF Protected, OwnTemporary, NamesApart
    <2>9. TargetsKept'
      BY <1>0, <1>1, <1>4, <2>1, <2>3, Types
         DEF Protected, TargetsKept, Kept, Syncs, Directory
    <2>10. WrittenWhole'
      BY <1>1, <2>4, <2>5, <2>6 DEF WrittenWhole
    <2> QED
      BY <2>7, <2>8, <2>9, <2>10 DEF Protected
  <1> QED
    BY <1>0, <1>5, <1>6, <1>7 DEF IndInv

(* fsync leaves the contents alone.                                         *)
LEMMA SyncStep ==
    ASSUME IndInv, NEW w \in Writers, Sync(w)
    PROVE  IndInv'
  <1>0. TypeOK
    BY DEF IndInv
  <1>1. /\ pc[w] = "written" /\ fd[w] \in Inodes
        /\ inode' = IF Syncs THEN [inode EXCEPT ![fd[w]].synced = TRUE] ELSE inode
        /\ pc' = [pc EXCEPT ![w] = "rename"]
        /\ UNCHANGED <<kind, dir, diskDir, fd, doc, answer, faults, exposed>>
    BY <1>0, Types DEF Sync, At, Goto
  <1>2. /\ inode' \in [Inodes -> [content : Documents \cup {Empty, Torn},
                                  synced : BOOLEAN]]
        /\ \A i \in Inodes : /\ inode'[i].content = inode[i].content
                             /\ inode[i].synced => inode'[i].synced
        /\ Syncs => inode'[fd[w]].synced
    <2>1. inode \in [Inodes -> [content : Documents \cup {Empty, Torn},
                                synced : BOOLEAN]]
      BY <1>0, Types
    <2>2. CASE Syncs
      <3>1. inode' = [inode EXCEPT ![fd[w]].synced = TRUE]
        BY <1>1, <2>2
      <3>2. fd[w] \in Inodes
        BY <1>1
      <3>3. /\ inode' \in [Inodes -> [content : Documents \cup {Empty, Torn},
                                      synced : BOOLEAN]]
            /\ inode'[fd[w]].content = inode[fd[w]].content
            /\ inode'[fd[w]].synced = TRUE
            /\ \A j \in Inodes \ {fd[w]} : inode'[j] = inode[j]
        BY <2>1, <3>1, <3>2
      <3> QED
        BY <3>3
    <2>3. CASE ~Syncs
      BY <1>1, <2>1, <2>3
    <2> QED
      BY <2>2, <2>3
  <1>3. TypeOK'
    BY <1>0, <1>1, <1>2, Types DEF TypeOK, At
  <1>4. (Conforming => ~exposed)'
    BY <1>1 DEF IndInv, Conforming, Exclusive, Loops, Syncs
  <1>5. ASSUME ~exposed' PROVE Protected'
    <2>1. Protected
      BY <1>1, <1>5 DEF IndInv
    <2>2. Alone'
      BY <1>0, <1>1, <2>1, Types DEF Protected, Alone
    <2>3. OwnTemporary' /\ NamesApart'
      BY <1>1, <2>1 DEF Protected, OwnTemporary, NamesApart
    <2>4. TargetsKept'
      BY <1>0, <1>1, <1>2, <2>1, Types
         DEF Protected, TargetsKept, Kept, Syncs, Directory
    <2>5. WrittenWhole'
      BY <1>0, <1>1, <1>2, <2>1, Types DEF Protected, WrittenWhole, Syncs
    <2> QED
      BY <2>2, <2>3, <2>4, <2>5 DEF Protected
  <1> QED
    BY <1>0, <1>3, <1>4, <1>5 DEF IndInv

(* The rename makes a whole file the target.                                *)
LEMMA RenameStep ==
    ASSUME IndInv, NEW w \in Writers, Rename(w)
    PROVE  IndInv'
  <1>0. TypeOK
    BY DEF IndInv
  <1>1. /\ pc[w] = "rename" /\ dir.temporary # NoInode
        /\ dir' = [temporary |-> NoInode, target |-> dir.temporary]
        /\ fd' = [fd EXCEPT ![w] = NoInode]
        /\ pc' = [pc EXCEPT ![w] = "cleanup"]
        /\ UNCHANGED <<kind, inode, diskDir, doc, answer, faults, exposed>>
    BY DEF Rename, At, Goto
  <1>2. /\ dir' \in Directory /\ dir'.temporary = NoInode
        /\ dir'.target = dir.temporary
    BY <1>0, <1>1, Types DEF Directory
  <1>3. TypeOK'
    BY <1>0, <1>1, <1>2, Types DEF TypeOK, At
  <1>4. (Conforming => ~exposed)'
    BY <1>1 DEF IndInv, Conforming, Exclusive, Loops, Syncs
  <1>5. ASSUME ~exposed' PROVE Protected'
    <2>1. Protected
      BY <1>1, <1>5 DEF IndInv
    <2>2. \A v \in Writers \ {w} : pc[v] = "idle"
      BY <1>1, <2>1 DEF Protected, Alone
    <2>3. \A v \in Writers \ {w} : pc'[v] = "idle" /\ fd'[v] = NoInode
      BY <1>0, <1>1, <2>2, Types
    <2>4. pc'[w] = "cleanup" /\ fd'[w] = NoInode
      BY <1>0, <1>1, Types
    <2>5. Alone' /\ OwnTemporary' /\ WrittenWhole'
      BY <2>3, <2>4 DEF Alone, OwnTemporary, WrittenWhole
    <2>6. NamesApart'
      BY <1>1, <1>2, <2>1 DEF Protected, NamesApart
    <2>7. dir.temporary = fd[w] /\ doc[w] \in Documents
      BY <1>0, <1>1, <2>1, Types DEF Protected, OwnTemporary
    <2>8. Kept(dir.temporary)
      BY <1>1, <2>1, <2>7 DEF Protected, WrittenWhole, Kept
    <2>9. TargetsKept'
      BY <1>1, <1>2, <2>1, <2>8 DEF Protected, TargetsKept, Kept, Syncs
    <2> QED
      BY <2>5, <2>6, <2>9 DEF Protected
  <1> QED
    BY <1>0, <1>3, <1>4, <1>5 DEF IndInv

(* The end of a save, however it comes, leaves the target alone.            *)
LEMMA EndStep ==
    ASSUME IndInv, NEW w \in Writers, Succeed(w) \/ Fail(w) \/ Crash(w)
    PROVE  IndInv'
  <1>0. TypeOK
    BY DEF IndInv
  <1>1. /\ pc' = [pc EXCEPT ![w] = "idle"]
        /\ fd' = [fd EXCEPT ![w] = NoInode]
        /\ doc' = [doc EXCEPT ![w] = NoFile]
        /\ dir' = dir \/ dir' = [dir EXCEPT !.temporary = NoInode]
        /\ UNCHANGED <<kind, inode, diskDir, exposed>>
    BY DEF Succeed, Fail, Crash, Ends, Goto, Unlinked, files
  <1>2. /\ faults' \in Nat
        /\ answer' \in [Writers -> {"none", "saved", "failed"}]
    BY <1>0, Types DEF Succeed, Fail, Crash, Ends
  <1>3. /\ dir' \in Directory /\ dir'.target = dir.target
        /\ dir'.temporary = dir.temporary \/ dir'.temporary = NoInode
    BY <1>0, <1>1, Types DEF Directory
  <1>4. TypeOK'
    BY <1>0, <1>1, <1>2, <1>3, Types DEF TypeOK, At
  <1>5. (Conforming => ~exposed)'
    BY <1>1 DEF IndInv, Conforming, Exclusive, Loops, Syncs
  <1>6. ASSUME ~exposed' PROVE Protected'
    <2>1. Protected /\ pc[w] # "idle"
      BY <1>1, <1>6 DEF IndInv, Succeed, Fail, Crash, At
    <2>2. \A v \in Writers : pc'[v] = "idle" /\ fd'[v] = NoInode
      BY <1>0, <1>1, <2>1, Types DEF Protected, Alone
    <2>3. Alone' /\ OwnTemporary' /\ WrittenWhole'
      BY <2>2 DEF Alone, OwnTemporary, WrittenWhole
    <2>4. NamesApart'
      BY <1>1, <1>3, <2>1 DEF Protected, NamesApart
    <2>5. TargetsKept'
      BY <1>1, <1>3, <2>1 DEF Protected, TargetsKept, Kept, Syncs
    <2> QED
      BY <2>3, <2>4, <2>5 DEF Protected
  <1> QED
    BY <1>0, <1>4, <1>5, <1>6 DEF IndInv

(* The directory that reaches the disk is one whose target is kept.         *)
LEMMA CommitStep ==
    ASSUME IndInv, CommitDirectory
    PROVE  IndInv'
  <1>1. /\ diskDir' = dir
        /\ UNCHANGED <<kind, inode, dir, pc, fd, doc, answer, faults, exposed>>
    BY DEF CommitDirectory
  <1>2. TypeOK'
    BY <1>1 DEF IndInv, TypeOK, At
  <1>3. ASSUME Protected PROVE Protected'
    <2>1. Alone' /\ OwnTemporary' /\ WrittenWhole'
      BY <1>1, <1>3 DEF Protected, Alone, OwnTemporary, WrittenWhole, Syncs
    <2>2. NamesApart' /\ TargetsKept'
      BY <1>1, <1>3 DEF Protected, NamesApart, TargetsKept, Kept, Syncs
    <2> QED
      BY <2>1, <2>2 DEF Protected
  <1> QED
    BY <1>1, <1>2, <1>3 DEF IndInv, Conforming, Exclusive, Loops, Syncs

(* A power cut brings back one of two directories, and spares the target of *)
(* either where the data is synced before the rename.                       *)
LEMMA PowerCutStep ==
    ASSUME IndInv, PowerCut
    PROVE  IndInv'
  <1>0. TypeOK
    BY DEF IndInv
  <1>1. PICK lost \in SUBSET {i \in Inodes : ~inode[i].synced},
             left \in {Empty, Torn} :
           inode' = [i \in Inodes |-> IF i \in lost
                                      THEN [content |-> left, synced |-> FALSE]
                                      ELSE inode[i]]
    BY DEF PowerCut
  <1>2. /\ faults' = faults + 1 /\ exposed' = (exposed \/ ~Syncs)
        /\ dir' \in {dir, diskDir} /\ diskDir' = dir'
        /\ pc' = [w \in Writers |-> "idle"]
        /\ fd' = [w \in Writers |-> NoInode]
        /\ doc' = [w \in Writers |-> NoFile]
        /\ UNCHANGED <<kind, answer>>
    BY DEF PowerCut
  <1>3. /\ inode' \in [Inodes -> [content : Documents \cup {Empty, Torn},
                                  synced : BOOLEAN]]
        /\ \A i \in Inodes : inode[i].synced => inode'[i] = inode[i]
    BY <1>0, <1>1, Types
  <1>4. TypeOK'
    BY <1>0, <1>2, <1>3, Types DEF TypeOK, At
  <1>5. (Conforming => ~exposed)'
    BY <1>2 DEF IndInv, Conforming, Exclusive, Loops, Syncs
  <1>6. ASSUME ~exposed' PROVE Protected'
    <2>1. Protected /\ Syncs
      BY <1>2, <1>6 DEF IndInv
    <2>2. Alone' /\ OwnTemporary' /\ WrittenWhole'
      BY <1>2 DEF Alone, OwnTemporary, WrittenWhole
    <2>3. NamesApart'
      BY <1>2, <2>1 DEF Protected, NamesApart
    <2>4. TargetsKept'
      BY <1>0, <1>2, <1>3, <2>1, Types
         DEF Protected, TargetsKept, Kept, Syncs, Directory
    <2> QED
      BY <2>2, <2>3, <2>4 DEF Protected
  <1> QED
    BY <1>0, <1>4, <1>5, <1>6 DEF IndInv

(* Every step preserves the invariant.                                      *)
LEMMA NextInd == IndInv /\ [Next]_vars => IndInv'
  <1> SUFFICES ASSUME IndInv, [Next]_vars PROVE IndInv'
    OBVIOUS
  <1>1. CASE UNCHANGED vars
    BY <1>1 DEF vars, files, IndInv, TypeOK, At, Conforming, Exclusive, Loops,
       Syncs, Protected, Alone, OwnTemporary, NamesApart, TargetsKept, Kept,
       WrittenWhole
  <1> QED
    BY <1>1, OpenStep, WriteStep, SyncStep, RenameStep, EndStep, CommitStep,
       PowerCutStep DEF Next

(* The inductive invariant holds in every reachable state.                  *)
THEOREM Invariance == Spec => []IndInv
  <1> QED
    BY InitInd, NextInd, PTL DEF Spec

(* Every variable keeps its shape, and a writer has a document and an open  *)
(* file exactly while it needs them.                                        *)
THEOREM TypeTheorem == Spec => []TypeOK
  <1>1. IndInv => TypeOK
    BY DEF IndInv
  <1> QED
    BY <1>1, Invariance, PTL

(* For any number of writers and faults, a file that is not whole has been  *)
(* exposed to one of the three things its kind has no protection against.   *)
THEOREM WholeTheorem == Spec => []WholeUnlessExposed
  <1>1. IndInv => WholeUnlessExposed
    BY DEF IndInv, Protected, TargetsKept, Kept, WholeUnlessExposed, Whole,
       ContentOf
  <1> QED
    BY <1>1, Invariance, PTL

(* A save has taken effect from the rename to its end.                      *)
applied == [w \in Writers |-> pc[w] = "cleanup"]

(* A step that keeps the inodes of both targets, and both names, keeps what *)
(* readers find.                                                            *)
LEMMA SameContents ==
    ASSUME TypeOK, dir'.target = dir.target, diskDir' = diskDir,
           \A i \in Inodes : i \in {dir.target, diskDir.target} =>
                               inode'[i].content = inode[i].content
    PROVE  ContentOf(dir)' = ContentOf(dir) /\ ContentOf(diskDir)' = ContentOf(diskDir)
  BY Types DEF ContentOf, Directory

(* Opening begins the abstract save.                                        *)
LEMMA OpenAtomic ==
    ASSUME IndInv, Conforming, NEW w \in Writers, NEW d \in Documents, Open(w, d)
    PROVE  Atomic!Begin(w, d)
  <1>0. TypeOK /\ Protected
    BY DEF IndInv
  <1>1. PICK i \in Inodes :
           /\ IF dir.temporary = NoInode THEN Free(i) ELSE i = dir.temporary
           /\ Hold(i, Empty)
           /\ dir' = [dir EXCEPT !.temporary = i]
    BY DEF Open
  <1>2. /\ pc[w] = "idle" /\ pc' = [pc EXCEPT ![w] = "write"]
        /\ doc' = [doc EXCEPT ![w] = d]
        /\ answer' = [answer EXCEPT ![w] = "none"]
        /\ diskDir' = diskDir
    BY DEF Open, At, Goto
  <1>3. i # dir.target /\ i # diskDir.target /\ dir'.target = dir.target
    BY <1>0, <1>1, Types DEF Directory, Protected, NamesApart, Free
  <1>4. \A j \in Inodes \ {i} : inode'[j] = inode[j]
    BY <1>0, <1>1, HoldChanges
  <1>5. ContentOf(dir)' = ContentOf(dir) /\ ContentOf(diskDir)' = ContentOf(diskDir)
    BY <1>0, <1>2, <1>3, <1>4, SameContents
  <1>6. applied' = applied
    BY <1>0, <1>2, Types DEF applied
  <1>7. doc[w] = NoFile
    BY <1>0, <1>2, Types
  <1> QED
    BY <1>2, <1>5, <1>6, <1>7 DEF Atomic!Begin, Atomic!Idle, applied

(* Writing and syncing the temporary file is invisible.                     *)
LEMMA WriteAtomic ==
    ASSUME IndInv, Conforming, NEW w \in Writers,
           Write(w) \/ WriteShort(w) \/ Sync(w)
    PROVE  UNCHANGED <<ContentOf(dir), ContentOf(diskDir), doc, applied, answer>>
  <1>0. TypeOK /\ Protected
    BY DEF IndInv
  <1>1. /\ pc[w] \in {"write", "written"} /\ fd[w] \in Inodes /\ fd[w] # NoInode
        /\ pc' = [pc EXCEPT ![w] = pc'[w]] /\ pc'[w] # "cleanup"
        /\ UNCHANGED <<dir, diskDir, doc, answer>>
    BY <1>0, Types DEF Write, WriteShort, Sync, At, Goto, AfterShortWrite
  <1>2. fd[w] # dir.target /\ fd[w] # diskDir.target
    BY <1>0, <1>1 DEF Protected, OwnTemporary, NamesApart
  <1>3. \A j \in Inodes \ {fd[w]} : inode'[j] = inode[j]
    <2>1. CASE Write(w) \/ WriteShort(w)
      <3>1. PICK content \in Documents \cup {Empty, Torn} : Hold(fd[w], content)
        BY <1>0, <1>1, <2>1, Types DEF Write, WriteShort, At
      <3> QED
        BY <1>0, <1>1, <3>1, Types DEF Hold
    <2>2. CASE Sync(w)
      BY <1>0, <1>1, <2>2, Types DEF Sync
    <2> QED
      BY <2>1, <2>2
  <1>4. ContentOf(dir)' = ContentOf(dir) /\ ContentOf(diskDir)' = ContentOf(diskDir)
    BY <1>0, <1>1, <1>2, <1>3, SameContents
  <1>5. applied' = applied
    BY <1>0, <1>1, Types DEF applied
  <1> QED
    BY <1>1, <1>4, <1>5

(* The rename is the instant the save takes effect.                         *)
LEMMA RenameAtomic ==
    ASSUME IndInv, Conforming, NEW w \in Writers, Rename(w)
    PROVE  Atomic!Apply(w)
  <1>0. TypeOK /\ Protected
    BY DEF IndInv
  <1>1. /\ pc[w] = "rename" /\ dir.temporary # NoInode
        /\ dir' = [temporary |-> NoInode, target |-> dir.temporary]
        /\ pc' = [pc EXCEPT ![w] = "cleanup"]
        /\ UNCHANGED <<inode, diskDir, doc, answer>>
    BY DEF Rename, At, Goto
  <1>2. doc[w] # NoFile /\ dir.temporary = fd[w]
    BY <1>0, <1>1, Types DEF Protected, OwnTemporary
  <1>3. inode[dir.temporary].content = doc[w]
    BY <1>0, <1>1, <1>2 DEF Protected, WrittenWhole
  <1>4. ContentOf(dir)' = doc[w] /\ ContentOf(diskDir)' = ContentOf(diskDir)
    BY <1>1, <1>3 DEF ContentOf
  <1>5. ~applied[w] /\ applied' = [applied EXCEPT ![w] = TRUE]
    BY <1>0, <1>1, Types DEF applied
  <1> QED
    BY <1>1, <1>2, <1>4, <1>5 DEF Atomic!Apply, Atomic!Idle, applied

(* Only a save that has taken effect is reported as saved.                  *)
LEMMA EndAtomic ==
    ASSUME IndInv, Conforming, NEW w \in Writers,
           Succeed(w) \/ Fail(w) \/ Crash(w)
    PROVE  Atomic!Succeed(w) \/ Atomic!Fail(w)
  <1>0. TypeOK
    BY DEF IndInv
  <1>1. /\ pc[w] # "idle" /\ pc' = [pc EXCEPT ![w] = "idle"]
        /\ doc' = [doc EXCEPT ![w] = NoFile]
        /\ dir' = dir \/ dir' = [dir EXCEPT !.temporary = NoInode]
        /\ UNCHANGED <<inode, diskDir>>
    BY DEF Succeed, Fail, Crash, Ends, Goto, Unlinked, files, At
  <1>2. \/ pc[w] = "cleanup" /\ answer' = [answer EXCEPT ![w] = "saved"]
        \/ answer' = [answer EXCEPT ![w] = "failed"]
    BY DEF Succeed, Fail, Crash, Ends, At
  <1>3. dir'.target = dir.target /\ doc[w] # NoFile
    BY <1>0, <1>1, Types DEF Directory
  <1>4. ContentOf(dir)' = ContentOf(dir) /\ ContentOf(diskDir)' = ContentOf(diskDir)
    BY <1>0, <1>1, <1>3, SameContents
  <1>5. /\ applied' = [applied EXCEPT ![w] = FALSE]
        /\ pc[w] = "cleanup" => applied[w]
    BY <1>0, <1>1, Types DEF applied
  <1> QED
    BY <1>1, <1>2, <1>3, <1>4, <1>5
       DEF Atomic!Succeed, Atomic!Fail, Atomic!End, Atomic!Idle, applied

(* The directory that reaches the disk is what readers find now.            *)
LEMMA CommitAtomic ==
    ASSUME CommitDirectory
    PROVE  Atomic!Commit
  BY DEF CommitDirectory, Atomic!Commit, ContentOf

(* A power cut brings back one of the two contents, whole.                  *)
LEMMA PowerCutAtomic ==
    ASSUME IndInv, Conforming, PowerCut
    PROVE  Atomic!PowerCut
  <1>0. TypeOK /\ Protected
    BY DEF IndInv
  <1>1. /\ dir' \in {dir, diskDir} /\ diskDir' = dir'
        /\ pc' = [w \in Writers |-> "idle"]
        /\ doc' = [w \in Writers |-> NoFile]
        /\ answer' = answer
    BY DEF PowerCut
  <1>2. \A i \in Inodes : inode[i].synced => inode'[i].content = inode[i].content
    BY DEF PowerCut
  <1>3. \A directory \in {dir, diskDir} :
           directory.target # NoInode => /\ directory.target \in Inodes
                                         /\ inode[directory.target].synced
    BY <1>0, Types DEF Protected, TargetsKept, Kept, Conforming, Directory
  <1>4. ContentOf(dir)' \in {ContentOf(dir), ContentOf(diskDir)}
    BY <1>1, <1>2, <1>3 DEF ContentOf
  <1>5. ContentOf(diskDir)' = ContentOf(dir)'
    BY <1>1 DEF ContentOf
  <1>6. applied' = [w \in Writers |-> FALSE]
    BY <1>1 DEF applied
  <1> QED
    BY <1>1, <1>4, <1>5, <1>6 DEF Atomic!PowerCut, applied

(* Each step of a conforming kind of file is a step of an atomic file, or   *)
(* none.                                                                    *)
LEMMA AtomicStep == IndInv /\ [Next]_vars => [Conforming => Atomic!Next]_(Atomic!vars)
  <1> SUFFICES ASSUME IndInv, [Next]_vars, Conforming
               PROVE  [Atomic!Next]_(Atomic!vars)
    OBVIOUS
  <1> USE DEF Atomic!vars
  <1>1. CASE UNCHANGED vars
    BY <1>1 DEF vars, files, ContentOf
  <1>2. ASSUME NEW w \in Writers, NEW d \in Documents, Open(w, d)
        PROVE  Atomic!Next
    BY <1>2, OpenAtomic DEF Atomic!Next
  <1>3. ASSUME NEW w \in Writers, Write(w) \/ WriteShort(w) \/ Sync(w)
        PROVE  UNCHANGED Atomic!vars
    BY <1>3, WriteAtomic DEF applied
  <1>4. ASSUME NEW w \in Writers, Rename(w) \/ Succeed(w) \/ Fail(w) \/ Crash(w)
        PROVE  Atomic!Next
    BY <1>4, RenameAtomic, EndAtomic DEF Atomic!Next
  <1>5. CASE CommitDirectory \/ PowerCut
    BY <1>5, CommitAtomic, PowerCutAtomic DEF Atomic!Next
  <1> QED
    BY <1>1, <1>2, <1>3, <1>4, <1>5 DEF Next

(* A file that is saved under a lock, with complete writes and fsync, is an *)
(* atomic file: this is what lets every other module write files in one     *)
(* step.                                                                    *)
THEOREM AtomicTheorem == Spec => ImplementsAtomicFile
  <1>1. Init => Atomic!Init
    <2> SUFFICES ASSUME Init PROVE Atomic!Init
      OBVIOUS
    <2>1. applied = [w \in Writers |-> FALSE]
      BY DEF Init, applied
    <2>2. ContentOf(dir) = NoFile /\ ContentOf(diskDir) = NoFile
      BY DEF Init, ContentOf
    <2> QED
      BY <2>1, <2>2 DEF Init, Atomic!Init, applied
  <1> QED
    BY <1>1, AtomicStep, Invariance, PTL DEF Spec, ImplementsAtomicFile

==============================================================================
