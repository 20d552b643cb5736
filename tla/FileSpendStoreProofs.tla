------------------------- MODULE FileSpendStoreProofs -------------------------
(***************************************************************************)
(* Proofs about FileSpendStore, for every set of records and every set of  *)
(* inodes: what a load returns, what an Ok promises, and that the files of *)
(* one id implement the record SpendProtocol takes its store to be.        *)
(***************************************************************************)
EXTENDS FileSpendStore, TLAPS

USE DistinctAssumption

-----------------------------------------------------------------------------
(* The inductive invariant.                                                *)

Names == Inodes \union {NoInode}

(* A file the target name leads to, may lead to after power loss, or that  *)
(* the reader has open holds a whole record, and the disk has it.          *)
Whole(i) == i # NoInode => data[i] \in Values /\ synced[i] = data[i]

WholeFiles == Whole(reader) /\ \A i \in onDisk : Whole(i)

(* No such file is the one the writer may yet truncate or write to.        *)
TmpApart ==
    /\ path \in onDisk
    /\ tmp # NoInode => tmp \notin onDisk /\ tmp # reader

(* What the writer has done by the step it is at.                          *)
WriterProgress ==
    /\ at \in {"create", "write", "sync", "rename", "syncDir"} => rec \in Values
    /\ at \in {"write", "sync", "rename"} => tmp \in Inodes
    /\ at \in {"sync", "rename"} => data[tmp] = rec
    /\ at = "rename" => synced[tmp] = rec
    /\ at = "syncDir" => Content(path) = rec
    /\ at \in {"unlink", "syncUnlink"} => rec = Absent
    /\ at = "syncUnlink" => path = NoInode

(* An Ok counts until the next write begins.                               *)
SettledAtRest == settled # Torn => at \in {"closed", "idle"}

(* Without a directory there is nothing in it, and nobody works on it.     *)
NothingWithoutHome == home = "absent" => at = "closed" /\ onDisk = {NoInode}

FileInv ==
    /\ TypeOK
    /\ WholeFiles /\ TmpApart /\ WriterProgress
    /\ SettledAtRest /\ NothingWithoutHome
    /\ loaded # Torn
    /\ SavedSurvives

-----------------------------------------------------------------------------
LEMMA FileInit == Init => FileInv
BY DEF Init, FileInv, TypeOK, Steps, Contents, WholeFiles, Whole, TmpApart, WriterProgress,
       SettledAtRest, NothingWithoutHome, SavedSurvives, Visible, Content

LEMMA FileStep == FileInv /\ [Next]_vars => FileInv'
<1>. SUFFICES ASSUME FileInv, [Next]_vars PROVE FileInv'
  OBVIOUS
<1>. USE DEF FileInv, TypeOK, Steps, Contents, WholeFiles, Whole, TmpApart, WriterProgress,
       SettledAtRest, NothingWithoutHome, SavedSurvives, Visible, Content
<1>1. CASE New
  BY <1>1, SMTT(30) DEF New, Step, fsVars, fileVars, writerVars
<1>2. CASE \E v \in Values : BeginSave(v)
  BY <1>2, SMTT(30) DEF BeginSave, fsVars, fileVars, writerVars
<1>3. CASE Create
  BY <1>3, SMTT(30) DEF Create, Step, Free, fsVars, fileVars, writerVars
<1>4. CASE WriteAll
  BY <1>4, SMTT(30) DEF WriteAll, Step, fsVars, fileVars, writerVars
<1>5. CASE SyncFile
  BY <1>5, SMTT(30) DEF SyncFile, Step, fsVars, fileVars, writerVars
<1>6. CASE Rename
  BY <1>6, SMTT(30) DEF Rename, Step, fsVars, fileVars, writerVars
<1>7. CASE EndSave
  BY <1>7, SMTT(30) DEF EndSave, SyncDir, fsVars, fileVars, writerVars
<1>8. CASE FailStep
  BY <1>8, SMTT(30) DEF FailStep, Fail, fsVars, fileVars, writerVars
<1>9. CASE BeginRemove
  BY <1>9, SMTT(30) DEF BeginRemove, fsVars, fileVars, writerVars
<1>10. CASE Unlink
  BY <1>10, SMTT(30) DEF Unlink, Step, fsVars, fileVars, writerVars
<1>11. CASE UnlinkNothing
  BY <1>11, SMTT(30) DEF UnlinkNothing, fsVars, fileVars, writerVars
<1>12. CASE EndRemove
  BY <1>12, SMTT(30) DEF EndRemove, SyncDir, fsVars, fileVars, writerVars
<1>13. CASE OpenAbsent
  BY <1>13, SMTT(30) DEF OpenAbsent, fsVars, fileVars, writerVars
<1>14. CASE Open
  BY <1>14, SMTT(30) DEF Open, fsVars, fileVars, writerVars
<1>15. CASE Read
  BY <1>15, SMTT(30) DEF Read, fsVars, fileVars, writerVars
<1>16. CASE Kill
  BY <1>16, SMTT(30) DEF Kill, fsVars, fileVars, writerVars
<1>17. CASE KeepHome
  BY <1>17, SMTT(30) DEF KeepHome, fsVars, fileVars, writerVars
<1>18. CASE PowerLoss
  BY <1>18, SMTT(30) DEF PowerLoss, fsVars, fileVars, writerVars
<1>19. CASE UNCHANGED vars
  BY <1>19 DEF vars, fsVars, fileVars, writerVars
<1>. QED
  BY <1>1, <1>2, <1>3, <1>4, <1>5, <1>6, <1>7, <1>8, <1>9, <1>10, <1>11, <1>12, <1>13, <1>14,
     <1>15, <1>16, <1>17, <1>18, <1>19 DEF Next

(* FileInv holds in every reachable state.                                  *)
THEOREM Invariance == Spec => []FileInv
BY FileInit, FileStep, PTL DEF Spec

(* Every state is of its type (spend_store.rs:180-267).                     *)
THEOREM TypeCorrect == Spec => []TypeOK
<1>1. FileInv => TypeOK
  BY DEF FileInv
<1>. QED
  BY Invariance, <1>1, PTL

(* A load never returns part of a record, whichever step of a save or a     *)
(* removal it meets and whatever crash came before (spend_store.rs:226-238, *)
(* 245-256).                                                                *)
THEOREM LoadsWholeRecords == Spec => []LoadsWhole
<1>1. FileInv => LoadsWhole
  BY DEF FileInv, WholeFiles, Whole, TmpApart, LoadsWhole, Visible, Content
<1>. QED
  BY Invariance, <1>1, PTL

(* After Ok the record is what every load finds, now and after any crash    *)
(* that leaves the directory (spend_store.rs:117-119, 226-227).             *)
THEOREM OkIsDurable == Spec => []SavedSurvives
<1>1. FileInv => SavedSurvives
  BY DEF FileInv
<1>. QED
  BY Invariance, <1>1, PTL

-----------------------------------------------------------------------------
(* The refinement.  Only Rename and Unlink change the record a load finds; *)
(* a directory sync, or the system writing the new directory back, settles *)
(* it; power loss stops the machine; every other step stutters.            *)

(* What load may return after the machine stops.                           *)
Possible == {Content(i) : i \in onDisk} \union (IF home = "new" THEN {Absent} ELSE {})

LEMMA ContractDefs ==
    /\ Contract!Init <=> Visible \in Values \union {Absent} /\ Possible = {Visible}
    /\ \A v : Contract!Write(v) <=> Visible' = v /\ Possible' = Possible \union {v}
    /\ Contract!Settle <=>
          Visible' = Visible /\ Possible' \in SUBSET Possible /\ Visible \in Possible'
    /\ Contract!Stop <=> Visible' \in Possible /\ Possible' = {Visible'}
    /\ (Visible' = Visible /\ Possible' = Possible) => UNCHANGED Contract!vars
BY DEF Contract!Init, Contract!Write, Contract!Settle, Contract!Stop, Contract!vars, Possible

LEMMA ContractInit == Init => Contract!Init
<1>. SUFFICES ASSUME Init PROVE Visible \in Values \union {Absent} /\ Possible = {Visible}
  BY ContractDefs
<1>. QED
  BY DEF Init, Visible, Content, Possible

(* A step that leaves the names and the data they lead to leaves the record.*)
LEMMA ContractStutter ==
    ASSUME home' = home, path' = path, onDisk' = onDisk, path \in onDisk,
           \A i \in onDisk : Content(i)' = Content(i)
    PROVE  [Contract!Next]_(Contract!vars)
<1>1. Visible' = Visible
  BY DEF Visible, Content
<1>2. {Content(i) : i \in onDisk}' = {Content(i) : i \in onDisk}
  BY DEF Content
<1>. QED
  BY <1>1, <1>2, ContractDefs DEF Possible

(* Every step of the files is a step of the record, or a stutter.           *)
LEMMA ContractStep == FileInv /\ [Next]_vars => [Contract!Next]_(Contract!vars)
<1>. SUFFICES ASSUME FileInv, [Next]_vars PROVE [Contract!Next]_(Contract!vars)
  OBVIOUS
<1>. USE DEF fsVars, fileVars, writerVars
<1>0. TypeOK /\ WholeFiles /\ TmpApart /\ WriterProgress /\ NothingWithoutHome
  BY DEF FileInv
<1>1. CASE New
  <2>1. CASE home = "absent"
    <3>1. path = NoInode /\ path' = NoInode /\ onDisk = {NoInode} /\ onDisk' = {NoInode}
      BY <1>0, <1>1, <2>1 DEF New, NothingWithoutHome, TmpApart
    <3>2. Visible' = Visible /\ Possible' = Possible
      BY <1>1, <2>1, <3>1 DEF New, Visible, Content, Possible
    <3>. QED
      BY <3>2, ContractDefs
  <2>2. CASE home # "absent"
    BY <1>0, <1>1, <2>2, ContractStutter DEF New, TmpApart, Content
  <2>. QED
    BY <2>1, <2>2
<1>2. CASE \E v \in Values : BeginSave(v)
  BY <1>0, <1>2, ContractStutter DEF BeginSave, TmpApart, Content
<1>3. CASE Create
  BY <1>0, <1>3, ContractStutter DEF Create, Free, TmpApart, TypeOK, Content
<1>4. CASE WriteAll
  BY <1>0, <1>4, ContractStutter DEF WriteAll, TmpApart, WriterProgress, TypeOK, Content
<1>5. CASE SyncFile
  BY <1>0, <1>5, ContractStutter DEF SyncFile, TmpApart, Content
<1>6. CASE Rename
  <2>1. rec \in Values /\ Content(tmp) = rec /\ tmp # NoInode
    BY <1>0, <1>6 DEF Rename, WriterProgress, Content
  <2>2. Visible' = rec
    BY <1>6, <2>1 DEF Rename, Visible, Content
  <2>3. {Content(i) : i \in onDisk}' = {Content(i) : i \in onDisk} \union {rec}
    BY <1>6, <2>1 DEF Rename, Content
  <2>4. Possible' = Possible \union {rec}
    BY <1>6, <2>3 DEF Rename, Possible
  <2>. QED
    BY <2>1, <2>2, <2>4, ContractDefs DEF Contract!Next
<1>7. CASE EndSave
  <2>1. Visible' = Visible /\ Visible \in Possible' /\ Possible' \subseteq Possible
    BY <1>0, <1>7 DEF EndSave, SyncDir, TmpApart, Visible, Content, Possible
  <2>. QED
    BY <2>1, ContractDefs DEF Contract!Next
<1>8. CASE FailStep
  BY <1>0, <1>8, ContractStutter DEF FailStep, TmpApart, Content
<1>9. CASE BeginRemove
  BY <1>0, <1>9, ContractStutter DEF BeginRemove, TmpApart, Content
<1>10. CASE Unlink
  <2>1. Visible' = Absent
    BY <1>10 DEF Unlink, Visible, Content
  <2>2. {Content(i) : i \in onDisk}' = {Content(i) : i \in onDisk} \union {Absent}
    BY <1>10 DEF Unlink, Content
  <2>3. Possible' = Possible \union {Absent}
    BY <1>10, <2>2 DEF Unlink, Possible
  <2>. QED
    BY <2>1, <2>3, ContractDefs DEF Contract!Next
<1>11. CASE UnlinkNothing
  BY <1>0, <1>11, ContractStutter DEF UnlinkNothing, TmpApart, Content
<1>12. CASE EndRemove
  <2>1. Visible' = Visible /\ Visible \in Possible' /\ Possible' \subseteq Possible
    BY <1>0, <1>12 DEF EndRemove, SyncDir, TmpApart, Visible, Content, Possible
  <2>. QED
    BY <2>1, ContractDefs DEF Contract!Next
<1>13. CASE OpenAbsent
  BY <1>0, <1>13, ContractStutter DEF OpenAbsent, TmpApart, Content
<1>14. CASE Open
  BY <1>0, <1>14, ContractStutter DEF Open, TmpApart, Content
<1>15. CASE Read
  BY <1>0, <1>15, ContractStutter DEF Read, TmpApart, Content
<1>16. CASE Kill
  BY <1>0, <1>16, ContractStutter DEF Kill, TmpApart, Content
<1>17. CASE KeepHome
  <2>1. Visible' = Visible /\ Visible \in Possible' /\ Possible' \subseteq Possible
    BY <1>0, <1>17 DEF KeepHome, TmpApart, Visible, Content, Possible
  <2>. QED
    BY <2>1, ContractDefs DEF Contract!Next
<1>18. CASE PowerLoss
  <2>1. CASE path' \in onDisk /\ home' # "new"
    <3>1. path' # NoInode => data'[path'] = data[path']
      BY <1>0, <1>18, <2>1 DEF PowerLoss, WholeFiles, Whole, TypeOK
    <3>2. Visible' \in Possible
      <4>1. Visible' = Content(path')
        BY <3>1 DEF Visible, Content
      <4>. QED
        BY <2>1, <4>1 DEF Possible
    <3>3. Possible' = {Visible'}
      BY <1>18, <2>1 DEF PowerLoss, Visible, Content, Possible
    <3>. QED
      BY <3>2, <3>3, ContractDefs DEF Contract!Next
  <2>2. CASE home = "new" /\ home' = "absent" /\ path' = NoInode
    <3>1. Visible' = Absent /\ Possible' = {Absent} /\ Absent \in Possible
      BY <1>18, <2>2 DEF PowerLoss, Visible, Content, Possible
    <3>. QED
      BY <3>1, ContractDefs DEF Contract!Next
  <2>. QED
    BY <1>18, <2>1, <2>2 DEF PowerLoss
<1>19. CASE UNCHANGED vars
  BY <1>0, <1>19, ContractStutter DEF vars, TmpApart, Content
<1>. QED
  BY <1>1, <1>2, <1>3, <1>4, <1>5, <1>6, <1>7, <1>8, <1>9, <1>10, <1>11, <1>12, <1>13,
     <1>14, <1>15, <1>16, <1>17, <1>18, <1>19 DEF Next

(* The files of one id implement the record that SpendProtocol relies on:   *)
(* replaced or removed as a whole, and after a failure or a crash the old   *)
(* one or the new one (spend_store.rs:115-134, 218-267).                    *)
THEOREM FilesImplementRecord == Spec => ImplementsRecord
BY Invariance, ContractInit, ContractStep, PTL DEF Spec, ImplementsRecord, Contract!Spec
===============================================================================
