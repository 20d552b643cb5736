---------------------------- MODULE FileSpendStore ----------------------------
(***************************************************************************)
(* FileSpendStore (escrow/src/spend_store.rs:180-267): one JSON file per   *)
(* id, written to a temporary file, synced, renamed over the target, and   *)
(* the directory synced.  The module follows the two names of one id down  *)
(* to the inodes they lead to, with one writer (calls for an id do not     *)
(* overlap) and a reader that may load the record at any moment (the       *)
(* status query of another thread).                                        *)
(*                                                                         *)
(* The file system: a name or a file's data survives power loss only once  *)
(* the directory or the file was synced; until then either version may be  *)
(* found.  A killed process loses neither.  The store's own directory is a  *)
(* name too, and the code syncs no parent of it: until the system writes it *)
(* back, power loss may take the directory with everything in it.           *)
(***************************************************************************)
EXTENDS Naturals, FiniteSets

CONSTANTS
    Values,     \* records that may be saved
    Absent,     \* no record
    Torn,       \* data that is not a whole record
    Inodes,     \* inodes available for files
    NoInode     \* a name that does not exist

ASSUME DistinctAssumption ==
    Absent \notin Values /\ Torn \notin Values /\ Torn # Absent /\ NoInode \notin Inodes

VARIABLES
    home,       \* the store's directory: "absent", "new" (not on disk yet) or "kept"
    path,       \* the inode the target name leads to
    tmp,        \* the inode the temporary name leads to
    data,       \* each inode's content
    synced,     \* each inode's content as of its last sync
    onDisk,     \* inodes the target name may lead to after power loss
    at,         \* where the writer is; "closed" without a FileSpendStore
    rec,        \* the record it saves; Absent when it removes
    settled,    \* what the last write returned Ok for, until the next begins; else Torn
    reader,     \* the inode the reader has opened, or NoInode
    loaded      \* what the last finished load returned

fileVars == <<path, tmp, data, synced, onDisk>>
fsVars == <<home, fileVars>>
writerVars == <<at, rec, settled>>
vars == <<fsVars, writerVars, reader, loaded>>

Contents == Values \union {Torn}
Steps == {"closed", "idle", "create", "write", "sync", "rename", "syncDir", "unlink", "syncUnlink"}

Content(i) == IF i = NoInode THEN Absent ELSE data[i]
Visible == Content(path)

TypeOK ==
    /\ home \in {"absent", "new", "kept"}
    /\ path \in Inodes \union {NoInode}
    /\ tmp \in Inodes \union {NoInode}
    /\ data \in [Inodes -> Contents]
    /\ synced \in [Inodes -> Contents]
    /\ onDisk \in (SUBSET (Inodes \union {NoInode})) \ {{}}
    /\ at \in Steps
    /\ rec \in Values \union {Absent}
    /\ settled \in Values \union {Absent, Torn}
    /\ reader \in Inodes \union {NoInode}
    /\ loaded \in Contents \union {Absent}

Init ==
    /\ home \in {"absent", "kept"}
    /\ path = NoInode /\ tmp = NoInode
    /\ data = [i \in Inodes |-> Torn]
    /\ synced = [i \in Inodes |-> Torn]
    /\ onDisk = {NoInode}
    /\ at = "closed" /\ rec = Absent /\ settled = Absent
    /\ reader = NoInode /\ loaded = Absent

(* Inodes no name, pending name or open file leads to.                     *)
Free == Inodes \ ({path, tmp, reader} \union onDisk)

Fail == at' = "idle" /\ UNCHANGED <<rec, settled>>
Step(s) == at' = s /\ UNCHANGED <<rec, settled>>

(* FileSpendStore::new, create_dir_all.                                    *)
New ==
    /\ at = "closed"
    /\ home' = IF home = "absent" THEN "new" ELSE home
    /\ Step("idle")
    /\ UNCHANGED <<fileVars, reader, loaded>>

-----------------------------------------------------------------------------
(* save, one system call at a time; each may fail, and every failure is    *)
(* returned at once.                                                       *)

BeginSave(v) ==
    /\ at = "idle"
    /\ at' = "create" /\ rec' = v /\ settled' = Torn
    /\ UNCHANGED <<fsVars, reader, loaded>>

(* variant: the target itself is opened and truncated.                     *)
CreateTarget ==
    /\ at = "create"
    /\ \E i \in IF path = NoInode THEN Free ELSE {path} :
          /\ tmp' = i /\ path' = i /\ onDisk' = onDisk \union {i}
          /\ data' = [data EXCEPT ![i] = Torn]
    /\ Step("write")
    /\ UNCHANGED <<home, synced, reader, loaded>>

(* File::create truncates what the temporary name leads to, if anything.   *)
Create ==
    /\ at = "create"
    /\ \E i \in IF tmp = NoInode THEN Free ELSE {tmp} :
          tmp' = i /\ data' = [data EXCEPT ![i] = Torn]
    /\ Step("write")
    /\ UNCHANGED <<home, path, synced, onDisk, reader, loaded>>

WriteAll ==
    /\ at = "write"
    /\ data' = [data EXCEPT ![tmp] = rec]
    /\ Step("sync")
    /\ UNCHANGED <<home, path, tmp, synced, onDisk, reader, loaded>>

(* variant: the data is not synced before the rename.                      *)
SkipSync ==
    /\ at = "sync"
    /\ Step("rename")
    /\ UNCHANGED <<fsVars, reader, loaded>>

SyncFile ==
    /\ at = "sync"
    /\ synced' = [synced EXCEPT ![tmp] = data[tmp]]
    /\ Step("rename")
    /\ UNCHANGED <<home, path, tmp, data, onDisk, reader, loaded>>

Rename ==
    /\ at = "rename"
    /\ path' = tmp /\ tmp' = NoInode
    /\ onDisk' = onDisk \union {tmp}
    /\ Step("syncDir")
    /\ UNCHANGED <<home, data, synced, reader, loaded>>

(* variant: the directory is not synced.                                   *)
SkipSyncDir == UNCHANGED onDisk

(* The directory as the process sees it reaches the disk.                  *)
SyncDir == onDisk' = {path}

EndSave ==
    /\ at = "syncDir"
    /\ SyncDir
    /\ at' = "idle" /\ settled' = rec /\ rec' = rec
    /\ UNCHANGED <<home, path, tmp, data, synced, reader, loaded>>

(* Any call of a save or a remove may fail; a failed write may have        *)
(* written part of the data.  An unlink or rename that fails did nothing,  *)
(* a failed directory sync comes after it.                                 *)
FailStep ==
    /\ at \notin {"closed", "idle"}
    /\ Fail
    /\ UNCHANGED <<fsVars, reader, loaded>>

-----------------------------------------------------------------------------
(* remove: unlink, then sync the directory; nothing to unlink is a success *)
(* at once, without a sync.                                                *)

BeginRemove ==
    /\ at = "idle"
    /\ at' = "unlink" /\ rec' = Absent /\ settled' = Torn
    /\ UNCHANGED <<fsVars, reader, loaded>>

Unlink ==
    /\ at = "unlink" /\ path # NoInode
    /\ path' = NoInode /\ onDisk' = onDisk \union {NoInode}
    /\ Step("syncUnlink")
    /\ UNCHANGED <<home, tmp, data, synced, reader, loaded>>

UnlinkNothing ==
    /\ at = "unlink" /\ path = NoInode
    /\ at' = "idle" /\ UNCHANGED <<rec, settled>>
    /\ UNCHANGED <<fsVars, reader, loaded>>

EndRemove ==
    /\ at = "syncUnlink"
    /\ SyncDir
    /\ at' = "idle" /\ settled' = Absent /\ rec' = rec
    /\ UNCHANGED <<home, path, tmp, data, synced, reader, loaded>>

-----------------------------------------------------------------------------
(* load: open, then read to the end.                                       *)

OpenAbsent ==
    /\ at # "closed" /\ path = NoInode
    /\ loaded' = Absent
    /\ UNCHANGED <<fsVars, writerVars, reader>>

Open ==
    /\ at # "closed" /\ path # NoInode /\ reader = NoInode
    /\ reader' = path
    /\ UNCHANGED <<fsVars, writerVars, loaded>>

Read ==
    /\ reader # NoInode
    /\ loaded' = data[reader] /\ reader' = NoInode
    /\ UNCHANGED <<fsVars, writerVars>>

-----------------------------------------------------------------------------
(* Crashes.                                                                *)

(* The process is killed: what it did is still in the kernel's hands.      *)
Kill ==
    /\ at # "closed"
    /\ at' = "closed"
    /\ reader' = NoInode
    /\ UNCHANGED <<fsVars, rec, settled, loaded>>

(* The directory's own name reaches the disk in the system's time.         *)
KeepHome ==
    /\ home = "new" /\ home' = "kept"
    /\ UNCHANGED <<fileVars, writerVars, reader, loaded>>

(* Power is lost: the target name is any it may be on disk, the temporary  *)
(* one may be gone or lead again to a file whose rename was lost, data that *)
(* was not synced may be damaged, and a new directory may be gone with all  *)
(* its names.                                                              *)
PowerLoss ==
    /\ \/ /\ home' = IF home = "new" THEN "kept" ELSE home
          /\ path' \in onDisk
          /\ tmp' \in {NoInode} \union (({tmp} \union onDisk) \ {path'})
          /\ UNCHANGED settled
       \/ /\ home = "new" /\ home' = "absent"
          /\ path' = NoInode /\ tmp' = NoInode
          /\ settled' = Torn
    /\ onDisk' = {path'}
    /\ data' = [i \in Inodes |-> IF data[i] = synced[i] THEN data[i] ELSE Torn]
    /\ synced' = data'
    /\ at' = "closed"
    /\ reader' = NoInode
    /\ UNCHANGED <<rec, loaded>>

Next ==
    \/ New
    \/ \E v \in Values : BeginSave(v)
    \/ Create \/ WriteAll \/ SyncFile \/ Rename \/ EndSave \/ FailStep
    \/ BeginRemove \/ Unlink \/ UnlinkNothing \/ EndRemove
    \/ OpenAbsent \/ Open \/ Read
    \/ Kill \/ KeepHome \/ PowerLoss

Spec == Init /\ [][Next]_vars

-----------------------------------------------------------------------------
(* Properties.                                                             *)

(* A load never returns part of a record, whichever step of a save or a     *)
(* removal it meets and whatever crash came before (spend_store.rs:226-238, *)
(* 245-256).                                                                *)
LoadsWhole == loaded # Torn /\ Visible # Torn

(* Once save returned Ok the record is what a load finds, now and after any *)
(* crash, until the next write begins: "the record is durable when this     *)
(* returns" (spend_store.rs:117-119, 226-227).  Only the loss of a new      *)
(* directory takes it (spend_store.rs:190-195 syncs no parent).             *)
SavedSurvives ==
    settled # Torn => Visible = settled /\ \A i \in onDisk : Content(i) = settled

(* The files of one id implement the record the spend protocol relies on.   *)
Contract == INSTANCE DurableRecord WITH
    current <- Visible,
    possible <- {Content(i) : i \in onDisk} \union (IF home = "new" THEN {Absent} ELSE {})

ImplementsRecord == Contract!Spec
=============================================================================
