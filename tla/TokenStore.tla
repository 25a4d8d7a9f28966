----------------------------- MODULE TokenStore -----------------------------
(***************************************************************************)
(* Persistence of the token file (rsc/src/auth/store.rs).                  *)
(*                                                                         *)
(* TokenStore::save makes the directory if it has to and replaces the file *)
(* in it through a temporary one: remove a leftover, create it anew,       *)
(* write, fsync, rename, fsync the directory.  Each of these system calls  *)
(* is an action.  The file system below them has two layers: what running  *)
(* processes see (dir, data) and what a power loss leaves (diskDir,        *)
(* diskData).  The kernel may copy the first to the second at any time;    *)
(* fsync forces it.  The name of a new directory is an entry of its        *)
(* parent, which save never syncs: until the kernel writes it back (root)  *)
(* a power loss takes the directory with everything in it.                 *)
(***************************************************************************)
CONSTANTS
  Savers,           \* tasks that may be inside save()
  Tokens,           \* complete token files
  Inodes,           \* files the file system can hold
  None,             \* no file, no descriptor, no value
  Partial,          \* file content that serde_json refuses: empty or truncated
  Exclusive,        \* do the callers of save() exclude one another?
  SilentWriteErrors \* may write_all() return Ok for bytes that never land?

ASSUME StoreAssumption ==
  /\ None \notin Inodes \cup Tokens \cup {Partial}
  /\ Partial \notin Tokens
  /\ Exclusive \in BOOLEAN
  /\ SilentWriteErrors \in BOOLEAN

VARIABLES
  root,               \* the directory: "absent", "made" (its name is not on disk yet), "synced"
  dir, data,          \* directory entries and file contents, as processes see them
  diskDir, diskData,  \* the same as a power loss would leave them
  pc, tok, fd,        \* per saver: next system call, value to save, open file
  acked               \* history: value of the last save() that returned Ok,
                      \* None again once another save has replaced the file
                      \* or the directory is lost

fsVars == <<root, dir, data, diskDir, diskData>>
vars == <<fsVars, pc, tok, fd, acked>>

Steps == {"idle", "mkdir", "remove", "create", "write", "sync", "rename", "syncdir"}
MaybeInode == Inodes \cup {None}

(* A saver has a file open exactly while it writes and syncs it: the       *)
(* drop(file) before the rename, and every way out of save().              *)
TypeOK ==
  /\ root \in {"absent", "made", "synced"}
  /\ dir \in [path : MaybeInode, tmp : MaybeInode]
  /\ diskDir \in [path : MaybeInode, tmp : MaybeInode]
  /\ data \in [Inodes -> Tokens \cup {Partial}]
  /\ diskData \in [Inodes -> Tokens \cup {Partial}]
  /\ pc \in [Savers -> Steps]
  /\ tok \in [Savers -> Tokens \cup {None}]
  /\ fd \in [Savers -> MaybeInode]
  /\ \A s \in Savers : fd[s] # None <=> pc[s] \in {"write", "sync"}
  /\ acked \in Tokens \cup {None}

NoEntries == [path |-> None, tmp |-> None]

(* No token file yet, whether or not there is a directory for it. *)
Init ==
  /\ root \in {"absent", "synced"}
  /\ dir = NoEntries /\ diskDir = dir
  /\ data = [i \in Inodes |-> Partial]   /\ diskData = data
  /\ pc = [s \in Savers |-> "idle"]
  /\ tok = [s \in Savers |-> None]
  /\ fd = [s \in Savers |-> None]
  /\ acked = None

(* TokenStore::load: no file, the tokens in it, or an error (Partial). *)
Load(d, content) == IF d.path = None THEN None ELSE content[d.path]

Goto(s, from, to) == pc[s] = from /\ pc' = [pc EXCEPT ![s] = to]

-----------------------------------------------------------------------------
(* Mutants: bugs this code could have had, one for each property.          *)

(* drop(file) is forgotten. *)
SyncData_KeepsOpen(s) ==
  /\ Goto(s, "sync", "rename")
  /\ diskData' = [diskData EXCEPT ![fd[s]] = data[fd[s]]]
  /\ UNCHANGED <<root, dir, data, diskDir, tok, fd, acked>>

(* Written in place. *)
CreateTmp_InPlace(s) ==
  /\ Goto(s, "create", "write")
  /\ \E i \in Inodes \ {dir.path, diskDir.path} :
       /\ dir' = [path |-> i, tmp |-> i]
       /\ data' = [data EXCEPT ![i] = Partial]
       /\ diskData' = [diskData EXCEPT ![i] = Partial]
       /\ fd' = [fd EXCEPT ![s] = i]
  /\ UNCHANGED <<root, diskDir, tok, acked>>

(* No fsync of the file. *)
SyncData_NoFsync(s) ==
  /\ Goto(s, "sync", "rename")
  /\ fd' = [fd EXCEPT ![s] = None]
  /\ UNCHANGED <<fsVars, tok, acked>>

(* No fsync of the directory. *)
SyncDir_NoFsync(s) ==
  /\ Goto(s, "syncdir", "idle")
  /\ acked' = tok[s]
  /\ tok' = [tok EXCEPT ![s] = None]
  /\ UNCHANGED <<fsVars, fd>>

-----------------------------------------------------------------------------
(* The system calls of save(t), in order. *)

Begin(s, t) ==
  /\ Exclusive => \A r \in Savers : pc[r] = "idle"
  /\ Goto(s, "idle", "mkdir")
  /\ tok' = [tok EXCEPT ![s] = t]
  /\ UNCHANGED <<fsVars, fd, acked>>

(* create_dir_all: nothing to do if the directory is there. *)
MakeDir(s) ==
  /\ Goto(s, "mkdir", "remove")
  /\ root' = IF root = "absent" THEN "made" ELSE root
  /\ UNCHANGED <<dir, data, diskDir, diskData, tok, fd, acked>>

(* A missing temporary file is fine. *)
RemoveTmp(s) ==
  /\ Goto(s, "remove", "create")
  /\ dir' = [dir EXCEPT !.tmp = None]
  /\ UNCHANGED <<root, data, diskDir, diskData, tok, fd, acked>>

(* create_new: an existing temporary file is an error, see Fail. *)
CreateTmp(s) ==
  /\ Goto(s, "create", "write")
  /\ dir.tmp = None
  /\ \E i \in Inodes :
       /\ i \notin {dir.path, diskDir.path, diskDir.tmp}
       /\ \A r \in Savers : fd[r] # i
       /\ dir' = [dir EXCEPT !.tmp = i]
       /\ data' = [data EXCEPT ![i] = Partial]
       /\ diskData' = [diskData EXCEPT ![i] = Partial]
       /\ fd' = [fd EXCEPT ![s] = i]
  /\ UNCHANGED <<root, diskDir, tok, acked>>

WriteAll(s) ==
  /\ Goto(s, "write", "sync")
  /\ \/ data' = [data EXCEPT ![fd[s]] = tok[s]]
     \/ SilentWriteErrors /\ UNCHANGED data
  /\ UNCHANGED <<root, dir, diskDir, diskData, tok, fd, acked>>

(* fsync, then the descriptor is dropped. *)
SyncData(s) ==
  /\ Goto(s, "sync", "rename")
  /\ diskData' = [diskData EXCEPT ![fd[s]] = data[fd[s]]]
  /\ fd' = [fd EXCEPT ![s] = None]
  /\ UNCHANGED <<root, dir, data, diskDir, tok, acked>>

Rename(s) ==
  /\ Goto(s, "rename", "syncdir")
  /\ dir.tmp # None
  /\ dir' = [path |-> dir.tmp, tmp |-> None]
  /\ acked' = None
  /\ UNCHANGED <<root, data, diskDir, diskData, tok, fd>>

SyncDir(s) ==
  /\ Goto(s, "syncdir", "idle")
  /\ diskDir' = dir
  /\ acked' = tok[s]
  /\ tok' = [tok EXCEPT ![s] = None]
  /\ UNCHANGED <<root, dir, data, diskData, fd>>

(* Any call may fail, the task may be dropped, the process may be killed:  *)
(* save() stops where it is and leaves its temporary file behind.          *)
Fail(s) ==
  /\ pc[s] # "idle"
  /\ pc' = [pc EXCEPT ![s] = "idle"]
  /\ tok' = [tok EXCEPT ![s] = None]
  /\ fd' = [fd EXCEPT ![s] = None]
  /\ UNCHANGED <<fsVars, acked>>

-----------------------------------------------------------------------------
(* The machine. *)

FlushData(i) ==
  /\ diskData' = [diskData EXCEPT ![i] = data[i]]
  /\ UNCHANGED <<root, dir, data, diskDir, pc, tok, fd, acked>>

FlushDir ==
  /\ diskDir' = dir
  /\ UNCHANGED <<root, dir, data, diskData, pc, tok, fd, acked>>

FlushRoot ==
  /\ root = "made" /\ root' = "synced"
  /\ UNCHANGED <<dir, data, diskDir, diskData, pc, tok, fd, acked>>

(* A directory whose name is not on disk is gone with all its entries. *)
PowerLoss ==
  /\ IF root = "synced"
     THEN dir' = diskDir /\ UNCHANGED <<root, diskDir, acked>>
     ELSE root' = "absent" /\ dir' = NoEntries /\ diskDir' = NoEntries /\ acked' = None
  /\ data' = diskData /\ UNCHANGED diskData
  /\ pc' = [s \in Savers |-> "idle"]
  /\ tok' = [s \in Savers |-> None]
  /\ fd' = [s \in Savers |-> None]

SaveStep(s) ==
  \/ \E t \in Tokens : Begin(s, t)
  \/ MakeDir(s) \/ RemoveTmp(s) \/ CreateTmp(s) \/ WriteAll(s) \/ SyncData(s)
  \/ Rename(s) \/ SyncDir(s) \/ Fail(s)

Next ==
  \/ \E s \in Savers : SaveStep(s)
  \/ \E i \in Inodes : FlushData(i)
  \/ FlushDir \/ FlushRoot \/ PowerLoss

Spec == Init /\ [][Next]_vars

-----------------------------------------------------------------------------
(* What load() finds when the machine is up again. *)
AfterPowerLoss == IF root = "synced" THEN Load(diskDir, diskData) ELSE None

(* A reader never gets a fragment: load() finds no file or a complete one, *)
(* whatever save() is doing (the tmp-and-rename protocol of save).         *)
NoTornRead == Load(dir, data) \in Tokens \cup {None}

(* The same for the file a power loss leaves: the data reached the disk    *)
(* before the rename could ("data on disk before the rename makes it       *)
(* visible").                                                              *)
NoTornCrash == Load(diskDir, diskData) \in Tokens \cup {None}

(* Neither happens to the saves of a process that are made one at a time.  *)
NoTorn == NoTornRead /\ NoTornCrash

(* Once save() has returned Ok the value survives a power loss: the rename *)
(* itself was persisted before returning.  Not so, until the kernel writes *)
(* the name back, in a directory that save() has had to make.              *)
AckedIsDurable ==
  acked # None => /\ Load(dir, data) = acked
                  /\ AfterPowerLoss = acked \/ root = "made"

(* save() and load() implement an atomic, crash-safe register. *)
File == INSTANCE TokenFile WITH visible <- Load(dir, data),
                                durable <- Load(diskDir, diskData),
                                kept <- root = "synced"
AtomicFile == File!Spec
=============================================================================
