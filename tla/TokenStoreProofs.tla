-------------------------- MODULE TokenStoreProofs --------------------------
(***************************************************************************)
(* Proofs about TokenStore for any number of savers, token values and      *)
(* files, provided that the callers of save() exclude one another and that *)
(* a failed write is reported.  TLC shows that neither condition can be    *)
(* dropped (runs TwoSavers and SilentWrite).                               *)
(***************************************************************************)
EXTENDS TokenStore, TLAPS

Hypotheses == Exclusive /\ ~SilentWriteErrors

(* Only one saver is under way. *)
OneSaver == \A r, s \in Savers : pc[r] # "idle" /\ pc[s] # "idle" => r = s

(* A file that a directory entry makes visible is complete, and on disk. *)
Complete(i) == i # None => data[i] \in Tokens /\ diskData[i] = data[i]

(* The temporary file is never the published one, in either layer. *)
Apart ==
  /\ dir.tmp # None => dir.tmp # dir.path /\ dir.tmp # diskDir.path
  /\ diskDir.tmp # None => diskDir.tmp # diskDir.path

(* What the saver under way knows at each system call. *)
Progress(s) ==
  /\ pc[s] # "idle" => tok[s] \in Tokens
  /\ pc[s] \notin {"idle", "mkdir"} => root # "absent"
  /\ pc[s] \in {"write", "sync"} => fd[s] # None /\ fd[s] = dir.tmp
  /\ pc[s] = "sync" => data[dir.tmp] = tok[s]
  /\ pc[s] = "rename" =>
       dir.tmp # None /\ data[dir.tmp] = tok[s] /\ diskData[dir.tmp] = tok[s]
  /\ pc[s] = "syncdir" => dir.path # None /\ data[dir.path] = tok[s]

(* As soon as the directory's name is on disk, so is what was acknowledged. *)
Acked ==
  acked # None => /\ root # "absent"
                  /\ dir.path # None     /\ data[dir.path] = acked
                  /\ diskDir.path # None /\ diskData[diskDir.path] = acked

(* The inductive invariant: NoTornRead and NoTornCrash alone do not say    *)
(* that the temporary file a rename publishes is complete and synced.      *)
IInv ==
  /\ TypeOK
  /\ OneSaver
  /\ Complete(dir.path)
  /\ Complete(diskDir.path)
  /\ Apart
  /\ \A s \in Savers : Progress(s)
  /\ Acked

-----------------------------------------------------------------------------

LEMMA InitIInv == Init => IInv
  BY StoreAssumption
  DEF Init, IInv, TypeOK, OneSaver, Complete, Apart, Progress, Acked, Steps, MaybeInode,
      NoEntries

(* Type correctness, but for the saver under way: that it has a file open  *)
(* and a value to write comes from Progress.                               *)
LEMMA TypeStep == IInv /\ [Next]_vars => TypeOK'
<1> SUFFICES ASSUME IInv, [Next]_vars PROVE TypeOK'
  OBVIOUS
<1> USE StoreAssumption DEF IInv, TypeOK, Steps, MaybeInode, fsVars, Goto, NoEntries
<1>1. ASSUME NEW s \in Savers, NEW t \in Tokens, Begin(s, t) PROVE TypeOK'
  BY <1>1 DEF Begin
<1>1a. ASSUME NEW s \in Savers, MakeDir(s) PROVE TypeOK'
  BY <1>1a DEF MakeDir
<1>2. ASSUME NEW s \in Savers, RemoveTmp(s) PROVE TypeOK'
  BY <1>2 DEF RemoveTmp
<1>3. ASSUME NEW s \in Savers, CreateTmp(s) PROVE TypeOK'
  BY <1>3 DEF CreateTmp
<1>4. ASSUME NEW s \in Savers, WriteAll(s) PROVE TypeOK'
  BY <1>4 DEF WriteAll, Progress
<1>5. ASSUME NEW s \in Savers, SyncData(s) PROVE TypeOK'
  BY <1>5 DEF SyncData, Progress
<1>6. ASSUME NEW s \in Savers, Rename(s) PROVE TypeOK'
  BY <1>6 DEF Rename
<1>7. ASSUME NEW s \in Savers, SyncDir(s) PROVE TypeOK'
  BY <1>7 DEF SyncDir
<1>8. ASSUME NEW s \in Savers, Fail(s) PROVE TypeOK'
  BY <1>8 DEF Fail
<1>9. ASSUME NEW i \in Inodes, FlushData(i) PROVE TypeOK'
  BY <1>9 DEF FlushData
<1>10. CASE FlushDir
  BY <1>10 DEF FlushDir
<1>10a. CASE FlushRoot
  BY <1>10a DEF FlushRoot
<1>11. CASE PowerLoss
  BY <1>11 DEF PowerLoss
<1>12. CASE UNCHANGED vars
  BY <1>12 DEF vars
<1> QED
  BY <1>1, <1>1a, <1>2, <1>3, <1>4, <1>5, <1>6, <1>7, <1>8, <1>9, <1>10, <1>10a, <1>11, <1>12
  DEF Next, SaveStep

LEMMA IInvStep == Hypotheses /\ IInv /\ [Next]_vars => IInv'
<1> SUFFICES ASSUME Hypotheses, IInv, [Next]_vars PROVE IInv'
  OBVIOUS
<1>0. TypeOK'
  BY TypeStep
<1> DEFINE Rest == /\ OneSaver
                   /\ Complete(dir.path) /\ Complete(diskDir.path)
                   /\ Apart
                   /\ \A s \in Savers : Progress(s)
                   /\ Acked
<1> SUFFICES Rest'
  BY <1>0 DEF IInv
<1> USE StoreAssumption, <1>0 DEF Hypotheses, IInv, TypeOK, Steps, MaybeInode,
        fsVars, NoEntries, Goto, OneSaver, Complete, Apart, Progress, Acked
<1>1. ASSUME NEW s \in Savers, NEW t \in Tokens, Begin(s, t) PROVE Rest'
  BY <1>1 DEF Begin
<1>1a. ASSUME NEW s \in Savers, MakeDir(s) PROVE Rest'
  BY <1>1a DEF MakeDir
<1>2. ASSUME NEW s \in Savers, RemoveTmp(s) PROVE Rest'
  BY <1>2 DEF RemoveTmp
<1>3. ASSUME NEW s \in Savers, CreateTmp(s) PROVE Rest'
  BY <1>3 DEF CreateTmp
<1>4. ASSUME NEW s \in Savers, WriteAll(s) PROVE Rest'
  BY <1>4 DEF WriteAll
<1>5. ASSUME NEW s \in Savers, SyncData(s) PROVE Rest'
  BY <1>5 DEF SyncData
<1>6. ASSUME NEW s \in Savers, Rename(s) PROVE Rest'
  BY <1>6 DEF Rename
<1>7. ASSUME NEW s \in Savers, SyncDir(s) PROVE Rest'
  BY <1>7 DEF SyncDir
<1>8. ASSUME NEW s \in Savers, Fail(s) PROVE Rest'
  BY <1>8 DEF Fail
<1>9. ASSUME NEW i \in Inodes, FlushData(i) PROVE Rest'
  BY <1>9 DEF FlushData
<1>10. CASE FlushDir
  BY <1>10 DEF FlushDir
<1>10a. CASE FlushRoot
  BY <1>10a DEF FlushRoot
<1>11. CASE PowerLoss
  BY <1>11 DEF PowerLoss
<1>12. CASE UNCHANGED vars
  BY <1>12 DEF vars
<1> QED
  BY <1>1, <1>1a, <1>2, <1>3, <1>4, <1>5, <1>6, <1>7, <1>8, <1>9, <1>10, <1>10a, <1>11, <1>12
  DEF Next, SaveStep

LEMMA Invariance == Hypotheses /\ Spec => []IInv
<1>1. Init => IInv
  BY InitIInv
<1>2. Hypotheses /\ IInv /\ [Next]_vars => IInv'
  BY IInvStep
<1>3. SUFFICES ASSUME Hypotheses PROVE Spec => []IInv
  OBVIOUS
<1>4. IInv /\ [Next]_vars => IInv'
  BY <1>2, <1>3
<1> QED
  BY <1>1, <1>4, PTL DEF Spec

-----------------------------------------------------------------------------
(* The theorems. *)

(* The state stays within its types (TypeOK of the run TokenStore).        *)
THEOREM TypeCorrect == Hypotheses /\ Spec => []TypeOK
<1>1. IInv => TypeOK
  BY DEF IInv
<1> QED
  BY <1>1, Invariance, PTL

(* No reader and no power loss ever gets a fragment of the file: tmp,      *)
(* fsync and rename of save are enough.                                    *)
THEOREM WholeFiles == Hypotheses /\ Spec => []NoTorn
<1>1. IInv => NoTorn
  BY DEF IInv, TypeOK, MaybeInode, Complete, NoTorn, NoTornRead, NoTornCrash, Load
<1> QED
  BY <1>1, Invariance, PTL

(* Once save() has returned Ok the value is there after a power loss, as   *)
(* soon as the name of the directory it is in has reached the disk.        *)
THEOREM SavedMeansDurable == Hypotheses /\ Spec => []AckedIsDurable
<1>1. IInv => AckedIsDurable
  BY StoreAssumption
  DEF IInv, TypeOK, MaybeInode, Acked, AckedIsDurable, AfterPowerLoss, Load
<1> QED
  BY <1>1, Invariance, PTL

(* One step of the file system is a step of the register, or a stutter.    *)
LEMMA FileStep ==
  Hypotheses /\ IInv /\ [Next]_vars
    => [File!Next]_(File!fileVars)
<1> DEFINE Goal == [File!Next]_(File!fileVars)
<1> SUFFICES ASSUME Hypotheses, IInv, [Next]_vars PROVE Goal
  OBVIOUS
<1> USE StoreAssumption DEF Hypotheses, IInv, TypeOK, Steps, MaybeInode, fsVars,
        NoEntries, Goto, Load,
        File!Next, File!Publish, File!Persist, File!Keep, File!Revert, File!fileVars
<1>1. ASSUME NEW s \in Savers, NEW t \in Tokens, Begin(s, t) PROVE Goal
  BY <1>1 DEF Begin
<1>1a. ASSUME NEW s \in Savers, MakeDir(s) PROVE Goal
  BY <1>1a DEF MakeDir
<1>2. ASSUME NEW s \in Savers, RemoveTmp(s) PROVE Goal
  BY <1>2 DEF RemoveTmp
<1>3. ASSUME NEW s \in Savers, CreateTmp(s) PROVE Goal
  BY <1>3 DEF CreateTmp
<1>4. ASSUME NEW s \in Savers, WriteAll(s) PROVE Goal
  BY <1>4 DEF WriteAll, Progress, Apart
<1>5. ASSUME NEW s \in Savers, SyncData(s) PROVE Goal
  BY <1>5 DEF SyncData, Progress, Apart
<1>6. ASSUME NEW s \in Savers, Rename(s) PROVE Goal
  BY <1>6 DEF Rename, Progress
<1>7. ASSUME NEW s \in Savers, SyncDir(s) PROVE Goal
  BY <1>7 DEF SyncDir, Complete
<1>8. ASSUME NEW s \in Savers, Fail(s) PROVE Goal
  BY <1>8 DEF Fail
<1>9. ASSUME NEW i \in Inodes, FlushData(i) PROVE Goal
  BY <1>9 DEF FlushData, Complete
<1>10. CASE FlushDir
  BY <1>10 DEF FlushDir, Complete
<1>10a. CASE FlushRoot
  BY <1>10a DEF FlushRoot
<1>11. CASE PowerLoss
  BY <1>11 DEF PowerLoss
<1>12. CASE UNCHANGED vars
  BY <1>12 DEF vars
<1> QED
  BY <1>1, <1>1a, <1>2, <1>3, <1>4, <1>5, <1>6, <1>7, <1>8, <1>9, <1>10, <1>10a, <1>11, <1>12
  DEF Next, SaveStep

(* save() and load() together are an atomic crash-safe register.           *)
THEOREM Refinement == Hypotheses /\ Spec => AtomicFile
<1> SUFFICES ASSUME Hypotheses PROVE Spec => AtomicFile
  OBVIOUS
<1>1. Init => File!Init
  BY StoreAssumption DEF Init, File!Init, Load, NoEntries
<1>2. IInv /\ [Next]_vars
        => [File!Next]_(File!fileVars)
  BY FileStep
<1> QED
  BY <1>1, <1>2, Invariance, PTL DEF Spec, AtomicFile, File!Spec
=============================================================================
