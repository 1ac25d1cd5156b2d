------------------------- MODULE AtomicFileLockProofs -------------------------
(***************************************************************************)
(* Proofs about the lock between processes, for any number of writers and  *)
(* exits.  All of them rest on who may remove an owner file: its writer,   *)
(* or a reclaimer that has found its process gone, which is final.         *)
(***************************************************************************)
EXTENDS AtomicFileLock, TLAPS

(* Where a writer may have a file in the directory.                           *)
WithFile == {"write", "restat", "check", "held", "release", "undo"}

(* Where a writer still has to remove the directory if it is the last.        *)
Inside == WithFile \cup {"stat", "create", "rmdirOut", "rmdirUndo"}

(* What a reclaimer has read belongs to the dead; so does all it removes.     *)
ReadAreDead ==
    \A w \in Writers : pc[w] = "read" => (seen[w] \ left[w]) \cap alive = {}
ListedAreDead ==
    \A w \in Writers : pc[w] = "remove" => seen[w] \cap alive = {}

(* The file of a living writer is where that writer left it.                  *)
FilesFollow ==
    \A w \in alive :
       /\ pc[w] \notin WithFile => file[w] = "none"
       /\ pc[w] \in {"restat", "check"} => file[w] # "empty"
       /\ pc[w] = "held" => file[w] = "full" /\ dir # 0

(* As long as nobody exits, somebody is left to remove the directory.         *)
SomebodyInside == dir # 0 /\ alive = Writers => \E w \in Writers : pc[w] \in Inside

LockInv ==
    /\ LockTypeOK /\ MutualExclusion
    /\ ReadAreDead /\ ListedAreDead /\ FilesFollow /\ SomebodyInside

USE DEF Goes, Owners, Holders, MutualExclusion

LEMMA LockInit == Init => LockInv
  BY LockAssumption
     DEF Init, LockInv, LockTypeOK, ReadAreDead, ListedAreDead, FilesFollow, SomebodyInside, WithFile

(* The steps towards the lock change the writer's own file only, and the      *)
(* directory only by creating it.                                             *)
LEMMA AcquireKeeps ==
  ASSUME LockInv, NEW w \in Writers, Acquire(w)
  PROVE  LockInv'
<1> USE DEF LockInv
<1>1. CASE Mkdir(w)
  BY <1>1 DEF Mkdir, LockTypeOK, ReadAreDead, ListedAreDead, FilesFollow, SomebodyInside, WithFile, Inside
<1>2. CASE StatCreated(w)
  BY <1>2 DEF StatCreated, LockTypeOK, ReadAreDead, ListedAreDead, FilesFollow, SomebodyInside, WithFile, Inside
<1>3. CASE CreateOwner(w)
  BY <1>3 DEF CreateOwner, LockTypeOK, ReadAreDead, ListedAreDead, FilesFollow, SomebodyInside, WithFile, Inside
<1>4. CASE WriteOwner(w)
  BY <1>4 DEF WriteOwner, LockTypeOK, ReadAreDead, ListedAreDead, FilesFollow, SomebodyInside, WithFile, Inside
<1>5. CASE StatCurrent(w)
  BY <1>5, LockAssumption DEF StatCurrent, LockTypeOK, ReadAreDead, ListedAreDead, FilesFollow, SomebodyInside, WithFile, Inside
<1>6. CASE CheckOwners(w)
  BY <1>6 DEF CheckOwners, SoleOwner, LockTypeOK, ReadAreDead, ListedAreDead, FilesFollow, SomebodyInside, WithFile, Inside
<1>. QED BY <1>1, <1>2, <1>3, <1>4, <1>5, <1>6 DEF Acquire

LEMMA ReleaseKeeps ==
  ASSUME LockInv, NEW w \in Writers, StartRelease(w) \/ Release(w) \/ Retry(w) \/ Exit(w)
  PROVE  LockInv'
<1> USE DEF LockInv
<1>1. CASE StartRelease(w)
  BY <1>1 DEF StartRelease, LockTypeOK, ReadAreDead, ListedAreDead, FilesFollow, SomebodyInside, WithFile, Inside
<1>2. CASE RemoveOwn(w)
  BY <1>2 DEF RemoveOwn, LockTypeOK, ReadAreDead, ListedAreDead, FilesFollow, SomebodyInside, WithFile, Inside
<1>3. CASE RemoveOwnDirectory(w)
  BY <1>3 DEF RemoveOwnDirectory, RmdirIfEmpty, LockTypeOK, ReadAreDead, ListedAreDead, FilesFollow, SomebodyInside, WithFile, Inside
<1>4. CASE Retry(w)
  BY <1>4 DEF Retry, LockTypeOK, ReadAreDead, ListedAreDead, FilesFollow, SomebodyInside, WithFile, Inside
<1>5. CASE Exit(w)
  BY <1>5 DEF Exit, LockTypeOK, ReadAreDead, ListedAreDead, FilesFollow, SomebodyInside, WithFile, Inside
<1>. QED BY <1>1, <1>2, <1>3, <1>4, <1>5 DEF Release

(* A reclaimer removes only files of the dead, and a directory only when it   *)
(* is empty.                                                                  *)
LEMMA ReclaimKeeps ==
  ASSUME LockInv, NEW w \in Writers, Reclaim(w), SlowWrites = FALSE
  PROVE  LockInv'
<1> USE DEF LockInv
<1>1. CASE ListOwners(w)
  BY <1>1 DEF ListOwners, Wait, LockTypeOK, ReadAreDead, ListedAreDead, FilesFollow, SomebodyInside, WithFile, Inside
<1>2. ASSUME NEW o \in Writers, ReadOwner(w, o)
      PROVE  LockInv'
  BY <1>2 DEF ReadOwner, Reclaimable, LockTypeOK, ReadAreDead, ListedAreDead, FilesFollow, SomebodyInside, WithFile, Inside
<1>3. ASSUME NEW o \in Writers, RemoveListed(w, o)
      PROVE  LockInv'
  BY <1>3 DEF RemoveListed, LockTypeOK, ReadAreDead, ListedAreDead, FilesFollow, SomebodyInside, WithFile, Inside
<1>4. CASE RemoveDirectory(w)
  BY <1>4 DEF RemoveDirectory, RmdirIfEmpty, LockTypeOK, ReadAreDead, ListedAreDead, FilesFollow, SomebodyInside, WithFile, Inside
<1>. QED BY <1>1, <1>2, <1>3, <1>4 DEF Reclaim

LEMMA LockStep ==
  ASSUME LockInv, [Next]_vars, SlowWrites = FALSE
  PROVE  LockInv'
<1>1. CASE UNCHANGED vars
  BY <1>1 DEF vars, LockInv, LockTypeOK, ReadAreDead, ListedAreDead, FilesFollow, SomebodyInside
<1>2. ASSUME NEW w \in Writers,
             Acquire(w) \/ StartRelease(w) \/ Release(w) \/ Reclaim(w) \/ Retry(w) \/ Exit(w)
      PROVE  LockInv'
  BY <1>2, AcquireKeeps, ReleaseKeeps, ReclaimKeeps
<1>. QED BY <1>1, <1>2 DEF Next

(* The inductive invariant, for files that have their content within the      *)
(* grace.                                                                     *)
THEOREM LockInvariance ==
  ASSUME SlowWrites = FALSE
  PROVE  Spec => []LockInv
<1>1. LockInv /\ [Next]_vars => LockInv'
  BY LockStep
<1>. QED BY <1>1, LockInit, PTL DEF Spec

(* Of any number of processes that take, leave, reclaim and lose the lock,     *)
(* one holds it, and its directory and file are there.                        *)
THEOREM Exclusive ==
  ASSUME SlowWrites = FALSE
  PROVE  Spec => []LockIsExclusive
<1>1. LockInv => LockIsExclusive
  BY DEF LockInv, LockIsExclusive, HolderHasTheLock, FilesFollow
<1>. QED BY <1>1, LockInvariance, PTL

(* If nobody exited, the lock is gone when all are done.                      *)
THEOREM NothingStays ==
  ASSUME SlowWrites = FALSE
  PROVE  Spec => []NothingLeftBehind
<1>1. LockInv => NothingLeftBehind
  BY DEF LockInv, LockTypeOK, NothingLeftBehind, FilesFollow, SomebodyInside, WithFile, Inside
<1>. QED BY <1>1, LockInvariance, PTL

(* The owner file of a living process is removed by that process alone, when   *)
(* it lets go; a reclaimer never takes it.                                    *)
THEOREM OnlyAbandonedReclaimed ==
  ASSUME SlowWrites = FALSE
  PROVE  Spec => ReclaimsTheAbandoned
<1>. DEFINE Undisturbed == \A o \in alive : file[o] = "full" /\ file'[o] = "none" => pc[o] \in {"release", "undo"}
<1>1. ASSUME LockInv, NEW w \in Writers,
             Acquire(w) \/ StartRelease(w) \/ Release(w) \/ Reclaim(w) \/ Retry(w) \/ Exit(w)
      PROVE  Undisturbed
  <2>. USE DEF LockInv, LockTypeOK
  <2>1. CASE Acquire(w)
    BY <1>1, <2>1 DEF Acquire, Mkdir, StatCreated, CreateOwner, WriteOwner, StatCurrent, CheckOwners
  <2>2. CASE Release(w)
    BY <1>1, <2>2 DEF Release, RemoveOwn, RemoveOwnDirectory
  <2>3. CASE Reclaim(w)
    BY <1>1, <2>3 DEF Reclaim, ListOwners, Wait, ReadOwner, RemoveListed, RemoveDirectory, ListedAreDead
  <2>4. CASE StartRelease(w) \/ Retry(w) \/ Exit(w)
    BY <1>1, <2>4 DEF StartRelease, Retry, Exit
  <2>. QED BY <1>1, <2>1, <2>2, <2>3, <2>4
<1>2. LockInv /\ [Next]_vars => [Undisturbed]_vars
  BY <1>1 DEF Next
<1>. QED BY <1>2, LockInvariance, PTL DEF Spec, ReclaimsTheAbandoned
===============================================================================
