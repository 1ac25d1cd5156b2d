---------------------------- MODULE AtomicFileLock ----------------------------
(***************************************************************************)
(* The lock between processes that acquireFileLock builds from a directory *)
(* and an owner file in it.  Every call of the file system is a step, and  *)
(* a process may exit between two of them.  All paths lead to whatever     *)
(* directory has the name of the lock at that moment.                      *)
(***************************************************************************)
EXTENDS Naturals, FiniteSets

CONSTANTS
    Writers,      \* calls of acquireFileLock, each in a process of its own
    Inodes,       \* inodes a directory may get, used again once it is removed
    SlowWrites,   \* TRUE when more than the grace may pass before an owner file has its content
    MaxExits      \* processes that exit unexpectedly

ASSUME LockAssumption == SlowWrites \in BOOLEAN /\ MaxExits \in Nat /\ 0 \notin Inodes

VARIABLES
    dir,       \* the inode of the lock directory, 0 when there is none
    file,      \* the owner file of each writer: none, empty, or with its content
    pc,        \* the call that each writer makes next
    inode,     \* createdLockStat.ino
    seen,      \* the owner files that removeAbandonedLock has listed
    left,      \* those it still has to read
    alive      \* the processes that have not exited

vars == <<dir, file, pc, inode, seen, left, alive>>

Init ==
    /\ dir = 0
    /\ file = [w \in Writers |-> "none"]
    /\ pc = [w \in Writers |-> "mkdir"]
    /\ inode = [w \in Writers |-> 0]
    /\ seen = [w \in Writers |-> {}] /\ left = [w \in Writers |-> {}]
    /\ alive = Writers

Owners == {w \in Writers : file[w] # "none"}

Goes(w, from, to) ==
    w \in alive /\ pc[w] = from /\ pc' = [pc EXCEPT ![w] = to]

-----------------------------------------------------------------------------
(* Acquiring.                                                                *)

Mkdir(w) ==
    /\ IF dir = 0
       THEN Goes(w, "mkdir", "stat") /\ dir' \in Inodes
       ELSE Goes(w, "mkdir", "list") /\ UNCHANGED dir
    /\ UNCHANGED <<file, inode, seen, left, alive>>

(* ENOENT: the directory was lost; what may be left of it is removed.         *)
StatCreated(w) ==
    /\ Goes(w, "stat", IF dir = 0 THEN "undo" ELSE "create")
    /\ inode' = [inode EXCEPT ![w] = dir]
    /\ UNCHANGED <<dir, file, seen, left, alive>>

(* writeFile opens the owner file and then writes it.                         *)
CreateOwner(w) ==
    /\ Goes(w, "create", IF dir = 0 THEN "undo" ELSE "write")
    /\ file' = IF dir = 0 THEN file ELSE [file EXCEPT ![w] = "empty"]
    /\ UNCHANGED <<dir, inode, seen, left, alive>>

WriteOwner(w) ==
    /\ Goes(w, "write", "restat")
    /\ file' = IF file[w] = "none" THEN file ELSE [file EXCEPT ![w] = "full"]
    /\ UNCHANGED <<dir, inode, seen, left, alive>>

(* The directory must still be the one that was created ...                   *)
StatCurrent(w) ==
    /\ Goes(w, "restat", IF dir = 0 \/ dir # inode[w] THEN "undo" ELSE "check")
    /\ inode' = [inode EXCEPT ![w] = 0]
    /\ UNCHANGED <<dir, file, seen, left, alive>>

(* Faulty variant: it is enough that the own file is there.                    *)
AmongOwners(w) == w \in Owners

SoleOwner(w) == Owners = {w}

(* ... and have no other owner.                                               *)
CheckOwners(w) ==
    /\ Goes(w, "check", IF dir # 0 /\ SoleOwner(w) THEN "held" ELSE "undo")
    /\ UNCHANGED <<dir, file, inode, seen, left, alive>>

-----------------------------------------------------------------------------
(* Letting go, after the lock was held ("release") or not got ("undo").       *)

StartRelease(w) ==
    /\ Goes(w, "held", "release")
    /\ UNCHANGED <<dir, file, inode, seen, left, alive>>

(* rm of the own file, and then rmdir, which fails if something else is there. *)
RemoveOwn(w) ==
    /\ Goes(w, "release", "rmdirOut") \/ Goes(w, "undo", "rmdirUndo")
    /\ file' = [file EXCEPT ![w] = "none"]
    /\ UNCHANGED <<dir, inode, seen, left, alive>>

(* Faulty variant: the directory stays.                                        *)
LeaveDirectory == UNCHANGED dir

RmdirIfEmpty == dir' = IF Owners = {} THEN 0 ELSE dir

RemoveOwnDirectory(w) ==
    /\ Goes(w, "rmdirOut", "out") \/ Goes(w, "rmdirUndo", "list")
    /\ RmdirIfEmpty
    /\ UNCHANGED <<file, inode, seen, left, alive>>

-----------------------------------------------------------------------------
(* removeAbandonedLock for a lock directory.  How old the directory is does not matter here: one    *)
(* without an owner is removed, whenever it is found, if it is still empty.   *)

Wait(w) == Goes(w, "list", "wait") /\ UNCHANGED <<seen, left>>

ListOwners(w) ==
    /\ \/ Wait(w)
       \/ /\ dir # 0
          /\ Goes(w, "list", IF Owners = {} THEN "rmdir" ELSE "read")
          /\ seen' = [seen EXCEPT ![w] = Owners] /\ left' = [left EXCEPT ![w] = Owners]
    /\ UNCHANGED <<dir, file, inode, alive>>

(* Faulty variant: a file that names no process is not reclaimed.               *)
ReclaimableIfNamed(o) == file[o] = "full" /\ o \notin alive

(* isOwnerFileReclaimable: the process it names has exited, or it names none    *)
(* and is older than the grace.                                               *)
Reclaimable(o) ==
    /\ file[o] # "none"
    /\ o \notin alive \/ (file[o] = "empty" /\ SlowWrites)

ReadOwner(w, o) ==
    /\ o \in left[w]
    /\ IF Reclaimable(o)
       THEN /\ Goes(w, "read", IF left[w] = {o} THEN "remove" ELSE "read")
            /\ left' = [left EXCEPT ![w] = @ \ {o}]
       ELSE /\ Goes(w, "read", "wait")
            /\ left' = [left EXCEPT ![w] = {}]
    /\ UNCHANGED <<dir, file, inode, seen, alive>>

(* Only what was listed is removed, one file after the other.                 *)
RemoveListed(w, o) ==
    /\ o \in seen[w]
    /\ Goes(w, "remove", IF seen[w] = {o} THEN "rmdir" ELSE "remove")
    /\ file' = [file EXCEPT ![o] = "none"]
    /\ seen' = [seen EXCEPT ![w] = @ \ {o}]
    /\ UNCHANGED <<dir, inode, left, alive>>

RemoveDirectory(w) ==
    /\ Goes(w, "rmdir", IF Owners = {} /\ dir # 0 THEN "mkdir" ELSE "wait")
    /\ RmdirIfEmpty
    /\ UNCHANGED <<file, inode, seen, left, alive>>

(* The next attempt, or maxWaitMs is over.                                     *)
Retry(w) ==
    /\ Goes(w, "wait", "mkdir") \/ Goes(w, "wait", "out")
    /\ UNCHANGED <<dir, file, inode, seen, left, alive>>

(* The process exits where it stands.                                         *)
Exit(w) ==
    /\ w \in alive /\ pc[w] # "out" /\ Cardinality(Writers \ alive) < MaxExits
    /\ alive' = alive \ {w}
    /\ UNCHANGED <<dir, file, pc, inode, seen, left>>

Acquire(w) ==
    Mkdir(w) \/ StatCreated(w) \/ CreateOwner(w) \/ WriteOwner(w) \/ StatCurrent(w) \/ CheckOwners(w)
Release(w) == RemoveOwn(w) \/ RemoveOwnDirectory(w)
Reclaim(w) ==
    \/ ListOwners(w) \/ RemoveDirectory(w)
    \/ \E o \in Writers : ReadOwner(w, o) \/ RemoveListed(w, o)

Next == \E w \in Writers :
    Acquire(w) \/ StartRelease(w) \/ Release(w) \/ Reclaim(w) \/ Retry(w) \/ Exit(w)

Spec == Init /\ [][Next]_vars

(* A process that has not exited goes on; it does not find the abandoned young  *)
(* for ever, and one that waits tries again (see LiveSpec).                    *)
Fairness == \A w \in Writers :
    /\ WF_vars(Acquire(w)) /\ WF_vars(StartRelease(w)) /\ WF_vars(Release(w)) /\ WF_vars(Reclaim(w))
    /\ SF_vars(ListOwners(w) /\ pc'[w] # "wait") /\ WF_vars(Retry(w))

LiveSpec == Spec /\ Fairness

-----------------------------------------------------------------------------
(* Properties.                                                               *)

(* The types of the variables.                                                *)
LockTypeOK ==
    /\ dir \in Inodes \cup {0}
    /\ file \in [Writers -> {"none", "empty", "full"}]
    /\ pc \in [Writers -> {"mkdir", "stat", "create", "write", "restat", "check", "held", "release",
                           "undo", "rmdirOut", "rmdirUndo", "list", "read", "remove", "rmdir",
                           "wait", "out"}]
    /\ inode \in [Writers -> Inodes \cup {0}]
    /\ seen \in [Writers -> SUBSET Writers] /\ left \in [Writers -> SUBSET Writers]
    /\ alive \subseteq Writers

Holders == {w \in alive : pc[w] = "held"}

(* Two processes never hold the lock at once, although a third may be removing *)
(* what it takes for abandoned.                                               *)
MutualExclusion == \A u, w \in Holders : u = w

(* The files of the lock are where their holder left them.                     *)
HolderHasTheLock == \A w \in Holders : dir # 0 /\ file[w] = "full"

(* The lock is held by one, who has it undisturbed.                           *)
LockIsExclusive == LockTypeOK /\ MutualExclusion /\ HolderHasTheLock

(* Only what is abandoned is reclaimed: "only locks whose owner has exited, or  *)
(* that have no PID".                                                         *)
ReclaimsTheAbandoned ==
    [][\A o \in alive : file[o] = "full" /\ file'[o] = "none" => pc[o] \in {"release", "undo"}]_vars

(* Who lets go leaves nothing behind: if nobody exited and everybody is done,  *)
(* the lock is gone, whatever they undid in each other's directories.         *)
NothingLeftBehind ==
    alive = Writers /\ (\A w \in Writers : pc[w] = "out") => dir = 0 /\ Owners = {}

(* The lock of a process that exited is reclaimed if somebody keeps waiting.   *)
AbandonedIsReclaimed ==
    \A o \in Writers : o \notin alive /\ file[o] # "none"
        ~> file[o] = "none" \/ \A w \in alive : pc[w] = "out"
===============================================================================
