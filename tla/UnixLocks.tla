----------------------------- MODULE UnixLocks -----------------------------
(***************************************************************************)
(* The unix VFS's lock on a database file (unixLock, posixUnlock and       *)
(* unixClose of internal/store/sqlite3.c).  The kernel's advisory locks    *)
(* belong to a process, not to a handle, so that the handles of one        *)
(* process share an inode record, and the kernel forgets all locks of a    *)
(* process on a file when the process closes any handle on it.             *)
(*                                                                         *)
(* One action is one fcntl or close call, or the code between two of them. *)
(***************************************************************************)
EXTENDS Integers, FiniteSets

CONSTANTS Proc, Handle, None

ASSUME HandleAssumption == IsFiniteSet(Handle)
ASSUME NoneAssumption == None \notin Proc \X Handle

VARIABLES
    eFileLock,       \* unixFile.eFileLock of each handle
    iLock, nShared, nLock,   \* unixInodeInfo of each process
    byte,            \* the kernel's lock of each process on each byte range
    mutex,           \* pLockMutex of each process: the handle whose call holds it
    pc,              \* where each handle's call is
    raced            \* history: the processes with a lock that a thread began to
                     \* take while another was about to close a descriptor

vars == <<eFileLock, iLock, nShared, nLock, byte, mutex, pc, raced>>

File == Proc \X Handle
ProcOf(f) == f[1]

NO_LOCK == 0
SHARED_LOCK == 1
RESERVED_LOCK == 2
PENDING_LOCK == 3
EXCLUSIVE_LOCK == 4

Ranges == {"PENDING", "RESERVED", "SHARED"}

(* fcntl(F_SETLK): what the kernel grants process p, and its effect.       *)
CanRead(p, b) == \A q \in Proc \ {p} : byte[b][q] # "write"
CanWrite(p, b) == \A q \in Proc \ {p} : byte[b][q] = "none"
SetLock(p, b, t) == byte' = [byte EXCEPT ![b][p] = t]
Drop(p, B) == byte' = [b \in Ranges |-> IF b \in B THEN [byte[b] EXCEPT ![p] = "none"] ELSE byte[b]]

Init ==
    /\ eFileLock = [f \in File |-> NO_LOCK]
    /\ iLock = [p \in Proc |-> NO_LOCK]
    /\ nShared = [p \in Proc |-> 0]
    /\ nLock = [p \in Proc |-> 0]
    /\ byte = [b \in Ranges |-> [p \in Proc |-> "none"]]
    /\ mutex = [p \in Proc |-> None]
    /\ pc = [f \in File |-> "closed"]
    /\ raced = {}

Inode == <<iLock, nShared, nLock>>
Goto(f, label) == pc' = [pc EXCEPT ![f] = label]
Enter(f) == mutex' = [mutex EXCEPT ![ProcOf(f)] = f]
Leave(f) == mutex' = [mutex EXCEPT ![ProcOf(f)] = None]
Called(f) == pc[f] = "idle" /\ mutex[ProcOf(f)] = None

(* Opening and closing exclude each other (unixEnterMutex).                *)
NoneClosing(p) == \A g \in File : ProcOf(g) = p => pc[g] # "closing"

Open(f) ==
    /\ pc[f] = "closed"
    /\ NoneClosing(ProcOf(f))
    /\ Goto(f, "idle")
    /\ UNCHANGED <<eFileLock, Inode, byte, mutex, raced>>

-----------------------------------------------------------------------------
(* unixLock.  A call that finds the lock taken returns SQLITE_BUSY and     *)
(* changes nothing, but for the PENDING lock it may keep.                  *)

ShareInProcess_uncounted(f) ==
    /\ Called(f) /\ eFileLock[f] = NO_LOCK
    /\ iLock[ProcOf(f)] \in {SHARED_LOCK, RESERVED_LOCK}
    /\ eFileLock' = [eFileLock EXCEPT ![f] = SHARED_LOCK]
    /\ UNCHANGED <<Inode, byte, mutex, pc, raced>>

ShareInProcess_anyLevel(f) ==
    LET p == ProcOf(f) IN
    /\ Called(f) /\ eFileLock[f] = NO_LOCK
    /\ iLock[p] # NO_LOCK
    /\ eFileLock' = [eFileLock EXCEPT ![f] = SHARED_LOCK]
    /\ nShared' = [nShared EXCEPT ![p] = @ + 1]
    /\ nLock' = [nLock EXCEPT ![p] = @ + 1]
    /\ UNCHANGED <<iLock, byte, mutex, pc, raced>>

(* SHARED when the process already has it: only the counts change.         *)
ShareInProcess(f) ==
    LET p == ProcOf(f) IN
    /\ Called(f) /\ eFileLock[f] = NO_LOCK
    /\ iLock[p] \in {SHARED_LOCK, RESERVED_LOCK}
    /\ eFileLock' = [eFileLock EXCEPT ![f] = SHARED_LOCK]
    /\ nShared' = [nShared EXCEPT ![p] = @ + 1]
    /\ nLock' = [nLock EXCEPT ![p] = @ + 1]
    /\ UNCHANGED <<iLock, byte, mutex, pc, raced>>

(* SHARED otherwise: a read-lock on PENDING around the one on SHARED.      *)
SharePending(f) ==
    LET p == ProcOf(f) IN
    /\ Called(f) /\ eFileLock[f] = NO_LOCK
    /\ iLock[p] = NO_LOCK
    /\ CanRead(p, "PENDING")
    /\ SetLock(p, "PENDING", "read")
    /\ Enter(f)
    /\ Goto(f, "share")
    /\ raced' = IF NoneClosing(p) THEN raced ELSE raced \cup {p}
    /\ UNCHANGED <<eFileLock, Inode>>

ShareRange(f) ==
    LET p == ProcOf(f) IN
    /\ pc[f] = "share"
    /\ IF CanRead(p, "SHARED")
       THEN SetLock(p, "SHARED", "read") /\ Goto(f, "shared")
       ELSE Goto(f, "refused") /\ UNCHANGED byte
    /\ UNCHANGED <<eFileLock, Inode, mutex, raced>>

ShareDone(f) ==
    LET p == ProcOf(f) IN
    /\ pc[f] \in {"shared", "refused"}
    /\ Drop(p, {"PENDING"})
    /\ IF pc[f] = "shared"
       THEN /\ eFileLock' = [eFileLock EXCEPT ![f] = SHARED_LOCK]
            /\ iLock' = [iLock EXCEPT ![p] = SHARED_LOCK]
            /\ nShared' = [nShared EXCEPT ![p] = 1]
            /\ nLock' = [nLock EXCEPT ![p] = @ + 1]
            /\ UNCHANGED raced
       ELSE raced' = raced \ {p} /\ UNCHANGED <<eFileLock, Inode>>
    /\ Leave(f)
    /\ Goto(f, "idle")

Raise(f, l) ==
    /\ eFileLock' = [eFileLock EXCEPT ![f] = l]
    /\ iLock' = [iLock EXCEPT ![ProcOf(f)] = l]

(* No other handle of the process stands in the way of a writer's lock.    *)
OwnLevel(f) == eFileLock[f] = iLock[ProcOf(f)]

LockReserved(f) ==
    LET p == ProcOf(f) IN
    /\ Called(f) /\ eFileLock[f] = SHARED_LOCK /\ OwnLevel(f)
    /\ CanWrite(p, "RESERVED")
    /\ SetLock(p, "RESERVED", "write")
    /\ Raise(f, RESERVED_LOCK)
    /\ UNCHANGED <<nShared, nLock, mutex, pc, raced>>

LockPending(f) ==
    LET p == ProcOf(f) IN
    /\ Called(f) /\ eFileLock[f] = RESERVED_LOCK /\ OwnLevel(f)
    /\ CanWrite(p, "PENDING")
    /\ SetLock(p, "PENDING", "write")
    /\ Raise(f, PENDING_LOCK)
    /\ Enter(f)
    /\ Goto(f, "pending")
    /\ UNCHANGED <<nShared, nLock, raced>>

LockExclusive_besideOwn(f) ==
    /\ pc[f] = "pending" /\ CanWrite(ProcOf(f), "SHARED")
    /\ SetLock(ProcOf(f), "SHARED", "write")
    /\ Raise(f, EXCLUSIVE_LOCK)
    /\ Leave(f)
    /\ Goto(f, "idle")
    /\ UNCHANGED <<nShared, nLock, raced>>

(* The rest of the call that took PENDING, a later call that holds it, or  *)
(* the call from SHARED that a hot journal makes.                          *)
LockExclusive(f) ==
    LET p == ProcOf(f)
        granted == nShared[p] <= 1 /\ CanWrite(p, "SHARED") IN
    /\ \/ pc[f] = "pending"
       \/ Called(f) /\ eFileLock[f] \in {SHARED_LOCK, PENDING_LOCK} /\ OwnLevel(f) /\ granted
    /\ IF granted
       THEN SetLock(p, "SHARED", "write") /\ Raise(f, EXCLUSIVE_LOCK)
       ELSE UNCHANGED <<byte, eFileLock, iLock>>
    /\ Leave(f)
    /\ Goto(f, "idle")
    /\ UNCHANGED <<nShared, nLock, raced>>

-----------------------------------------------------------------------------
(* posixUnlock, to SHARED or to none.  The handle's own eFileLock is       *)
(* written after the mutex has been left.  The kernel refuses the read-lock *)
(* only to a process that has lost its locks: SQLITE_IOERR_RDLOCK.         *)

Downgrade(f) ==
    /\ Called(f) /\ eFileLock[f] > SHARED_LOCK
    /\ CanRead(ProcOf(f), "SHARED")
    /\ SetLock(ProcOf(f), "SHARED", "read")
    /\ Enter(f)
    /\ Goto(f, "downgrade")
    /\ UNCHANGED <<eFileLock, Inode, raced>>

DowngradeDone(f) ==
    /\ pc[f] = "downgrade"
    /\ Drop(ProcOf(f), {"PENDING", "RESERVED"})
    /\ iLock' = [iLock EXCEPT ![ProcOf(f)] = SHARED_LOCK]
    /\ Leave(f)
    /\ Goto(f, "toshared")
    /\ UNCHANGED <<eFileLock, nShared, nLock, raced>>

UnlockWriter(f) ==
    /\ Called(f) /\ eFileLock[f] > SHARED_LOCK
    /\ Drop(ProcOf(f), {"PENDING", "RESERVED"})
    /\ iLock' = [iLock EXCEPT ![ProcOf(f)] = SHARED_LOCK]
    /\ Enter(f)
    /\ Goto(f, "unlock")
    /\ UNCHANGED <<eFileLock, nShared, nLock, raced>>

(* Only the last handle of the process gives the kernel's lock back.       *)
UnlockShared(f) ==
    LET p == ProcOf(f) IN
    /\ \/ pc[f] = "unlock"
       \/ Called(f) /\ eFileLock[f] = SHARED_LOCK
    /\ nShared' = [nShared EXCEPT ![p] = @ - 1]
    /\ nLock' = [nLock EXCEPT ![p] = @ - 1]
    /\ IF nShared[p] = 1
       THEN /\ Drop(p, Ranges) /\ iLock' = [iLock EXCEPT ![p] = NO_LOCK]
            /\ raced' = raced \ {p}
       ELSE UNCHANGED <<byte, iLock, raced>>
    /\ Leave(f)
    /\ Goto(f, "tonone")
    /\ UNCHANGED eFileLock

Unlocked(f) ==
    /\ pc[f] \in {"toshared", "tonone"}
    /\ eFileLock' = [eFileLock EXCEPT ![f] = IF pc[f] = "toshared" THEN SHARED_LOCK ELSE NO_LOCK]
    /\ Goto(f, "idle")
    /\ UNCHANGED <<Inode, byte, mutex, raced>>

-----------------------------------------------------------------------------
(* unixClose: with locks outstanding the descriptor goes to pUnused and    *)
(* stays open.  Otherwise it is closed, after pLockMutex has been left: a  *)
(* lock that another thread takes in between is lost.                      *)

CloseFile_regardless(f) ==
    /\ Called(f) /\ eFileLock[f] = NO_LOCK
    /\ NoneClosing(ProcOf(f))
    /\ Goto(f, "closing")
    /\ UNCHANGED <<eFileLock, Inode, byte, mutex, raced>>

CloseFile(f) ==
    /\ Called(f) /\ eFileLock[f] = NO_LOCK
    /\ NoneClosing(ProcOf(f))
    /\ Goto(f, IF nLock[ProcOf(f)] > 0 THEN "closed" ELSE "closing")
    /\ UNCHANGED <<eFileLock, Inode, byte, mutex, raced>>

CloseDescriptor(f) ==
    /\ pc[f] = "closing"
    /\ Drop(ProcOf(f), Ranges)
    /\ Goto(f, "closed")
    /\ UNCHANGED <<eFileLock, Inode, mutex, raced>>

(* The kernel drops the locks of a process that ends.                      *)
Kill(p) ==
    /\ eFileLock' = [f \in File |-> IF ProcOf(f) = p THEN NO_LOCK ELSE eFileLock[f]]
    /\ iLock' = [iLock EXCEPT ![p] = NO_LOCK]
    /\ nShared' = [nShared EXCEPT ![p] = 0]
    /\ nLock' = [nLock EXCEPT ![p] = 0]
    /\ Drop(p, Ranges)
    /\ mutex' = [mutex EXCEPT ![p] = None]
    /\ pc' = [f \in File |-> IF ProcOf(f) = p THEN "closed" ELSE pc[f]]
    /\ raced' = raced \ {p}

Step(f) ==
    \/ Open(f) \/ ShareInProcess(f) \/ SharePending(f) \/ ShareRange(f) \/ ShareDone(f)
    \/ LockReserved(f) \/ LockPending(f) \/ LockExclusive(f)
    \/ Downgrade(f) \/ DowngradeDone(f) \/ UnlockWriter(f) \/ UnlockShared(f) \/ Unlocked(f)
    \/ CloseFile(f) \/ CloseDescriptor(f)

Next == (\E f \in File : Step(f)) \/ (\E p \in Proc : Kill(p))

Spec == Init /\ [][Next]_vars

-----------------------------------------------------------------------------
(* The lock a handle's connection may rely on: a call that lowers it gives *)
(* it up at once.                                                          *)
Holds(f) ==
    IF pc[f] \in {"downgrade", "toshared"} THEN SHARED_LOCK
    ELSE IF pc[f] \in {"unlock", "tonone"} THEN NO_LOCK ELSE eFileLock[f]

(* What it has of FileLock's lock: nothing, while its process relies on    *)
(* locks taken during a close, which the kernel may have dropped.          *)
Level(f) == IF ProcOf(f) \in raced THEN NO_LOCK ELSE Holds(f)

Abs == INSTANCE FileLock WITH level <- [f \in File |-> Level(f)]

(* The lock levels, the inode counts, the kernel's locks and the places of *)
(* a call (unixFile and unixInodeInfo).                                    *)
TypeOK ==
    /\ eFileLock \in [File -> 0 .. 4]
    /\ iLock \in [Proc -> 0 .. 4]
    /\ nShared \in [Proc -> Nat]
    /\ nLock \in [Proc -> Nat]
    /\ byte \in [Ranges -> [Proc -> {"none", "read", "write"}]]
    /\ mutex \in [Proc -> File \cup {None}]
    /\ pc \in [File -> {"closed", "idle", "share", "shared", "refused", "pending",
                        "downgrade", "toshared", "unlock", "tonone", "closing"}]
    /\ raced \subseteq Proc

(* Two handles never both write: an EXCLUSIVE lock excludes every other    *)
(* lock, a RESERVED or PENDING lock every other writer's, at every step of *)
(* the calls of unixLock, posixUnlock and unixClose.  In one process (the  *)
(* inode record) this is so whatever happens; in two (the kernel's byte    *)
(* ranges) unless one of them took its lock while a thread of it was in    *)
(* unixClose between pLockMutex and close(2), and still relies on it.      *)
MutualExclusion ==
    \A f, g \in File :
        f # g /\ (ProcOf(f) = ProcOf(g) \/ (ProcOf(f) \notin raced /\ ProcOf(g) \notin raced)) =>
        /\ Holds(f) = EXCLUSIVE_LOCK => Holds(g) = NO_LOCK
        /\ Holds(f) >= RESERVED_LOCK => Holds(g) < RESERVED_LOCK

(* Why: the handles that count in nShared, and the one that writes.        *)
Counted(f) == eFileLock[f] # NO_LOCK /\ pc[f] # "tonone"
Holders(p) == {f \in File : ProcOf(f) = p /\ Counted(f)}
Writes(f) == pc[f] \in {"idle", "pending", "downgrade"} /\ eFileLock[f] > SHARED_LOCK
Shares(f) == pc[f] \in {"share", "shared", "refused"}
InCall(f) == Shares(f) \/ pc[f] \in {"pending", "downgrade", "unlock"}

CountInv ==
    \A p \in Proc : /\ nShared[p] = Cardinality(Holders(p))
                    /\ nLock[p] = nShared[p]
                    /\ nShared[p] = 0 => iLock[p] = NO_LOCK

CallInv ==
    \A f \in File :
        /\ InCall(f) => mutex[ProcOf(f)] = f
        /\ pc[f] \in {"closed", "closing"} \/ Shares(f) => eFileLock[f] = NO_LOCK
        /\ Shares(f) => iLock[ProcOf(f)] = NO_LOCK
        /\ pc[f] \in {"pending", "downgrade", "toshared", "unlock"} => eFileLock[f] > SHARED_LOCK
        /\ pc[f] = "pending" => eFileLock[f] = PENDING_LOCK
        /\ pc[f] = "shared" /\ ProcOf(f) \notin raced => byte["SHARED"][ProcOf(f)] # "none"

(* Who closes its descriptor finds no lock of its process and no call for  *)
(* one, but those that came in the gap.                                    *)
CloseInv ==
    \A f \in File : pc[f] = "closing" /\ ProcOf(f) \notin raced =>
        /\ iLock[ProcOf(f)] = NO_LOCK
        /\ \A g \in File : ProcOf(g) = ProcOf(f) => ~Shares(g)

LevelInv ==
    /\ \A f \in File : /\ Counted(f) => iLock[ProcOf(f)] # NO_LOCK
                       /\ Writes(f) => iLock[ProcOf(f)] = eFileLock[f]
    /\ \A f, g \in File : Writes(f) /\ Writes(g) /\ ProcOf(f) = ProcOf(g) => f = g

KernelInv ==
    \A b \in Ranges : \A p, q \in Proc : p # q /\ byte[b][p] = "write" => byte[b][q] = "none"

ByteInv ==
    /\ \A p \in Proc \ raced : iLock[p] # NO_LOCK => byte["SHARED"][p] # "none"
    /\ \A f \in File : Writes(f) /\ eFileLock[f] = EXCLUSIVE_LOCK => nShared[ProcOf(f)] = 1
    /\ \A f \in File : Writes(f) /\ ProcOf(f) \notin raced =>
        /\ eFileLock[f] \in {RESERVED_LOCK, PENDING_LOCK} => byte["RESERVED"][ProcOf(f)] = "write"
        /\ eFileLock[f] = EXCLUSIVE_LOCK /\ pc[f] # "downgrade" => byte["SHARED"][ProcOf(f)] = "write"

(* The inductive invariant behind MutualExclusion: nShared and nLock count *)
(* the handles with a lock, a call in progress holds the mutex, the inode's *)
(* level is its writer's, and every level is backed by the kernel's lock on *)
(* the byte range unixLock takes for it, as long as no thread locked       *)
(* between the end of the mutex and the close(2) of unixClose.             *)
LockInv == CountInv /\ CallInv /\ CloseInv /\ LevelInv /\ KernelInv /\ ByteInv

(* The locks the unix VFS gives out are those of FileLock, the lock the    *)
(* pager relies on; a process that locked in the gap of a unixClose has    *)
(* none of them until it has given up what it took.                        *)
ImplementsFileLock == Abs!Spec

(* unixClose: "If there are outstanding locks, do not actually close the   *)
(* file just yet because that would clear those locks."  A handle that     *)
(* holds a lock has the kernel's lock behind it.                           *)
LocksAreBacked ==
    \A f \in File : Holds(f) # NO_LOCK => byte["SHARED"][ProcOf(f)] # "none"

(* unixLock: a PENDING lock "ensures that no new SHARED locks can be       *)
(* obtained, but existing SHARED locks are allowed to persist".            *)
PendingBlocksShared ==
    [][\A f, g \in File : Holds(g) = PENDING_LOCK /\ Holds(f) = NO_LOCK => Holds(f)' = NO_LOCK]_vars
============================================================================
