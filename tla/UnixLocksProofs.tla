-------------------------- MODULE UnixLocksProofs --------------------------
(***************************************************************************)
(* Mutual exclusion of the unix VFS's file locks, for any number of        *)
(* processes and handles.                                                  *)
(***************************************************************************)
EXTENDS UnixLocks, FiniteSetTheorems, TLAPS

\* A handle belongs to a process (unixFile.pInode).
LEMMA FileProc == \A f \in File : ProcOf(f) \in Proc
  BY DEF File, ProcOf

\* What an fcntl call for one byte range leaves behind.
LEMMA ByteAfterSet ==
    ASSUME TypeOK, NEW p \in Proc, NEW b \in Ranges, NEW t \in {"none", "read", "write"},
           SetLock(p, b, t)
    PROVE  /\ byte' \in [Ranges -> [Proc -> {"none", "read", "write"}]]
           /\ \A c \in Ranges, q \in Proc :
                byte'[c][q] = IF c = b /\ q = p THEN t ELSE byte[c][q]
  BY DEF TypeOK, SetLock

\* What unlocking byte ranges of one process leaves behind.
LEMMA ByteAfterDrop ==
    ASSUME TypeOK, NEW p \in Proc, NEW B \in SUBSET Ranges, Drop(p, B)
    PROVE  /\ byte' \in [Ranges -> [Proc -> {"none", "read", "write"}]]
           /\ \A c \in Ranges, q \in Proc :
                byte'[c][q] = IF c \in B /\ q = p THEN "none" ELSE byte[c][q]
  BY DEF TypeOK, Drop

\* The handles of a process that hold a lock can be counted (nShared).
LEMMA HoldersFinite == \A p \in Proc : IsFiniteSet(Holders(p))
<1> SUFFICES ASSUME NEW p \in Proc PROVE IsFiniteSet(Holders(p))
  OBVIOUS
<1>1. IsFiniteSet({p}) /\ IsFiniteSet(Handle)
  BY FS_Singleton, HandleAssumption
<1>2. IsFiniteSet({p} \X Handle)
  BY <1>1, FS_Product
<1>3. Holders(p) \in SUBSET ({p} \X Handle)
  BY DEF Holders, File, ProcOf
<1> QED
  BY <1>2, <1>3, FS_Subset

\* nShared is a natural number, zero for no holder and one for a single one.
LEMMA HoldersCount ==
    ASSUME NEW p \in Proc
    PROVE  /\ Cardinality(Holders(p)) \in Nat
           /\ Cardinality(Holders(p)) = 0 <=> Holders(p) = {}
           /\ \A f \in Holders(p) : Cardinality(Holders(p)) = 1 => Holders(p) = {f}
           /\ \A f \in Holders(p) : Cardinality(Holders(p)) >= 1
<1>1. IsFiniteSet(Holders(p))
  BY HoldersFinite
<1>2. Cardinality(Holders(p)) \in Nat
  BY <1>1, FS_CardinalityType
<1>3. Cardinality(Holders(p)) = 0 <=> Holders(p) = {}
  BY <1>1, FS_EmptySet
<1>4. ASSUME NEW f \in Holders(p), Cardinality(Holders(p)) = 1 PROVE Holders(p) = {f}
  <2>1. PICK x : Holders(p) = {x}
    BY <1>1, <1>4, FS_Singleton
  <2> QED
    BY <2>1
<1>5. ASSUME NEW f \in Holders(p) PROVE Cardinality(Holders(p)) >= 1
  BY <1>2, <1>3, <1>5
<1> QED
  BY <1>2, <1>3, <1>4, <1>5

\* A step of handle f leaves the holders of its process as they are, adds f
\* or removes f, and leaves those of every other process alone.
LEMMA HoldersStep ==
    ASSUME NEW f \in File, \A g \in File \ {f} : Counted(g)' = Counted(g)
    PROVE  /\ \A p \in Proc \ {ProcOf(f)} : Holders(p)' = Holders(p)
           /\ (Counted(f)' = Counted(f)) => Holders(ProcOf(f))' = Holders(ProcOf(f))
           /\ Counted(f)' /\ ~Counted(f) =>
                Cardinality(Holders(ProcOf(f)))' = Cardinality(Holders(ProcOf(f))) + 1
           /\ ~Counted(f)' /\ Counted(f) =>
                Cardinality(Holders(ProcOf(f)))' = Cardinality(Holders(ProcOf(f))) - 1
<1> DEFINE p == ProcOf(f)
<1>1. p \in Proc /\ IsFiniteSet(Holders(p))
  BY FileProc, HoldersFinite
<1>2. \A q \in Proc \ {p} : Holders(q)' = Holders(q)
  BY DEF Holders
<1>3. (Counted(f)' = Counted(f)) => Holders(p)' = Holders(p)
  BY DEF Holders
<1>4. ASSUME Counted(f)', ~Counted(f)
      PROVE  Cardinality(Holders(p))' = Cardinality(Holders(p)) + 1
  <2>1. Holders(p)' = Holders(p) \cup {f} /\ f \notin Holders(p)
    BY <1>4 DEF Holders
  <2> QED
    BY <1>1, <2>1, FS_AddElement
<1>5. ASSUME ~Counted(f)', Counted(f)
      PROVE  Cardinality(Holders(p))' = Cardinality(Holders(p)) - 1
  <2>1. Holders(p)' = Holders(p) \ {f} /\ f \in Holders(p)
    BY <1>5 DEF Holders
  <2> QED
    BY <1>1, <2>1, FS_RemoveElement, Zenon
<1> QED
  BY <1>2, <1>3, <1>4, <1>5

-----------------------------------------------------------------------------
(* One lemma for each kind of step.                                        *)

USE DEF NO_LOCK, SHARED_LOCK, RESERVED_LOCK, PENDING_LOCK, EXCLUSIVE_LOCK

\* Opening a handle.
LEMMA OpenStep ==
    ASSUME TypeOK, LockInv, NEW f \in File, Open(f)
    PROVE  TypeOK' /\ LockInv'
<1> DEFINE p == ProcOf(f)
<1>0. p \in Proc
  BY FileProc
<1>n. \A g \in File : g # None
  BY NoneAssumption DEF File
<1>c. /\ Cardinality(Holders(p)) \in Nat
      /\ (\A g \in File : ProcOf(g) = p => ~Counted(g)) => Cardinality(Holders(p)) = 0
      /\ \A g \in File : ProcOf(g) = p /\ Counted(g) => Cardinality(Holders(p)) >= 1
      /\ \A g \in File : ProcOf(g) = p /\ Counted(g) /\ Cardinality(Holders(p)) = 1 =>
           \A h \in File : ProcOf(h) = p /\ Counted(h) => h = g
  BY <1>0, HoldersCount DEF Holders
<1>b. byte' = byte
  BY <1>0 DEF Goto, Inode, NoneClosing, Open
<1>1. TypeOK'
  BY <1>0, <1>b DEF TypeOK, Goto, Inode, NoneClosing, Open
<1>h. \A g \in File \ {f} : Counted(g)' = Counted(g)
  BY <1>0 DEF TypeOK, Counted, Goto, Inode, NoneClosing, Open
<1>2. CountInv'
  BY <1>0, <1>c, <1>h, HoldersStep, SMTT(30), SMTT(45) DEF TypeOK, LockInv, CountInv, CallInv, LevelInv, Counted, Goto, Inode, NoneClosing, Open
<1>3. CallInv'
  BY <1>0, <1>n, <1>b, FileProc, SMTT(30), SMTT(45) DEF TypeOK, LockInv, CallInv, LevelInv, Counted, InCall, Shares, Ranges, Goto, Inode, NoneClosing, Open
<1>4. LevelInv'
  BY <1>0, <1>c, FileProc DEF TypeOK, LockInv, CountInv, CallInv, LevelInv, Counted, Writes, Goto, Inode, NoneClosing, Open
<1>5. KernelInv'
  BY <1>0, <1>b, SMTT(30), SMTT(45) DEF TypeOK, LockInv, KernelInv, Ranges, CanRead, CanWrite, Goto, Inode, NoneClosing, Open
<1>6. ByteInv'
  BY <1>0, <1>c, <1>b, FileProc, SMTT(30), SMTT(45) DEF TypeOK, LockInv, CountInv, CallInv, LevelInv, ByteInv, Counted, Writes, InCall, Shares, Ranges, CanRead, CanWrite, Goto, Inode, NoneClosing, Open
<1>7. CloseInv'
  BY <1>0, <1>n, SMTT(30), SMTT(45) DEF TypeOK, LockInv, CountInv, CallInv, CloseInv, LevelInv, Counted, InCall, Shares, NoneClosing, Goto, Inode, Open
<1> QED
  BY <1>1, <1>2, <1>3, <1>4, <1>5, <1>6, <1>7 DEF LockInv

\* SHARED from the inode record.
LEMMA ShareInProcessStep ==
    ASSUME TypeOK, LockInv, NEW f \in File, ShareInProcess(f)
    PROVE  TypeOK' /\ LockInv'
<1> DEFINE p == ProcOf(f)
<1>0. p \in Proc
  BY FileProc
<1>n. \A g \in File : g # None
  BY NoneAssumption DEF File
<1>c. /\ Cardinality(Holders(p)) \in Nat
      /\ (\A g \in File : ProcOf(g) = p => ~Counted(g)) => Cardinality(Holders(p)) = 0
      /\ \A g \in File : ProcOf(g) = p /\ Counted(g) => Cardinality(Holders(p)) >= 1
      /\ \A g \in File : ProcOf(g) = p /\ Counted(g) /\ Cardinality(Holders(p)) = 1 =>
           \A h \in File : ProcOf(h) = p /\ Counted(h) => h = g
  BY <1>0, HoldersCount DEF Holders
<1>b. byte' = byte
  BY <1>0 DEF Called, ShareInProcess
<1>1. TypeOK'
  BY <1>0, <1>b DEF TypeOK, Called, ShareInProcess
<1>h. \A g \in File \ {f} : Counted(g)' = Counted(g)
  BY <1>0, SMTT(30), SMTT(45) DEF TypeOK, Counted, Called, ShareInProcess
<1>2. CountInv'
  BY <1>0, <1>c, <1>h, HoldersStep, SMTT(30), SMTT(45) DEF TypeOK, LockInv, CountInv, CallInv, LevelInv, Counted, Called, ShareInProcess
<1>3. CallInv'
  BY <1>0, <1>n, <1>b, FileProc, SMTT(30), SMTT(45) DEF TypeOK, LockInv, CallInv, LevelInv, Counted, InCall, Shares, Ranges, Called, ShareInProcess
<1>4. LevelInv'
  BY <1>0, <1>c, FileProc, SMTT(30), SMTT(45) DEF TypeOK, LockInv, CountInv, CallInv, LevelInv, Counted, Writes, Called, ShareInProcess
<1>5. KernelInv'
  BY <1>0, <1>b, SMTT(30), SMTT(45) DEF TypeOK, LockInv, KernelInv, Ranges, CanRead, CanWrite, Called, ShareInProcess
<1>6. ByteInv'
  BY <1>0, <1>c, <1>b, FileProc, SMTT(30), SMTT(45) DEF TypeOK, LockInv, CountInv, CallInv, LevelInv, ByteInv, Counted, Writes, InCall, Shares, Ranges, CanRead, CanWrite, Called, ShareInProcess
<1>7. CloseInv'
  BY <1>0, <1>n, SMTT(30), SMTT(45) DEF TypeOK, LockInv, CountInv, CallInv, CloseInv, LevelInv, Counted, InCall, Shares, NoneClosing, Called, ShareInProcess
<1> QED
  BY <1>1, <1>2, <1>3, <1>4, <1>5, <1>6, <1>7 DEF LockInv

\* The read-lock on PENDING before SHARED.
LEMMA SharePendingStep ==
    ASSUME TypeOK, LockInv, NEW f \in File, SharePending(f)
    PROVE  TypeOK' /\ LockInv'
<1> DEFINE p == ProcOf(f)
<1>0. p \in Proc
  BY FileProc
<1>n. \A g \in File : g # None
  BY NoneAssumption DEF File
<1>c. /\ Cardinality(Holders(p)) \in Nat
      /\ (\A g \in File : ProcOf(g) = p => ~Counted(g)) => Cardinality(Holders(p)) = 0
      /\ \A g \in File : ProcOf(g) = p /\ Counted(g) => Cardinality(Holders(p)) >= 1
      /\ \A g \in File : ProcOf(g) = p /\ Counted(g) /\ Cardinality(Holders(p)) = 1 =>
           \A h \in File : ProcOf(h) = p /\ Counted(h) => h = g
  BY <1>0, HoldersCount DEF Holders
<1>b. /\ byte' \in [Ranges -> [Proc -> {"none", "read", "write"}]]
      /\ \A c \in Ranges, q \in Proc :
           byte'[c][q] = IF c = "PENDING" /\ q = p THEN "read" ELSE byte[c][q]
  BY <1>0, ByteAfterSet DEF Ranges, Goto, Inode, Enter, Called, SharePending
<1>1. TypeOK'
  BY <1>0, <1>b DEF TypeOK, Goto, Inode, Enter, Called, SharePending
<1>h. \A g \in File \ {f} : Counted(g)' = Counted(g)
  BY <1>0, SMTT(30), SMTT(45) DEF TypeOK, Counted, Goto, Inode, Enter, Called, SharePending
<1>2. CountInv'
  BY <1>0, <1>c, <1>h, HoldersStep, SMTT(30), SMTT(45) DEF TypeOK, LockInv, CountInv, CallInv, LevelInv, Counted, Goto, Inode, Enter, Called, SharePending
<1>3. CallInv'
  BY <1>0, <1>n, <1>b, FileProc, SMTT(30), SMTT(45) DEF TypeOK, LockInv, CallInv, LevelInv, Counted, InCall, Shares, Ranges, Goto, Inode, Enter, Called, SharePending
<1>4. LevelInv'
  BY <1>0, <1>c, FileProc, SMTT(30), SMTT(45) DEF TypeOK, LockInv, CountInv, CallInv, LevelInv, Counted, Writes, Goto, Inode, Enter, Called, SharePending
<1>5. KernelInv'
  BY <1>0, <1>b, SMTT(30), SMTT(45) DEF TypeOK, LockInv, KernelInv, Ranges, CanRead, CanWrite, Goto, Inode, Enter, Called, SharePending
<1>6. ByteInv'
  BY <1>0, <1>c, <1>b, FileProc, SMTT(30), SMTT(45) DEF TypeOK, LockInv, CountInv, CallInv, LevelInv, ByteInv, Counted, Writes, InCall, Shares, Ranges, CanRead, CanWrite, Goto, Inode, Enter, Called, SharePending
<1>7. CloseInv'
  BY <1>0, <1>n, SMTT(30), SMTT(45) DEF TypeOK, LockInv, CountInv, CallInv, CloseInv, LevelInv, Counted, InCall, Shares, NoneClosing, Goto, Inode, Enter, Called, SharePending
<1> QED
  BY <1>1, <1>2, <1>3, <1>4, <1>5, <1>6, <1>7 DEF LockInv

\* The write-lock on RESERVED.
LEMMA LockReservedStep ==
    ASSUME TypeOK, LockInv, NEW f \in File, LockReserved(f)
    PROVE  TypeOK' /\ LockInv'
<1> DEFINE p == ProcOf(f)
<1>0. p \in Proc
  BY FileProc
<1>n. \A g \in File : g # None
  BY NoneAssumption DEF File
<1>c. /\ Cardinality(Holders(p)) \in Nat
      /\ (\A g \in File : ProcOf(g) = p => ~Counted(g)) => Cardinality(Holders(p)) = 0
      /\ \A g \in File : ProcOf(g) = p /\ Counted(g) => Cardinality(Holders(p)) >= 1
      /\ \A g \in File : ProcOf(g) = p /\ Counted(g) /\ Cardinality(Holders(p)) = 1 =>
           \A h \in File : ProcOf(h) = p /\ Counted(h) => h = g
  BY <1>0, HoldersCount DEF Holders
<1>b. /\ byte' \in [Ranges -> [Proc -> {"none", "read", "write"}]]
      /\ \A c \in Ranges, q \in Proc :
           byte'[c][q] = IF c = "RESERVED" /\ q = p THEN "write" ELSE byte[c][q]
  BY <1>0, ByteAfterSet DEF Ranges, Called, OwnLevel, Raise, LockReserved
<1>1. TypeOK'
  BY <1>0, <1>b DEF TypeOK, Called, OwnLevel, Raise, LockReserved
<1>h. \A g \in File \ {f} : Counted(g)' = Counted(g)
  BY <1>0, SMTT(30), SMTT(45) DEF TypeOK, Counted, Called, OwnLevel, Raise, LockReserved
<1>2. CountInv'
  BY <1>0, <1>c, <1>h, HoldersStep, SMTT(30), SMTT(45) DEF TypeOK, LockInv, CountInv, CallInv, LevelInv, Counted, Called, OwnLevel, Raise, LockReserved
<1>3. CallInv'
  BY <1>0, <1>n, <1>b, FileProc, SMTT(30), SMTT(45) DEF TypeOK, LockInv, CallInv, LevelInv, Counted, InCall, Shares, Ranges, Called, OwnLevel, Raise, LockReserved
<1>4. LevelInv'
  BY <1>0, <1>c, FileProc, SMTT(30), SMTT(45) DEF TypeOK, LockInv, CountInv, CallInv, LevelInv, Counted, Writes, Called, OwnLevel, Raise, LockReserved
<1>5. KernelInv'
  BY <1>0, <1>b, SMTT(30), SMTT(45) DEF TypeOK, LockInv, KernelInv, Ranges, CanRead, CanWrite, Called, OwnLevel, Raise, LockReserved
<1>6. ByteInv'
  BY <1>0, <1>c, <1>b, FileProc, SMTT(30), SMTT(45) DEF TypeOK, LockInv, CountInv, CallInv, LevelInv, ByteInv, Counted, Writes, InCall, Shares, Ranges, CanRead, CanWrite, Called, OwnLevel, Raise, LockReserved
<1>7. CloseInv'
  BY <1>0, <1>n, SMTT(30), SMTT(45) DEF TypeOK, LockInv, CountInv, CallInv, CloseInv, LevelInv, Counted, InCall, Shares, NoneClosing, Called, OwnLevel, Raise, LockReserved
<1> QED
  BY <1>1, <1>2, <1>3, <1>4, <1>5, <1>6, <1>7 DEF LockInv

\* The write-lock on PENDING.
LEMMA LockPendingStep ==
    ASSUME TypeOK, LockInv, NEW f \in File, LockPending(f)
    PROVE  TypeOK' /\ LockInv'
<1> DEFINE p == ProcOf(f)
<1>0. p \in Proc
  BY FileProc
<1>n. \A g \in File : g # None
  BY NoneAssumption DEF File
<1>c. /\ Cardinality(Holders(p)) \in Nat
      /\ (\A g \in File : ProcOf(g) = p => ~Counted(g)) => Cardinality(Holders(p)) = 0
      /\ \A g \in File : ProcOf(g) = p /\ Counted(g) => Cardinality(Holders(p)) >= 1
      /\ \A g \in File : ProcOf(g) = p /\ Counted(g) /\ Cardinality(Holders(p)) = 1 =>
           \A h \in File : ProcOf(h) = p /\ Counted(h) => h = g
  BY <1>0, HoldersCount DEF Holders
<1>b. /\ byte' \in [Ranges -> [Proc -> {"none", "read", "write"}]]
      /\ \A c \in Ranges, q \in Proc :
           byte'[c][q] = IF c = "PENDING" /\ q = p THEN "write" ELSE byte[c][q]
  BY <1>0, ByteAfterSet DEF Ranges, Goto, Enter, Called, OwnLevel, Raise, LockPending
<1>1. TypeOK'
  BY <1>0, <1>b DEF TypeOK, Goto, Enter, Called, OwnLevel, Raise, LockPending
<1>h. \A g \in File \ {f} : Counted(g)' = Counted(g)
  BY <1>0, SMTT(30), SMTT(45) DEF TypeOK, Counted, Goto, Enter, Called, OwnLevel, Raise, LockPending
<1>2. CountInv'
  BY <1>0, <1>c, <1>h, HoldersStep, SMTT(30), SMTT(45) DEF TypeOK, LockInv, CountInv, CallInv, LevelInv, Counted, Goto, Enter, Called, OwnLevel, Raise, LockPending
<1>3. CallInv'
  BY <1>0, <1>n, <1>b, FileProc, SMTT(30), SMTT(45) DEF TypeOK, LockInv, CallInv, LevelInv, Counted, InCall, Shares, Ranges, Goto, Enter, Called, OwnLevel, Raise, LockPending
<1>4. LevelInv'
  BY <1>0, <1>c, FileProc, SMTT(30), SMTT(45) DEF TypeOK, LockInv, CountInv, CallInv, LevelInv, Counted, Writes, Goto, Enter, Called, OwnLevel, Raise, LockPending
<1>5. KernelInv'
  BY <1>0, <1>b, SMTT(30), SMTT(45) DEF TypeOK, LockInv, KernelInv, Ranges, CanRead, CanWrite, Goto, Enter, Called, OwnLevel, Raise, LockPending
<1>6. ByteInv'
  BY <1>0, <1>c, <1>b, FileProc, SMTT(30), SMTT(45) DEF TypeOK, LockInv, CountInv, CallInv, LevelInv, ByteInv, Counted, Writes, InCall, Shares, Ranges, CanRead, CanWrite, Goto, Enter, Called, OwnLevel, Raise, LockPending
<1>7. CloseInv'
  BY <1>0, <1>n, SMTT(30), SMTT(45) DEF TypeOK, LockInv, CountInv, CallInv, CloseInv, LevelInv, Counted, InCall, Shares, NoneClosing, Goto, Enter, Called, OwnLevel, Raise, LockPending
<1> QED
  BY <1>1, <1>2, <1>3, <1>4, <1>5, <1>6, <1>7 DEF LockInv

\* The write-lock on SHARED becomes a read-lock.
LEMMA DowngradeStep ==
    ASSUME TypeOK, LockInv, NEW f \in File, Downgrade(f)
    PROVE  TypeOK' /\ LockInv'
<1> DEFINE p == ProcOf(f)
<1>0. p \in Proc
  BY FileProc
<1>n. \A g \in File : g # None
  BY NoneAssumption DEF File
<1>c. /\ Cardinality(Holders(p)) \in Nat
      /\ (\A g \in File : ProcOf(g) = p => ~Counted(g)) => Cardinality(Holders(p)) = 0
      /\ \A g \in File : ProcOf(g) = p /\ Counted(g) => Cardinality(Holders(p)) >= 1
      /\ \A g \in File : ProcOf(g) = p /\ Counted(g) /\ Cardinality(Holders(p)) = 1 =>
           \A h \in File : ProcOf(h) = p /\ Counted(h) => h = g
  BY <1>0, HoldersCount DEF Holders
<1>b. /\ byte' \in [Ranges -> [Proc -> {"none", "read", "write"}]]
      /\ \A c \in Ranges, q \in Proc :
           byte'[c][q] = IF c = "SHARED" /\ q = p THEN "read" ELSE byte[c][q]
  BY <1>0, ByteAfterSet DEF Ranges, Goto, Inode, Enter, Called, Downgrade
<1>1. TypeOK'
  BY <1>0, <1>b DEF TypeOK, Goto, Inode, Enter, Called, Downgrade
<1>h. \A g \in File \ {f} : Counted(g)' = Counted(g)
  BY <1>0, SMTT(30), SMTT(45) DEF TypeOK, Counted, Goto, Inode, Enter, Called, Downgrade
<1>2. CountInv'
  BY <1>0, <1>c, <1>h, HoldersStep, SMTT(30), SMTT(45) DEF TypeOK, LockInv, CountInv, CallInv, LevelInv, Counted, Goto, Inode, Enter, Called, Downgrade
<1>3. CallInv'
  BY <1>0, <1>n, <1>b, FileProc, SMTT(30), SMTT(45) DEF TypeOK, LockInv, CallInv, LevelInv, Counted, InCall, Shares, Ranges, Goto, Inode, Enter, Called, Downgrade
<1>4. LevelInv'
  BY <1>0, <1>c, FileProc, SMTT(30), SMTT(45) DEF TypeOK, LockInv, CountInv, CallInv, LevelInv, Counted, Writes, Goto, Inode, Enter, Called, Downgrade
<1>5. KernelInv'
  BY <1>0, <1>b, SMTT(30), SMTT(45) DEF TypeOK, LockInv, KernelInv, Ranges, CanRead, CanWrite, Goto, Inode, Enter, Called, Downgrade
<1>6. ByteInv'
  BY <1>0, <1>c, <1>b, FileProc, SMTT(30), SMTT(45) DEF TypeOK, LockInv, CountInv, CallInv, LevelInv, ByteInv, Counted, Writes, InCall, Shares, Ranges, CanRead, CanWrite, Goto, Inode, Enter, Called, Downgrade
<1>7. CloseInv'
  BY <1>0, <1>n, SMTT(30), SMTT(45) DEF TypeOK, LockInv, CountInv, CallInv, CloseInv, LevelInv, Counted, InCall, Shares, NoneClosing, Goto, Inode, Enter, Called, Downgrade
<1> QED
  BY <1>1, <1>2, <1>3, <1>4, <1>5, <1>6, <1>7 DEF LockInv

\* The rest of the way down to SHARED.
LEMMA DowngradeDoneStep ==
    ASSUME TypeOK, LockInv, NEW f \in File, DowngradeDone(f)
    PROVE  TypeOK' /\ LockInv'
<1> DEFINE p == ProcOf(f)
<1>0. p \in Proc
  BY FileProc
<1>n. \A g \in File : g # None
  BY NoneAssumption DEF File
<1>c. /\ Cardinality(Holders(p)) \in Nat
      /\ (\A g \in File : ProcOf(g) = p => ~Counted(g)) => Cardinality(Holders(p)) = 0
      /\ \A g \in File : ProcOf(g) = p /\ Counted(g) => Cardinality(Holders(p)) >= 1
      /\ \A g \in File : ProcOf(g) = p /\ Counted(g) /\ Cardinality(Holders(p)) = 1 =>
           \A h \in File : ProcOf(h) = p /\ Counted(h) => h = g
  BY <1>0, HoldersCount DEF Holders
<1>b. /\ byte' \in [Ranges -> [Proc -> {"none", "read", "write"}]]
      /\ \A c \in Ranges, q \in Proc :
           byte'[c][q] = IF c \in {"PENDING", "RESERVED"} /\ q = p THEN "none" ELSE byte[c][q]
  BY <1>0, ByteAfterDrop DEF Ranges, Goto, Leave, DowngradeDone
<1>1. TypeOK'
  BY <1>0, <1>b DEF TypeOK, Goto, Leave, DowngradeDone
<1>h. \A g \in File \ {f} : Counted(g)' = Counted(g)
  BY <1>0, SMTT(30), SMTT(45) DEF TypeOK, Counted, Goto, Leave, DowngradeDone
<1>2. CountInv'
  BY <1>0, <1>c, <1>h, HoldersStep, SMTT(30), SMTT(45) DEF TypeOK, LockInv, CountInv, CallInv, LevelInv, Counted, Goto, Leave, DowngradeDone
<1>3. CallInv'
  BY <1>0, <1>n, <1>b, FileProc, SMTT(30), SMTT(45) DEF TypeOK, LockInv, CallInv, LevelInv, Counted, InCall, Shares, Ranges, Goto, Leave, DowngradeDone
<1>4. LevelInv'
  BY <1>0, <1>c, FileProc, SMTT(30), SMTT(45) DEF TypeOK, LockInv, CountInv, CallInv, LevelInv, Counted, Writes, Goto, Leave, DowngradeDone
<1>5. KernelInv'
  BY <1>0, <1>b, SMTT(30), SMTT(45) DEF TypeOK, LockInv, KernelInv, Ranges, CanRead, CanWrite, Goto, Leave, DowngradeDone
<1>6. ByteInv'
  BY <1>0, <1>c, <1>b, FileProc, SMTT(30), SMTT(45) DEF TypeOK, LockInv, CountInv, CallInv, LevelInv, ByteInv, Counted, Writes, InCall, Shares, Ranges, CanRead, CanWrite, Goto, Leave, DowngradeDone
<1>7. CloseInv'
  BY <1>0, <1>n, SMTT(30), SMTT(45) DEF TypeOK, LockInv, CountInv, CallInv, CloseInv, LevelInv, Counted, InCall, Shares, NoneClosing, Goto, Leave, DowngradeDone
<1> QED
  BY <1>1, <1>2, <1>3, <1>4, <1>5, <1>6, <1>7 DEF LockInv

\* A writer gives up its lock.
LEMMA UnlockWriterStep ==
    ASSUME TypeOK, LockInv, NEW f \in File, UnlockWriter(f)
    PROVE  TypeOK' /\ LockInv'
<1> DEFINE p == ProcOf(f)
<1>0. p \in Proc
  BY FileProc
<1>n. \A g \in File : g # None
  BY NoneAssumption DEF File
<1>c. /\ Cardinality(Holders(p)) \in Nat
      /\ (\A g \in File : ProcOf(g) = p => ~Counted(g)) => Cardinality(Holders(p)) = 0
      /\ \A g \in File : ProcOf(g) = p /\ Counted(g) => Cardinality(Holders(p)) >= 1
      /\ \A g \in File : ProcOf(g) = p /\ Counted(g) /\ Cardinality(Holders(p)) = 1 =>
           \A h \in File : ProcOf(h) = p /\ Counted(h) => h = g
  BY <1>0, HoldersCount DEF Holders
<1>b. /\ byte' \in [Ranges -> [Proc -> {"none", "read", "write"}]]
      /\ \A c \in Ranges, q \in Proc :
           byte'[c][q] = IF c \in {"PENDING", "RESERVED"} /\ q = p THEN "none" ELSE byte[c][q]
  BY <1>0, ByteAfterDrop, SMTT(30), SMTT(45) DEF Ranges, Goto, Enter, Called, UnlockWriter
<1>1. TypeOK'
  BY <1>0, <1>b DEF TypeOK, Goto, Enter, Called, UnlockWriter
<1>h. \A g \in File \ {f} : Counted(g)' = Counted(g)
  BY <1>0, SMTT(30), SMTT(45) DEF TypeOK, Counted, Goto, Enter, Called, UnlockWriter
<1>2. CountInv'
  BY <1>0, <1>c, <1>h, HoldersStep, SMTT(30), SMTT(45) DEF TypeOK, LockInv, CountInv, CallInv, LevelInv, Counted, Goto, Enter, Called, UnlockWriter
<1>3. CallInv'
  BY <1>0, <1>n, <1>b, FileProc, SMTT(30), SMTT(45) DEF TypeOK, LockInv, CallInv, LevelInv, Counted, InCall, Shares, Ranges, Goto, Enter, Called, UnlockWriter
<1>4. LevelInv'
  BY <1>0, <1>c, FileProc, SMTT(30), SMTT(45) DEF TypeOK, LockInv, CountInv, CallInv, LevelInv, Counted, Writes, Goto, Enter, Called, UnlockWriter
<1>5. KernelInv'
  BY <1>0, <1>b, SMTT(30), SMTT(45) DEF TypeOK, LockInv, KernelInv, Ranges, CanRead, CanWrite, Goto, Enter, Called, UnlockWriter
<1>6. ByteInv'
  BY <1>0, <1>c, <1>b, FileProc, SMTT(30), SMTT(45) DEF TypeOK, LockInv, CountInv, CallInv, LevelInv, ByteInv, Counted, Writes, InCall, Shares, Ranges, CanRead, CanWrite, Goto, Enter, Called, UnlockWriter
<1>7. CloseInv'
  BY <1>0, <1>n, SMTT(30), SMTT(45) DEF TypeOK, LockInv, CountInv, CallInv, CloseInv, LevelInv, Counted, InCall, Shares, NoneClosing, Goto, Enter, Called, UnlockWriter
<1> QED
  BY <1>1, <1>2, <1>3, <1>4, <1>5, <1>6, <1>7 DEF LockInv

\* The handle notes the level it has been lowered to.
LEMMA UnlockedStep ==
    ASSUME TypeOK, LockInv, NEW f \in File, Unlocked(f)
    PROVE  TypeOK' /\ LockInv'
<1> DEFINE p == ProcOf(f)
<1>0. p \in Proc
  BY FileProc
<1>n. \A g \in File : g # None
  BY NoneAssumption DEF File
<1>c. /\ Cardinality(Holders(p)) \in Nat
      /\ (\A g \in File : ProcOf(g) = p => ~Counted(g)) => Cardinality(Holders(p)) = 0
      /\ \A g \in File : ProcOf(g) = p /\ Counted(g) => Cardinality(Holders(p)) >= 1
      /\ \A g \in File : ProcOf(g) = p /\ Counted(g) /\ Cardinality(Holders(p)) = 1 =>
           \A h \in File : ProcOf(h) = p /\ Counted(h) => h = g
  BY <1>0, HoldersCount DEF Holders
<1>b. byte' = byte
  BY <1>0 DEF Goto, Inode, Unlocked
<1>1. TypeOK'
  BY <1>0, <1>b DEF TypeOK, Goto, Inode, Unlocked
<1>h. \A g \in File \ {f} : Counted(g)' = Counted(g)
  BY <1>0, SMTT(30), SMTT(45) DEF TypeOK, Counted, Goto, Inode, Unlocked
<1>2. CountInv'
  BY <1>0, <1>c, <1>h, HoldersStep, SMTT(30), SMTT(45) DEF TypeOK, LockInv, CountInv, CallInv, LevelInv, Counted, Goto, Inode, Unlocked
<1>3. CallInv'
  BY <1>0, <1>n, <1>b, FileProc, ZenonT(30) DEF TypeOK, LockInv, CallInv, LevelInv, Counted, InCall, Shares, Ranges, Goto, Inode, Unlocked
<1>4. LevelInv'
  BY <1>0, <1>c, FileProc, SMTT(30), SMTT(45) DEF TypeOK, LockInv, CountInv, CallInv, LevelInv, Counted, Writes, Goto, Inode, Unlocked
<1>5. KernelInv'
  BY <1>0, <1>b, SMTT(30), SMTT(45) DEF TypeOK, LockInv, KernelInv, Ranges, CanRead, CanWrite, Goto, Inode, Unlocked
<1>6. ByteInv'
  BY <1>0, <1>c, <1>b, FileProc, SMTT(30), SMTT(45) DEF TypeOK, LockInv, CountInv, CallInv, LevelInv, ByteInv, Counted, Writes, InCall, Shares, Ranges, CanRead, CanWrite, Goto, Inode, Unlocked
<1>7. CloseInv'
  BY <1>0, <1>n, SMTT(30), SMTT(45) DEF TypeOK, LockInv, CountInv, CallInv, CloseInv, LevelInv, Counted, InCall, Shares, NoneClosing, Goto, Inode, Unlocked
<1> QED
  BY <1>1, <1>2, <1>3, <1>4, <1>5, <1>6, <1>7 DEF LockInv

\* unixClose looks at nLock.
LEMMA CloseFileStep ==
    ASSUME TypeOK, LockInv, NEW f \in File, CloseFile(f)
    PROVE  TypeOK' /\ LockInv'
<1> DEFINE p == ProcOf(f)
<1>0. p \in Proc
  BY FileProc
<1>n. \A g \in File : g # None
  BY NoneAssumption DEF File
<1>c. /\ Cardinality(Holders(p)) \in Nat
      /\ (\A g \in File : ProcOf(g) = p => ~Counted(g)) => Cardinality(Holders(p)) = 0
      /\ \A g \in File : ProcOf(g) = p /\ Counted(g) => Cardinality(Holders(p)) >= 1
      /\ \A g \in File : ProcOf(g) = p /\ Counted(g) /\ Cardinality(Holders(p)) = 1 =>
           \A h \in File : ProcOf(h) = p /\ Counted(h) => h = g
  BY <1>0, HoldersCount DEF Holders
<1>b. byte' = byte
  BY <1>0 DEF Goto, Inode, Called, NoneClosing, CloseFile
<1>1. TypeOK'
  BY <1>0, <1>b DEF TypeOK, Goto, Inode, Called, NoneClosing, CloseFile
<1>h. \A g \in File \ {f} : Counted(g)' = Counted(g)
  BY <1>0, SMTT(30), SMTT(45) DEF TypeOK, Counted, Goto, Inode, Called, NoneClosing, CloseFile
<1>2. CountInv'
  BY <1>0, <1>c, <1>h, HoldersStep, SMTT(30), SMTT(45) DEF TypeOK, LockInv, CountInv, CallInv, LevelInv, Counted, Goto, Inode, Called, NoneClosing, CloseFile
<1>3. CallInv'
  BY <1>0, <1>n, <1>b, FileProc, SMTT(30), SMTT(45) DEF TypeOK, LockInv, CallInv, LevelInv, Counted, InCall, Shares, Ranges, Goto, Inode, Called, NoneClosing, CloseFile
<1>4. LevelInv'
  BY <1>0, <1>c, FileProc, SMTT(30), SMTT(45) DEF TypeOK, LockInv, CountInv, CallInv, LevelInv, Counted, Writes, Goto, Inode, Called, NoneClosing, CloseFile
<1>5. KernelInv'
  BY <1>0, <1>b, SMTT(30), SMTT(45) DEF TypeOK, LockInv, KernelInv, Ranges, CanRead, CanWrite, Goto, Inode, Called, NoneClosing, CloseFile
<1>6. ByteInv'
  BY <1>0, <1>c, <1>b, FileProc, SMTT(30), SMTT(45) DEF TypeOK, LockInv, CountInv, CallInv, LevelInv, ByteInv, Counted, Writes, InCall, Shares, Ranges, CanRead, CanWrite, Goto, Inode, Called, NoneClosing, CloseFile
<1>7. CloseInv'
  BY <1>0, <1>n, <1>c, SMTT(30), SMTT(45) DEF TypeOK, LockInv, CountInv, CallInv, CloseInv, LevelInv, Counted, InCall, Shares, NoneClosing, Goto, Inode, Called, NoneClosing, CloseFile
<1> QED
  BY <1>1, <1>2, <1>3, <1>4, <1>5, <1>6, <1>7 DEF LockInv

\* close(2) clears the locks of the process.
LEMMA CloseDescriptorStep ==
    ASSUME TypeOK, LockInv, NEW f \in File, CloseDescriptor(f)
    PROVE  TypeOK' /\ LockInv'
<1> DEFINE p == ProcOf(f)
<1>0. p \in Proc
  BY FileProc
<1>n. \A g \in File : g # None
  BY NoneAssumption DEF File
<1>c. /\ Cardinality(Holders(p)) \in Nat
      /\ (\A g \in File : ProcOf(g) = p => ~Counted(g)) => Cardinality(Holders(p)) = 0
      /\ \A g \in File : ProcOf(g) = p /\ Counted(g) => Cardinality(Holders(p)) >= 1
      /\ \A g \in File : ProcOf(g) = p /\ Counted(g) /\ Cardinality(Holders(p)) = 1 =>
           \A h \in File : ProcOf(h) = p /\ Counted(h) => h = g
  BY <1>0, HoldersCount DEF Holders
<1>b. /\ byte' \in [Ranges -> [Proc -> {"none", "read", "write"}]]
      /\ \A c \in Ranges, q \in Proc :
           byte'[c][q] = IF c \in Ranges /\ q = p THEN "none" ELSE byte[c][q]
  BY <1>0, ByteAfterDrop DEF Ranges, Goto, Inode, CloseDescriptor
<1>1. TypeOK'
  BY <1>0, <1>b, Zenon DEF TypeOK, Goto, Inode, CloseDescriptor
<1>h. \A g \in File \ {f} : Counted(g)' = Counted(g)
  BY <1>0, SMTT(30), SMTT(45) DEF TypeOK, Counted, Goto, Inode, CloseDescriptor
<1>2. CountInv'
  BY <1>0, <1>c, <1>h, HoldersStep, SMTT(30), SMTT(45) DEF TypeOK, LockInv, CountInv, CallInv, LevelInv, Counted, Goto, Inode, CloseDescriptor
<1>3. CallInv'
  BY <1>0, <1>n, <1>b, FileProc, SMTT(30), SMTT(45) DEF TypeOK, LockInv, CallInv, CloseInv, LevelInv, Counted, InCall, Shares, Ranges, Goto, Inode, CloseDescriptor
<1>4. LevelInv'
  BY <1>0, <1>c, FileProc, SMTT(30), SMTT(45) DEF TypeOK, LockInv, CountInv, CallInv, CloseInv, LevelInv, Counted, Writes, Goto, Inode, CloseDescriptor
<1>5. KernelInv'
  BY <1>0, <1>b, SMTT(30), SMTT(45) DEF TypeOK, LockInv, KernelInv, Ranges, CanRead, CanWrite, Goto, Inode, CloseDescriptor
<1>6. ByteInv'
  BY <1>0, <1>c, <1>b, FileProc, SMTT(30), SMTT(45) DEF TypeOK, LockInv, CountInv, CallInv, CloseInv, LevelInv, ByteInv, Counted, Writes, InCall, Shares, Ranges, CanRead, CanWrite, Goto, Inode, CloseDescriptor
<1>7. CloseInv'
  BY <1>0, <1>n, SMTT(30), SMTT(45) DEF TypeOK, LockInv, CountInv, CallInv, CloseInv, LevelInv, Counted, InCall, Shares, NoneClosing, Goto, Inode, CloseDescriptor
<1> QED
  BY <1>1, <1>2, <1>3, <1>4, <1>5, <1>6, <1>7 DEF LockInv

============================================================================
