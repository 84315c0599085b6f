-------------------------- MODULE UnixLocksTheorems --------------------------
(***************************************************************************)
(* The steps of the unix VFS's locks that may be refused, the theorem of   *)
(* mutual exclusion, and that the locks are those of FileLock.             *)
(***************************************************************************)
EXTENDS UnixLocksProofs

USE DEF NO_LOCK, SHARED_LOCK, RESERVED_LOCK, PENDING_LOCK, EXCLUSIVE_LOCK

\* The read-lock on SHARED, granted or not.
LEMMA ShareRangeStep ==
    ASSUME TypeOK, LockInv, NEW f \in File, ShareRange(f)
    PROVE  TypeOK' /\ LockInv'
<1> DEFINE p == ProcOf(f)
<1>0. p \in Proc
  BY FileProc
<1>n. \A g \in File : g # None
  BY NoneAssumption DEF File
<1>c. /\ Cardinality(Holders(p)) \in Nat
      /\ (\A g \in File : ProcOf(g) = p => ~Counted(g)) => Cardinality(Holders(p)) = 0
      /\ \A g \in File : ProcOf(g) = p /\ Counted(g) => Cardinality(Holders(p)) >= 1
      /\ \A g \in File : ProcOf(g) = p /\ Counted(g) /\ Cardinality(Holders(p)) = 1 =>
           \A h \in File : ProcOf(h) = p /\ Counted(h) => h = g
  BY <1>0, HoldersCount DEF Holders
<1>1. CASE CanRead(p, "SHARED")
  <2>b. /\ byte' \in [Ranges -> [Proc -> {"none", "read", "write"}]]
        /\ \A c \in Ranges, q \in Proc :
             byte'[c][q] = IF c = "SHARED" /\ q = p THEN "read" ELSE byte[c][q]
    BY <1>1, <1>0, ByteAfterSet DEF Ranges, Goto, Inode, ShareRange
  <2>1. TypeOK'
    BY <1>1, <1>0, <2>b DEF TypeOK, Goto, Inode, ShareRange
  <2>h. \A g \in File \ {f} : Counted(g)' = Counted(g)
    BY <1>1, <1>0, SMTT(30), SMTT(45) DEF TypeOK, Counted, Goto, Inode, ShareRange
  <2>2. CountInv'
    BY <1>1, <1>0, <1>c, <2>h, HoldersStep, SMTT(30), SMTT(45) DEF TypeOK, LockInv, CountInv, CallInv, LevelInv, Counted, Goto, Inode, ShareRange
  <2>3. CallInv'
    BY <1>1, <1>0, <1>n, <2>b, FileProc, SMTT(30), SMTT(45) DEF TypeOK, LockInv, CallInv, LevelInv, Counted, InCall, Shares, Ranges, Goto, Inode, ShareRange
  <2>4. LevelInv'
    BY <1>1, <1>0, <1>c, FileProc, SMTT(30), SMTT(45) DEF TypeOK, LockInv, CountInv, CallInv, LevelInv, Counted, Writes, Goto, Inode, ShareRange
  <2>5. KernelInv'
    BY <1>1, <1>0, <2>b, SMTT(30), SMTT(45) DEF TypeOK, LockInv, KernelInv, Ranges, CanRead, CanWrite, Goto, Inode, ShareRange
  <2>6. ByteInv'
    BY <1>1, <1>0, <1>c, <2>b, FileProc, SMTT(30), SMTT(45) DEF TypeOK, LockInv, CountInv, CallInv, LevelInv, ByteInv, Counted, Writes, InCall, Shares, Ranges, CanRead, CanWrite, Goto, Inode, ShareRange
  <2>7. CloseInv'
    BY <1>1, <1>0, <1>n, SMTT(30), SMTT(45) DEF TypeOK, LockInv, CountInv, CallInv, CloseInv, LevelInv, Counted, InCall, Shares, NoneClosing, Goto, Inode, ShareRange
  <2> QED
    BY <2>1, <2>2, <2>3, <2>4, <2>5, <2>6, <2>7, SMTT(30), SMTT(45) DEF LockInv
<1>2. CASE ~CanRead(p, "SHARED")
  <2>b. byte' = byte
    BY <1>2, <1>0 DEF Goto, Inode, ShareRange
  <2>1. TypeOK'
    BY <1>2, <1>0, <2>b DEF TypeOK, Goto, Inode, ShareRange
  <2>h. \A g \in File \ {f} : Counted(g)' = Counted(g)
    BY <1>2, <1>0, SMTT(30), SMTT(45) DEF TypeOK, Counted, Goto, Inode, ShareRange
  <2>2. CountInv'
    BY <1>2, <1>0, <1>c, <2>h, HoldersStep, SMTT(30), SMTT(45) DEF TypeOK, LockInv, CountInv, CallInv, LevelInv, Counted, Goto, Inode, ShareRange
  <2>3. CallInv'
    BY <1>2, <1>0, <1>n, <2>b, FileProc, SMTT(30), SMTT(45) DEF TypeOK, LockInv, CallInv, LevelInv, Counted, InCall, Shares, Ranges, Goto, Inode, ShareRange
  <2>4. LevelInv'
    BY <1>2, <1>0, <1>c, FileProc, SMTT(30), SMTT(45) DEF TypeOK, LockInv, CountInv, CallInv, LevelInv, Counted, Writes, Goto, Inode, ShareRange
  <2>5. KernelInv'
    BY <1>2, <1>0, <2>b, SMTT(30), SMTT(45) DEF TypeOK, LockInv, KernelInv, Ranges, CanRead, CanWrite, Goto, Inode, ShareRange
  <2>6. ByteInv'
    BY <1>2, <1>0, <1>c, <2>b, FileProc, SMTT(30), SMTT(45) DEF TypeOK, LockInv, CountInv, CallInv, LevelInv, ByteInv, Counted, Writes, InCall, Shares, Ranges, CanRead, CanWrite, Goto, Inode, ShareRange
  <2>7. CloseInv'
    BY <1>2, <1>0, <1>n, SMTT(30), SMTT(45) DEF TypeOK, LockInv, CountInv, CallInv, CloseInv, LevelInv, Counted, InCall, Shares, NoneClosing, Goto, Inode, ShareRange
  <2> QED
    BY <2>1, <2>2, <2>3, <2>4, <2>5, <2>6, <2>7 DEF LockInv
<1> QED
  BY <1>1, <1>2 DEF ShareRange

\* The end of a SHARED request.
LEMMA ShareDoneStep ==
    ASSUME TypeOK, LockInv, NEW f \in File, ShareDone(f)
    PROVE  TypeOK' /\ LockInv'
<1> DEFINE p == ProcOf(f)
<1>0. p \in Proc
  BY FileProc
<1>n. \A g \in File : g # None
  BY NoneAssumption DEF File
<1>c. /\ Cardinality(Holders(p)) \in Nat
      /\ (\A g \in File : ProcOf(g) = p => ~Counted(g)) => Cardinality(Holders(p)) = 0
      /\ \A g \in File : ProcOf(g) = p /\ Counted(g) => Cardinality(Holders(p)) >= 1
      /\ \A g \in File : ProcOf(g) = p /\ Counted(g) /\ Cardinality(Holders(p)) = 1 =>
           \A h \in File : ProcOf(h) = p /\ Counted(h) => h = g
  BY <1>0, HoldersCount DEF Holders
<1>1. CASE pc[f] = "shared"
  <2>b. /\ byte' \in [Ranges -> [Proc -> {"none", "read", "write"}]]
        /\ \A c \in Ranges, q \in Proc :
             byte'[c][q] = IF c \in {"PENDING"} /\ q = p THEN "none" ELSE byte[c][q]
    BY <1>1, <1>0, ByteAfterDrop DEF Ranges, Goto, Inode, Leave, ShareDone
  <2>t. /\ eFileLock' = [eFileLock EXCEPT ![f] = SHARED_LOCK]
        /\ iLock' = [iLock EXCEPT ![p] = SHARED_LOCK]
        /\ nShared' = [nShared EXCEPT ![p] = 1]
        /\ nLock' = [nLock EXCEPT ![p] = @ + 1]
        /\ mutex' = [mutex EXCEPT ![p] = None]
        /\ pc' = [pc EXCEPT ![f] = "idle"]
        /\ raced' = raced
    BY <1>1, <1>0 DEF Goto, Inode, Leave, ShareDone
  <2>1. TypeOK'
    BY <1>1, <1>0, <2>b, <2>t, SMTT(30), SMTT(45) DEF TypeOK
  <2>h. \A g \in File \ {f} : Counted(g)' = Counted(g)
    BY <1>1, <1>0, <2>t, SMTT(30), SMTT(45) DEF TypeOK, Counted
  <2>2. CountInv'
    BY <1>1, <1>0, <2>t, <1>c, <2>h, HoldersStep, SMTT(30), SMTT(45) DEF TypeOK, LockInv, CountInv, CallInv, LevelInv, Counted, Shares
  <2>3. CallInv'
    BY <1>1, <1>0, <2>t, <1>n, <2>b, FileProc, SMTT(30), SMTT(45) DEF TypeOK, LockInv, CallInv, LevelInv, Counted, InCall, Shares, Ranges
  <2>4. LevelInv'
    BY <1>1, <1>0, <2>t, <1>c, FileProc, SMTT(30), SMTT(45) DEF TypeOK, LockInv, CountInv, CallInv, LevelInv, Counted, Writes, Shares
  <2>5. KernelInv'
    BY <1>1, <1>0, <2>t, <2>b, SMTT(30), SMTT(45) DEF TypeOK, LockInv, KernelInv, Ranges, CanRead, CanWrite
  <2>6. ByteInv'
    BY <1>1, <1>0, <2>t, <1>c, <2>b, FileProc, SMTT(30), SMTT(45) DEF TypeOK, LockInv, CountInv, CallInv, LevelInv, ByteInv, Counted, Writes, InCall, Shares, Ranges, CanRead, CanWrite
  <2>7. CloseInv'
    BY <1>1, <1>0, <2>t, <1>n, SMTT(30), SMTT(45) DEF TypeOK, LockInv, CountInv, CallInv, CloseInv, LevelInv, Counted, InCall, Shares, NoneClosing
  <2> QED
    BY <2>1, <2>2, <2>3, <2>4, <2>5, <2>6, <2>7 DEF LockInv
<1>2. CASE pc[f] = "refused"
  <2>b. /\ byte' \in [Ranges -> [Proc -> {"none", "read", "write"}]]
        /\ \A c \in Ranges, q \in Proc :
             byte'[c][q] = IF c \in {"PENDING"} /\ q = p THEN "none" ELSE byte[c][q]
    BY <1>2, <1>0, ByteAfterDrop, SMTT(30), SMTT(45) DEF Ranges, Goto, Inode, Leave, ShareDone
  <2>t. /\ eFileLock' = eFileLock /\ iLock' = iLock
        /\ nShared' = nShared /\ nLock' = nLock
        /\ mutex' = [mutex EXCEPT ![p] = None]
        /\ pc' = [pc EXCEPT ![f] = "idle"]
        /\ raced' = raced \ {p}
    BY <1>2, <1>0 DEF Goto, Inode, Leave, ShareDone
  <2>1. TypeOK'
    BY <1>2, <1>0, <2>t, <2>b DEF TypeOK
  <2>h. \A g \in File \ {f} : Counted(g)' = Counted(g)
    BY <1>2, <1>0, <2>t, SMTT(30), SMTT(45) DEF TypeOK, Counted
  <2>2. CountInv'
    BY <1>2, <1>0, <2>t, <1>c, <2>h, HoldersStep, SMTT(30), SMTT(45) DEF TypeOK, LockInv, CountInv, CallInv, LevelInv, Counted
  <2>3. CallInv'
    BY <1>2, <1>0, <2>t, <1>n, <2>b, FileProc, SMTT(30), SMTT(45) DEF TypeOK, LockInv, CallInv, LevelInv, Counted, InCall, Shares, Ranges
  <2>4. LevelInv'
    BY <1>2, <1>0, <2>t, <1>c, FileProc, SMTT(30), SMTT(45) DEF TypeOK, LockInv, CountInv, CallInv, LevelInv, Counted, Writes, Shares
  <2>5. KernelInv'
    BY <1>2, <1>0, <2>t, <2>b, SMTT(30), SMTT(45) DEF TypeOK, LockInv, KernelInv, Ranges, CanRead, CanWrite
  <2>6. ByteInv'
    BY <1>2, <1>0, <2>t, <1>c, <2>b, FileProc, SMTT(30), SMTT(45) DEF TypeOK, LockInv, CountInv, CallInv, LevelInv, ByteInv, Counted, Writes, InCall, Shares, Ranges, CanRead, CanWrite
  <2>7. CloseInv'
    BY <1>2, <1>0, <2>t, <1>n, SMTT(30), SMTT(45) DEF TypeOK, LockInv, CountInv, CallInv, CloseInv, LevelInv, Counted, InCall, Shares, NoneClosing
  <2> QED
    BY <2>1, <2>2, <2>3, <2>4, <2>5, <2>6, <2>7 DEF LockInv
<1> QED
  BY <1>1, <1>2, SMTT(30), SMTT(45) DEF ShareDone

\* The write-lock on SHARED, granted or not.
LEMMA LockExclusiveStep ==
    ASSUME TypeOK, LockInv, NEW f \in File, LockExclusive(f)
    PROVE  TypeOK' /\ LockInv'
<1> DEFINE p == ProcOf(f)
<1>0. p \in Proc
  BY FileProc
<1>n. \A g \in File : g # None
  BY NoneAssumption DEF File
<1>c. /\ Cardinality(Holders(p)) \in Nat
      /\ (\A g \in File : ProcOf(g) = p => ~Counted(g)) => Cardinality(Holders(p)) = 0
      /\ \A g \in File : ProcOf(g) = p /\ Counted(g) => Cardinality(Holders(p)) >= 1
      /\ \A g \in File : ProcOf(g) = p /\ Counted(g) /\ Cardinality(Holders(p)) = 1 =>
           \A h \in File : ProcOf(h) = p /\ Counted(h) => h = g
  BY <1>0, HoldersCount DEF Holders
<1>1. CASE nShared[p] <= 1 /\ CanWrite(p, "SHARED")
  <2>b. /\ byte' \in [Ranges -> [Proc -> {"none", "read", "write"}]]
        /\ \A c \in Ranges, q \in Proc :
             byte'[c][q] = IF c = "SHARED" /\ q = p THEN "write" ELSE byte[c][q]
    BY <1>1, <1>0, ByteAfterSet DEF Ranges, Goto, Leave, Called, OwnLevel, Raise, LockExclusive
  <2>t. /\ pc[f] = "pending" \/ (pc[f] = "idle" /\ mutex[p] = None /\ eFileLock[f] \in {SHARED_LOCK, PENDING_LOCK} /\ eFileLock[f] = iLock[p])
        /\ eFileLock' = [eFileLock EXCEPT ![f] = EXCLUSIVE_LOCK]
        /\ iLock' = [iLock EXCEPT ![p] = EXCLUSIVE_LOCK]
        /\ nShared' = nShared /\ nLock' = nLock
        /\ mutex' = [mutex EXCEPT ![p] = None]
        /\ pc' = [pc EXCEPT ![f] = "idle"]
        /\ raced' = raced
    BY <1>1, <1>0 DEF Goto, Leave, Called, OwnLevel, Raise, LockExclusive
  <2>1. TypeOK'
    BY <1>1, <1>0, <2>b, <2>t DEF TypeOK
  <2>h. \A g \in File \ {f} : Counted(g)' = Counted(g)
    BY <1>1, <1>0, <2>t, ZenonT(60) DEF TypeOK, Counted
  <2>2. CountInv'
    BY <1>1, <1>0, <2>t, <1>c, <2>h, HoldersStep, SMTT(30), SMTT(45) DEF TypeOK, LockInv, CountInv, CallInv, LevelInv, Counted
  <2>3. CallInv'
    BY <1>1, <1>0, <2>t, <1>n, <2>b, FileProc, SMTT(30), SMTT(45) DEF TypeOK, LockInv, CallInv, LevelInv, Counted, InCall, Shares, Ranges
  <2>4. LevelInv'
    BY <1>1, <1>0, <2>t, <1>c, FileProc, SMTT(30), SMTT(45) DEF TypeOK, LockInv, CountInv, CallInv, LevelInv, Counted, Writes
  <2>5. KernelInv'
    BY <1>1, <1>0, <2>t, <2>b, SMTT(30), SMTT(45) DEF TypeOK, LockInv, KernelInv, Ranges, CanRead, CanWrite
  <2>6. ByteInv'
    BY <1>1, <1>0, <2>t, <1>c, <2>b, FileProc, SMTT(30), SMTT(45) DEF TypeOK, LockInv, CountInv, CallInv, LevelInv, ByteInv, Counted, Writes, InCall, Shares, Ranges, CanRead, CanWrite
  <2>7. CloseInv'
    BY <1>1, <1>0, <2>t, <1>n, SMTT(30), SMTT(45) DEF TypeOK, LockInv, CountInv, CallInv, CloseInv, LevelInv, Counted, InCall, Shares, NoneClosing
  <2> QED
    BY <2>1, <2>2, <2>3, <2>4, <2>5, <2>6, <2>7 DEF LockInv
<1>2. CASE ~(nShared[p] <= 1 /\ CanWrite(p, "SHARED"))
  <2>b. byte' = byte
    BY <1>2, <1>0 DEF Goto, Leave, Called, OwnLevel, Raise, LockExclusive
  <2>1. TypeOK'
    BY <1>2, <1>0, <2>b DEF TypeOK, Goto, Leave, Called, OwnLevel, Raise, LockExclusive
  <2>h. \A g \in File \ {f} : Counted(g)' = Counted(g)
    BY <1>2, <1>0, ZenonT(60) DEF TypeOK, Counted, Goto, Leave, Called, OwnLevel, Raise, LockExclusive
  <2>2. CountInv'
    BY <1>2, <1>0, <1>c, <2>h, HoldersStep, SMTT(30), SMTT(45) DEF TypeOK, LockInv, CountInv, CallInv, LevelInv, Counted, Goto, Leave, Called, OwnLevel, Raise, LockExclusive
  <2>3. CallInv'
    BY <1>2, <1>0, <1>n, <2>b, FileProc, SMTT(30), SMTT(45) DEF TypeOK, LockInv, CallInv, LevelInv, Counted, InCall, Shares, Ranges, Goto, Leave, Called, OwnLevel, Raise, LockExclusive
  <2>4. LevelInv'
    BY <1>2, <1>0, <1>c, FileProc, SMTT(30), SMTT(45) DEF TypeOK, LockInv, CountInv, CallInv, LevelInv, Counted, Writes, Goto, Leave, Called, OwnLevel, Raise, LockExclusive
  <2>5. KernelInv'
    BY <1>2, <1>0, <2>b, SMTT(30), SMTT(45) DEF TypeOK, LockInv, KernelInv, Ranges, CanRead, CanWrite, Goto, Leave, Called, OwnLevel, Raise, LockExclusive
  <2>6. ByteInv'
    BY <1>2, <1>0, <1>c, <2>b, FileProc, SMTT(30), SMTT(45) DEF TypeOK, LockInv, CountInv, CallInv, LevelInv, ByteInv, Counted, Writes, InCall, Shares, Ranges, CanRead, CanWrite, Goto, Leave, Called, OwnLevel, Raise, LockExclusive
  <2>7. CloseInv'
    BY <1>2, <1>0, <1>n, SMTT(30), SMTT(45) DEF TypeOK, LockInv, CountInv, CallInv, CloseInv, LevelInv, Counted, InCall, Shares, NoneClosing, Goto, Leave, Called, OwnLevel, Raise, LockExclusive
  <2> QED
    BY <2>1, <2>2, <2>3, <2>4, <2>5, <2>6, <2>7 DEF LockInv
<1> QED
  BY <1>1, <1>2, Zenon DEF LockExclusive

\* The last handle of the process, or another, gives up SHARED.
LEMMA UnlockSharedStep ==
    ASSUME TypeOK, LockInv, NEW f \in File, UnlockShared(f)
    PROVE  TypeOK' /\ LockInv'
<1> DEFINE p == ProcOf(f)
<1>0. p \in Proc
  BY FileProc
<1>n. \A g \in File : g # None
  BY NoneAssumption DEF File
<1>c. /\ Cardinality(Holders(p)) \in Nat
      /\ (\A g \in File : ProcOf(g) = p => ~Counted(g)) => Cardinality(Holders(p)) = 0
      /\ \A g \in File : ProcOf(g) = p /\ Counted(g) => Cardinality(Holders(p)) >= 1
      /\ \A g \in File : ProcOf(g) = p /\ Counted(g) /\ Cardinality(Holders(p)) = 1 =>
           \A h \in File : ProcOf(h) = p /\ Counted(h) => h = g
  BY <1>0, HoldersCount DEF Holders
<1>1. CASE nShared[p] = 1
  <2>b. /\ byte' \in [Ranges -> [Proc -> {"none", "read", "write"}]]
        /\ \A c \in Ranges, q \in Proc :
             byte'[c][q] = IF c \in Ranges /\ q = p THEN "none" ELSE byte[c][q]
    BY <1>1, <1>0, ByteAfterDrop, SMTT(30), SMTT(45) DEF Ranges, Goto, Leave, Called, UnlockShared
  <2>t. /\ pc[f] = "unlock" \/ (pc[f] = "idle" /\ mutex[p] = None /\ eFileLock[f] = SHARED_LOCK)
        /\ eFileLock' = eFileLock
        /\ iLock' = [iLock EXCEPT ![p] = NO_LOCK]
        /\ nShared' = [nShared EXCEPT ![p] = @ - 1]
        /\ nLock' = [nLock EXCEPT ![p] = @ - 1]
        /\ mutex' = [mutex EXCEPT ![p] = None]
        /\ pc' = [pc EXCEPT ![f] = "tonone"]
        /\ raced' = raced \ {p}
    BY <1>1, <1>0 DEF Goto, Leave, Called, UnlockShared
  <2>1. TypeOK'
    BY <1>1, <1>0, <2>t, <1>c, <2>b, SMTT(30), SMTT(45) DEF TypeOK, LockInv, CountInv, CallInv, Counted
  <2>h. \A g \in File \ {f} : Counted(g)' = Counted(g)
    BY <1>1, <1>0, <2>t, SMTT(30), SMTT(45) DEF TypeOK, Counted
  <2>2. CountInv'
    BY <1>1, <1>0, <2>t, <1>c, <2>h, HoldersStep, SMTT(30), SMTT(45) DEF TypeOK, LockInv, CountInv, CallInv, LevelInv, Counted
  <2>3. CallInv'
    BY <1>1, <1>0, <2>t, <1>n, <2>b, FileProc, SMTT(30), SMTT(45) DEF TypeOK, LockInv, CallInv, LevelInv, Counted, InCall, Shares, Ranges
  <2>4. LevelInv'
    BY <1>1, <1>0, <2>t, <1>c, FileProc, SMTT(30), SMTT(45) DEF TypeOK, LockInv, CountInv, CallInv, LevelInv, Counted, Writes
  <2>5. KernelInv'
    BY <1>1, <1>0, <2>t, <2>b, SMTT(30), SMTT(45) DEF TypeOK, LockInv, KernelInv, Ranges, CanRead, CanWrite
  <2>6. ByteInv'
    BY <1>1, <1>0, <2>t, <1>c, <2>b, FileProc, SMTT(30), SMTT(45) DEF TypeOK, LockInv, CountInv, CallInv, LevelInv, ByteInv, Counted, Writes, InCall, Shares, Ranges, CanRead, CanWrite
  <2>7. CloseInv'
    BY <1>1, <1>0, <2>t, <1>n, <1>c, SMTT(30), SMTT(45) DEF TypeOK, LockInv, CountInv, CallInv, CloseInv, LevelInv, Counted, InCall, Shares, NoneClosing
  <2> QED
    BY <2>1, <2>2, <2>3, <2>4, <2>5, <2>6, <2>7 DEF LockInv
<1>2. CASE nShared[p] # 1
  <2>b. byte' = byte
    BY <1>2, <1>0 DEF Goto, Leave, Called, UnlockShared
  <2>t. /\ pc[f] = "unlock" \/ (pc[f] = "idle" /\ mutex[p] = None /\ eFileLock[f] = SHARED_LOCK)
        /\ eFileLock' = eFileLock /\ iLock' = iLock
        /\ nShared' = [nShared EXCEPT ![p] = @ - 1]
        /\ nLock' = [nLock EXCEPT ![p] = @ - 1]
        /\ mutex' = [mutex EXCEPT ![p] = None]
        /\ pc' = [pc EXCEPT ![f] = "tonone"]
        /\ raced' = raced
    BY <1>2, <1>0 DEF Goto, Leave, Called, UnlockShared
  <2>1. TypeOK'
    BY <1>2, <1>0, <2>t, <1>c, <2>b DEF TypeOK, LockInv, CountInv, CallInv, Counted
  <2>h. \A g \in File \ {f} : Counted(g)' = Counted(g)
    BY <1>2, <1>0, <2>t, SMTT(30), SMTT(45) DEF TypeOK, Counted
  <2>2. CountInv'
    BY <1>2, <1>0, <2>t, <1>c, <2>h, HoldersStep, SMTT(30), SMTT(45) DEF TypeOK, LockInv, CountInv, CallInv, LevelInv, Counted
  <2>3. CallInv'
    BY <1>2, <1>0, <2>t, <1>n, <2>b, FileProc, SMTT(30), SMTT(45) DEF TypeOK, LockInv, CallInv, LevelInv, Counted, InCall, Shares, Ranges
  <2>4. LevelInv'
    BY <1>2, <1>0, <2>t, <1>c, FileProc, SMTT(30), SMTT(45) DEF TypeOK, LockInv, CountInv, CallInv, LevelInv, Counted, Writes
  <2>5. KernelInv'
    BY <1>2, <1>0, <2>t, <2>b, SMTT(30), SMTT(45) DEF TypeOK, LockInv, KernelInv, Ranges, CanRead, CanWrite
  <2>6. ByteInv'
    BY <1>2, <1>0, <2>t, <1>c, <2>b, FileProc, SMTT(30), SMTT(45) DEF TypeOK, LockInv, CountInv, CallInv, LevelInv, ByteInv, Counted, Writes, InCall, Shares, Ranges, CanRead, CanWrite
  <2>7. CloseInv'
    BY <1>2, <1>0, <2>t, <1>n, <1>c, SMTT(30), SMTT(45) DEF TypeOK, LockInv, CountInv, CallInv, CloseInv, LevelInv, Counted, InCall, Shares, NoneClosing
  <2> QED
    BY <2>1, <2>2, <2>3, <2>4, <2>5, <2>6, <2>7 DEF LockInv
<1> QED
  BY <1>1, <1>2, SMTT(30), SMTT(45) DEF UnlockShared

\* The end of a process.
LEMMA KillStep ==
    ASSUME TypeOK, LockInv, NEW p \in Proc, Kill(p)
    PROVE  TypeOK' /\ LockInv'
<1>b. /\ byte' \in [Ranges -> [Proc -> {"none", "read", "write"}]]
      /\ \A c \in Ranges, q \in Proc :
           byte'[c][q] = IF c \in Ranges /\ q = p THEN "none" ELSE byte[c][q]
  BY ByteAfterDrop DEF Kill
<1>1. TypeOK'
  BY <1>b DEF TypeOK, Kill
<1>2. CountInv'
  <2>1. Holders(p)' = {}
    BY DEF Holders, Counted, Kill
  <2>2. \A q \in Proc \ {p} : Holders(q)' = Holders(q)
    BY DEF Holders, Counted, Kill
  <2>3. Cardinality({}) = 0
    BY FS_EmptySet
  <2> QED
    BY <2>1, <2>2, <2>3, Zenon DEF TypeOK, LockInv, CountInv, Kill
<1>3. CallInv'
  BY <1>b, FileProc DEF TypeOK, LockInv, CallInv, InCall, Shares, Ranges, Kill
<1>4. LevelInv'
  BY FileProc DEF TypeOK, LockInv, LevelInv, Counted, Writes, Kill
<1>5. KernelInv'
  BY <1>b DEF LockInv, KernelInv
<1>6. ByteInv'
  BY <1>b, FileProc DEF TypeOK, LockInv, ByteInv, Writes, Ranges, Kill
<1>7. CloseInv'
  BY FileProc DEF TypeOK, LockInv, CloseInv, Shares, Kill
<1> QED
  BY <1>1, <1>2, <1>3, <1>4, <1>5, <1>6, <1>7 DEF LockInv

-----------------------------------------------------------------------------
\* Before the first call no handle holds anything.
LEMMA LockInit == Init => TypeOK /\ LockInv
<1> SUFFICES ASSUME Init PROVE TypeOK /\ LockInv
  OBVIOUS
<1>1. TypeOK
  BY DEF Init, TypeOK
<1>2. CountInv
  <2>1. \A p \in Proc : Holders(p) = {}
    BY DEF Holders, Counted, Init
  <2> QED
    BY <2>1, FS_EmptySet DEF CountInv, Init
<1>3. CallInv /\ CloseInv /\ LevelInv /\ KernelInv /\ ByteInv
  BY FileProc DEF Init, CallInv, CloseInv, LevelInv, KernelInv, ByteInv, Counted, Writes, InCall, Shares
<1> QED
  BY <1>1, <1>2, <1>3 DEF LockInv

\* Every step of unixLock, posixUnlock and unixClose keeps the invariant.
LEMMA LockNext ==
    ASSUME TypeOK, LockInv, [Next]_vars
    PROVE  TypeOK' /\ LockInv'
<1>1. ASSUME NEW f \in File, Step(f) PROVE TypeOK' /\ LockInv'
  BY Zenon, <1>1, OpenStep, ShareInProcessStep, SharePendingStep, ShareRangeStep, ShareDoneStep,
     LockReservedStep, LockPendingStep, LockExclusiveStep, DowngradeStep, DowngradeDoneStep,
     UnlockWriterStep, UnlockSharedStep, UnlockedStep, CloseFileStep, CloseDescriptorStep
     DEF Step
<1>2. ASSUME NEW p \in Proc, Kill(p) PROVE TypeOK' /\ LockInv'
  BY <1>2, KillStep
<1>3. CASE UNCHANGED vars
  <2>1. TypeOK'
    BY <1>3 DEF vars, TypeOK
  <2>2. \A p \in Proc : Holders(p)' = Holders(p)
    BY <1>3 DEF vars, Holders, Counted
  <2>3. CountInv'
    BY <1>3, <2>2, Zenon DEF vars, LockInv, CountInv
  <2>4. CallInv' /\ CloseInv' /\ LevelInv' /\ KernelInv' /\ ByteInv'
    BY <1>3 DEF vars, LockInv, CallInv, CloseInv, LevelInv, KernelInv, ByteInv, Counted, Writes, InCall, Shares
  <2> QED
    BY <2>1, <2>3, <2>4 DEF LockInv
<1> QED
  BY <1>1, <1>2, <1>3 DEF Next

\* The invariant leaves no room for two writers, or a writer beside an
\* EXCLUSIVE lock: within a process by the inode record, across processes by
\* the kernel, when neither locked in the gap of unixClose.
LEMMA Exclusion ==
    ASSUME TypeOK, LockInv, NEW f \in File, NEW g \in File, f # g,
           ProcOf(f) = ProcOf(g) \/ (ProcOf(f) \notin raced /\ ProcOf(g) \notin raced)
    PROVE  /\ Holds(f) = EXCLUSIVE_LOCK => Holds(g) = NO_LOCK
           /\ Holds(f) >= RESERVED_LOCK => Holds(g) < RESERVED_LOCK
<1> DEFINE p == ProcOf(f)
           q == ProcOf(g)
<1>1. p \in Proc /\ q \in Proc
  BY FileProc
<1>2. Holds(g) # NO_LOCK => Counted(g)
  BY DEF Holds, Counted, TypeOK, LockInv, CallInv, Shares
<1>3. \A h \in File : Holds(h) >= RESERVED_LOCK => Writes(h) /\ pc[h] # "downgrade" /\ Holds(h) = eFileLock[h]
  BY DEF Holds, Writes, TypeOK, LockInv, CallInv, Shares
<1>4. ASSUME Holds(f) = EXCLUSIVE_LOCK, Counted(g) PROVE FALSE
  <2>1. Writes(f) /\ eFileLock[f] = EXCLUSIVE_LOCK /\ pc[f] # "downgrade" /\ Counted(f)
    BY <1>3, <1>4 DEF Counted, Writes
  <2>2. nShared[p] = 1
    BY <2>1 DEF LockInv, ByteInv
  <2>3. CASE p = q
    <3>1. f \in Holders(p) /\ g \in Holders(p) /\ Cardinality(Holders(p)) = 1
      BY <1>1, <1>4, <2>1, <2>2, <2>3 DEF Holders, LockInv, CountInv
    <3> QED
      BY <1>1, <3>1, HoldersCount
  <2>4. CASE p # q
    <3>1. byte["SHARED"][p] = "write"
      BY <2>1, <2>4 DEF LockInv, ByteInv
    <3> QED
      BY <1>1, <1>4, <2>4, <3>1 DEF LockInv, LevelInv, ByteInv, KernelInv, Ranges
  <2> QED
    BY <2>3, <2>4
<1>5. ASSUME Holds(f) >= RESERVED_LOCK, Holds(g) >= RESERVED_LOCK PROVE FALSE
  <2>1. Writes(f) /\ Writes(g) /\ Counted(f) /\ Counted(g)
    BY <1>3, <1>5 DEF Counted, Writes
  <2>2. p # q
    BY <2>1 DEF LockInv, LevelInv
  <2>3. \A h \in File : Writes(h) => eFileLock[h] \in {RESERVED_LOCK, PENDING_LOCK, EXCLUSIVE_LOCK}
    BY DEF Writes, TypeOK
  <2>4. byte["SHARED"][p] # "none" /\ byte["SHARED"][q] # "none"
    BY <1>1, <2>1, <2>2 DEF LockInv, LevelInv, ByteInv
  <2>5. eFileLock[f] # EXCLUSIVE_LOCK /\ eFileLock[g] # EXCLUSIVE_LOCK
    BY <1>1, <1>3, <1>5, <2>1, <2>2, <2>4, ZenonT(30) DEF LockInv, ByteInv, KernelInv, Ranges
  <2>6. byte["RESERVED"][p] = "write" /\ byte["RESERVED"][q] = "write"
    BY <2>1, <2>2, <2>3, <2>5 DEF LockInv, ByteInv
  <2> QED
    BY <1>1, <2>2, <2>6 DEF LockInv, KernelInv, Ranges
<1>6. Holds(g) \in 0 .. 4 /\ Holds(f) \in 0 .. 4
  BY DEF Holds, TypeOK
<1> QED
  BY <1>2, <1>4, <1>5, <1>6

\* The inductive invariant of unixLock, posixUnlock and unixClose holds in
\* every behaviour, for any number of processes and handles.
THEOREM LockInvariance ==
    Spec => [](TypeOK /\ LockInv)
<1>1. TypeOK /\ LockInv /\ [Next]_vars => (TypeOK /\ LockInv)'
  BY LockNext
<1> QED
  BY LockInit, <1>1, PTL DEF Spec

\* The lock counts of an inode stay natural numbers: posixUnlock and unixClose
\* never take nShared or nLock below zero, whatever handles come and go.
THEOREM LockCountsHold ==
    Spec => []TypeOK
  BY LockInvariance, PTL

\* No two handles, of one process or of two, ever both hold a writer's lock,
\* and an EXCLUSIVE lock is alone; of two processes as long as neither relies
\* on a lock it took in the gap of unixClose between the mutex and close(2).
THEOREM MutualExclusionHolds ==
    Spec => []MutualExclusion
<1>1. TypeOK /\ LockInv => MutualExclusion
  BY Exclusion DEF MutualExclusion
<1> QED
  BY LockInvariance, <1>1, PTL

-----------------------------------------------------------------------------
(* Every step of unixLock, posixUnlock and unixClose is a step of the      *)
(* abstract lock, or leaves it alone.                                      *)

USE DEF Abs!NO_LOCK, Abs!SHARED_LOCK, Abs!RESERVED_LOCK, Abs!PENDING_LOCK, Abs!EXCLUSIVE_LOCK

\* The abstract lock: what each handle's connection may rely on, unless its
\* process locked in the gap of unixClose.
lev == [f \in File |-> Level(f)]

\* What one call may do to the lock of its handle.
Move(f) ==
    \/ Holds(f)' = Holds(f)
    \/ Holds(f) = NO_LOCK /\ Holds(f)' = SHARED_LOCK
    \/ Holds(f) = SHARED_LOCK /\ Holds(f)' = RESERVED_LOCK
    \/ Holds(f) = RESERVED_LOCK /\ Holds(f)' = PENDING_LOCK
    \/ Holds(f) \in {SHARED_LOCK, PENDING_LOCK} /\ Holds(f)' = EXCLUSIVE_LOCK
    \/ Holds(f) > SHARED_LOCK /\ Holds(f)' = SHARED_LOCK
    \/ Holds(f) > NO_LOCK /\ Holds(f)' = NO_LOCK

\* A call that puts its process among those that locked in the gap, or takes
\* it out: no handle of the process relies on a lock after it, and none but
\* the call's own did before.
Settles(f) ==
    /\ Holds(f)' = NO_LOCK
    /\ \A g \in File \ {f} : ProcOf(g) = ProcOf(f) => Holds(g) = NO_LOCK
    /\ \A q \in Proc \ {ProcOf(f)} : q \in raced' <=> q \in raced

\* The same for the abstract lock.
LevelMove(f) ==
    \/ Level(f)' = Level(f)
    \/ Level(f) = NO_LOCK /\ Level(f)' = SHARED_LOCK
    \/ Level(f) = SHARED_LOCK /\ Level(f)' = RESERVED_LOCK
    \/ Level(f) = RESERVED_LOCK /\ Level(f)' = PENDING_LOCK
    \/ Level(f) \in {SHARED_LOCK, PENDING_LOCK} /\ Level(f)' = EXCLUSIVE_LOCK
    \/ Level(f) > SHARED_LOCK /\ Level(f)' = SHARED_LOCK
    \/ Level(f) > NO_LOCK /\ Level(f)' = NO_LOCK

\* A lock a connection relies on is counted in the inode (nShared).
LEMMA HeldIsCounted ==
    ASSUME TypeOK, LockInv, NEW g \in File, Holds(g) # NO_LOCK
    PROVE  Counted(g)
  BY DEF Holds, Counted, TypeOK, LockInv, CallInv, Shares

\* The abstract lock follows what the connections rely on.
LEMMA LevelFollows ==
    ASSUME NEW f \in File, \A g \in File : Holds(g) \in 0 .. 4, Move(f),
           \A g \in File \ {f} : Holds(g)' = Holds(g), raced' = raced \/ Settles(f)
    PROVE  LevelMove(f) /\ \A g \in File \ {f} : Level(g)' = Level(g)
<1>1. CASE raced' = raced
  <2>1. \A g \in File \ {f} : Level(g)' = Level(g)
    BY <1>1 DEF Level
  <2>2. LevelMove(f)
    BY <1>1 DEF Level, Move, LevelMove
  <2> QED
    BY <2>1, <2>2
<1>2. CASE Settles(f)
  <2>1. \A g \in File \ {f} : Level(g)' = Level(g)
    BY <1>2, FileProc DEF Level, Settles
  <2>2. LevelMove(f)
    BY <1>2 DEF Level, Settles, LevelMove
  <2> QED
    BY <2>1, <2>2
<1> QED
  BY <1>1, <1>2

\* A move of one handle that ends without two writers is a step of the
\* abstract lock: what it excludes, the others did not hold before.
LEMMA MoveStep ==
    ASSUME NEW f \in File, MutualExclusion', LevelMove(f),
           \A g \in File : Holds(g)' \in 0 .. 4,
           \A g \in File \ {f} : Level(g)' = Level(g)
    PROVE  Abs!Next \/ lev' = lev
<1>1. lev' = [lev EXCEPT ![f] = Level(f)']
  BY Zenon DEF lev
<1>2. \A g \in File : lev[g] = Level(g)
  BY DEF lev
<1>m. \A g \in File \ {f} :
        /\ Level(f)' = EXCLUSIVE_LOCK => Level(g)' = NO_LOCK
        /\ Level(g)' = EXCLUSIVE_LOCK => Level(f)' = NO_LOCK
        /\ Level(f)' >= RESERVED_LOCK => Level(g)' < RESERVED_LOCK
  BY DEF MutualExclusion, Level
<1>3. CASE Level(f)' = Level(f)
  BY <1>3 DEF lev
<1>4. CASE Level(f) = NO_LOCK /\ Level(f)' = SHARED_LOCK
  <2>1. Abs!Shared(f)
    BY <1>1, <1>2, <1>4, <1>m DEF Abs!Shared, Abs!CanShare, lev
  <2> QED
    BY <2>1 DEF Abs!Next
<1>5. CASE Level(f) = SHARED_LOCK /\ Level(f)' = RESERVED_LOCK
  <2>1. Abs!Reserve(f)
    BY <1>1, <1>2, <1>5, <1>m DEF Abs!Reserve, Abs!CanReserve, lev
  <2> QED
    BY <2>1 DEF Abs!Next
<1>6. CASE Level(f) = RESERVED_LOCK /\ Level(f)' = PENDING_LOCK
  <2>1. Abs!Pend(f)
    BY <1>1, <1>2, <1>6 DEF Abs!Pend, lev
  <2> QED
    BY <2>1 DEF Abs!Next
<1>7. CASE Level(f) \in {SHARED_LOCK, PENDING_LOCK} /\ Level(f)' = EXCLUSIVE_LOCK
  <2>1. Abs!Exclude(f)
    BY <1>1, <1>2, <1>7, <1>m DEF Abs!Exclude, Abs!CanExclude, lev
  <2> QED
    BY <2>1 DEF Abs!Next
<1>8. CASE Level(f) > SHARED_LOCK /\ Level(f)' = SHARED_LOCK
  <2>1. Abs!Release(f, SHARED_LOCK)
    BY <1>1, <1>2, <1>8 DEF Abs!Release, lev
  <2> QED
    BY <2>1 DEF Abs!Next
<1>9. CASE Level(f) > NO_LOCK /\ Level(f)' = NO_LOCK
  <2>1. Abs!Release(f, NO_LOCK)
    BY <1>1, <1>2, <1>9 DEF Abs!Release, lev
  <2> QED
    BY <2>1 DEF Abs!Next
<1> QED
  BY <1>3, <1>4, <1>5, <1>6, <1>7, <1>8, <1>9 DEF LevelMove

\* A call moves the lock of its own handle and of no other.
LEMMA CallMoves ==
    ASSUME TypeOK, LockInv, NEW f \in File, Step(f)
    PROVE  Move(f) /\ \A g \in File \ {f} : Holds(g)' = Holds(g)
<1>1. CASE Open(f)
  <2>1. Holds(f)' = Holds(f)
    BY <1>1 DEF Open, Goto, Holds, TypeOK, LockInv, CallInv, Shares
  <2>2. \A g \in File \ {f} : Holds(g)' = Holds(g)
    BY <1>1 DEF Open, Goto, Holds, TypeOK
  <2> QED
    BY <2>1, <2>2 DEF Move
<1>2. CASE ShareInProcess(f)
  <2>1. Holds(f) = NO_LOCK /\ Holds(f)' = SHARED_LOCK
    BY <1>2 DEF ShareInProcess, Called, Holds, TypeOK, LockInv, CallInv, Shares
  <2>2. \A g \in File \ {f} : Holds(g)' = Holds(g)
    BY <1>2 DEF ShareInProcess, Called, Holds, TypeOK
  <2> QED
    BY <2>1, <2>2 DEF Move
<1>3. CASE SharePending(f)
  <2>1. Holds(f)' = Holds(f)
    BY <1>3 DEF SharePending, Called, Goto, Holds, TypeOK, LockInv, CallInv, Shares
  <2>2. \A g \in File \ {f} : Holds(g)' = Holds(g)
    BY <1>3 DEF SharePending, Called, Goto, Holds, TypeOK
  <2> QED
    BY <2>1, <2>2 DEF Move
<1>4. CASE ShareRange(f)
  <2>1. Holds(f)' = Holds(f)
    BY <1>4 DEF ShareRange, Goto, Holds, TypeOK, LockInv, CallInv, Shares
  <2>2. \A g \in File \ {f} : Holds(g)' = Holds(g)
    BY <1>4 DEF ShareRange, Goto, Holds, TypeOK
  <2> QED
    BY <2>1, <2>2 DEF Move
<1>5. CASE ShareDone(f)
  <2>1. Holds(f)' = Holds(f) \/ (Holds(f) = NO_LOCK /\ Holds(f)' = SHARED_LOCK)
    BY <1>5 DEF ShareDone, Goto, Inode, Holds, TypeOK, LockInv, CallInv, Shares
  <2>2. \A g \in File \ {f} : Holds(g)' = Holds(g)
    BY <1>5 DEF ShareDone, Goto, Inode, Holds, TypeOK
  <2> QED
    BY <2>1, <2>2 DEF Move
<1>6. CASE LockReserved(f)
  <2>1. Holds(f) = SHARED_LOCK /\ Holds(f)' = RESERVED_LOCK
    BY <1>6 DEF LockReserved, Called, Raise, Holds, TypeOK, LockInv, CallInv, Shares
  <2>2. \A g \in File \ {f} : Holds(g)' = Holds(g)
    BY <1>6 DEF LockReserved, Called, Raise, Holds, TypeOK
  <2> QED
    BY <2>1, <2>2 DEF Move
<1>7. CASE LockPending(f)
  <2>1. Holds(f) = RESERVED_LOCK /\ Holds(f)' = PENDING_LOCK
    BY <1>7 DEF LockPending, Called, Goto, Raise, Holds, TypeOK, LockInv, CallInv, Shares
  <2>2. \A g \in File \ {f} : Holds(g)' = Holds(g)
    BY <1>7 DEF LockPending, Called, Goto, Raise, Holds, TypeOK
  <2> QED
    BY <2>1, <2>2 DEF Move
<1>8. CASE LockExclusive(f)
  <2>1. \/ Holds(f)' = Holds(f)
        \/ Holds(f) \in {SHARED_LOCK, PENDING_LOCK} /\ Holds(f)' = EXCLUSIVE_LOCK
    BY <1>8 DEF LockExclusive, Called, Goto, Raise, Holds, TypeOK, LockInv, CallInv, Shares
  <2>2. \A g \in File \ {f} : Holds(g)' = Holds(g)
    BY <1>8 DEF LockExclusive, Called, Goto, Raise, Holds, TypeOK
  <2> QED
    BY <2>1, <2>2 DEF Move
<1>9. CASE Downgrade(f)
  <2>1. Holds(f) > SHARED_LOCK /\ Holds(f)' = SHARED_LOCK
    BY <1>9 DEF Downgrade, Called, Goto, Holds, TypeOK, LockInv, CallInv, Shares
  <2>2. \A g \in File \ {f} : Holds(g)' = Holds(g)
    BY <1>9 DEF Downgrade, Called, Goto, Holds, TypeOK
  <2> QED
    BY <2>1, <2>2 DEF Move
<1>10. CASE DowngradeDone(f)
  <2>1. Holds(f)' = Holds(f)
    BY <1>10 DEF DowngradeDone, Goto, Holds, TypeOK, LockInv, CallInv, Shares
  <2>2. \A g \in File \ {f} : Holds(g)' = Holds(g)
    BY <1>10 DEF DowngradeDone, Goto, Holds, TypeOK
  <2> QED
    BY <2>1, <2>2 DEF Move
<1>11. CASE UnlockWriter(f)
  <2>1. Holds(f) > NO_LOCK /\ Holds(f)' = NO_LOCK
    BY <1>11 DEF UnlockWriter, Called, Goto, Holds, TypeOK, LockInv, CallInv, Shares
  <2>2. \A g \in File \ {f} : Holds(g)' = Holds(g)
    BY <1>11 DEF UnlockWriter, Called, Goto, Holds, TypeOK
  <2> QED
    BY <2>1, <2>2 DEF Move
<1>12. CASE UnlockShared(f)
  <2>1. Holds(f)' = Holds(f) \/ (Holds(f) > NO_LOCK /\ Holds(f)' = NO_LOCK)
    BY <1>12 DEF UnlockShared, Called, Goto, Holds, TypeOK, LockInv, CallInv, Shares
  <2>2. \A g \in File \ {f} : Holds(g)' = Holds(g)
    BY <1>12 DEF UnlockShared, Called, Goto, Holds, TypeOK
  <2> QED
    BY <2>1, <2>2 DEF Move
<1>13. CASE Unlocked(f)
  <2>1. Holds(f)' = Holds(f)
    BY <1>13 DEF Unlocked, Goto, Holds, TypeOK, LockInv, CallInv, Shares
  <2>2. \A g \in File \ {f} : Holds(g)' = Holds(g)
    BY <1>13 DEF Unlocked, Goto, Holds, TypeOK
  <2> QED
    BY <2>1, <2>2 DEF Move
<1>14. CASE CloseFile(f)
  <2>1. Holds(f)' = Holds(f)
    BY <1>14 DEF CloseFile, Called, Goto, Holds, TypeOK, LockInv, CallInv, Shares
  <2>2. \A g \in File \ {f} : Holds(g)' = Holds(g)
    BY <1>14 DEF CloseFile, Called, Goto, Holds, TypeOK
  <2> QED
    BY <2>1, <2>2 DEF Move
<1>15. CASE CloseDescriptor(f)
  <2>1. Holds(f)' = Holds(f)
    BY <1>15 DEF CloseDescriptor, Goto, Holds, TypeOK, LockInv, CallInv, Shares
  <2>2. \A g \in File \ {f} : Holds(g)' = Holds(g)
    BY <1>15 DEF CloseDescriptor, Goto, Holds, TypeOK
  <2> QED
    BY <2>1, <2>2 DEF Move
<1> QED
  BY <1>1, <1>2, <1>3, <1>4, <1>5, <1>6, <1>7, <1>8, <1>9, <1>10, <1>11, <1>12, <1>13, <1>14, <1>15, SMTT(30), SMTT(45) DEF Step

\* A process joins those that locked in the gap, or leaves them, only when its
\* handles have no lock to rely on.
LEMMA RacedSettles ==
    ASSUME TypeOK, LockInv, NEW f \in File, Step(f)
    PROVE  raced' = raced \/ Settles(f)
<1> DEFINE p == ProcOf(f)
<1>0. p \in Proc
  BY FileProc
<1>1. ASSUME iLock[p] = NO_LOCK PROVE \A g \in File : ProcOf(g) = p => Holds(g) = NO_LOCK
  BY <1>1, HeldIsCounted DEF LockInv, LevelInv
<1>2. CASE SharePending(f)
  <2>1. Holds(f)' = NO_LOCK
    BY <1>2 DEF SharePending, Called, Goto, Holds, TypeOK
  <2>2. \A q \in Proc \ {p} : q \in raced' <=> q \in raced
    BY <1>2 DEF SharePending
  <2>3. iLock[p] = NO_LOCK
    BY <1>2 DEF SharePending
  <2> QED
    BY <1>1, <2>1, <2>2, <2>3 DEF Settles
<1>3. CASE ShareDone(f)
  <2>1. CASE pc[f] = "shared"
    BY <1>3, <2>1 DEF ShareDone
  <2>2. CASE pc[f] = "refused"
    <3>1. Holds(f)' = NO_LOCK
      BY <1>3, <2>2 DEF ShareDone, Goto, Inode, Holds, TypeOK, LockInv, CallInv, Shares
    <3>2. \A q \in Proc \ {p} : q \in raced' <=> q \in raced
      BY <1>3, <2>2 DEF ShareDone
    <3>3. iLock[p] = NO_LOCK
      BY <2>2 DEF LockInv, CallInv, Shares
    <3> QED
      BY <1>1, <3>1, <3>2, <3>3 DEF Settles
  <2> QED
    BY <1>3, <2>1, <2>2 DEF ShareDone
<1>4. CASE UnlockShared(f)
  <2>1. CASE nShared[p] = 1
    <3>1. Holds(f)' = NO_LOCK
      BY <1>4 DEF UnlockShared, Goto, Holds, TypeOK
    <3>2. \A q \in Proc \ {p} : q \in raced' <=> q \in raced
      BY <1>4, <2>1 DEF UnlockShared
    <3>3. f \in Holders(p) /\ Cardinality(Holders(p)) = 1
      BY <1>0, <1>4, <2>1 DEF UnlockShared, Called, Holders, Counted, LockInv, CountInv, CallInv
    <3>4. Holders(p) = {f}
      BY <1>0, <3>3, HoldersCount
    <3>5. \A g \in File \ {f} : ProcOf(g) = p => Holds(g) = NO_LOCK
      BY <3>4, HeldIsCounted DEF Holders
    <3> QED
      BY <3>1, <3>2, <3>5 DEF Settles
  <2>2. CASE nShared[p] # 1
    BY <1>4, <2>2 DEF UnlockShared
  <2> QED
    BY <2>1, <2>2
<1>5. CASE Open(f) \/ ShareInProcess(f) \/ ShareRange(f) \/ LockReserved(f) \/ LockPending(f)
  BY <1>5, Zenon DEF Open, ShareInProcess, ShareRange, LockReserved, LockPending
<1>6. CASE LockExclusive(f) \/ Downgrade(f) \/ DowngradeDone(f) \/ UnlockWriter(f)
  BY <1>6, Zenon DEF LockExclusive, Downgrade, DowngradeDone, UnlockWriter
<1>7. CASE Unlocked(f) \/ CloseFile(f) \/ CloseDescriptor(f)
  BY <1>7, Zenon DEF Unlocked, CloseFile, CloseDescriptor
<1> QED
  BY <1>2, <1>3, <1>4, <1>5, <1>6, <1>7, Zenon DEF Step

\* The locks of a process that ends vanish together (the kernel drops them).
LEMMA KillVanishes ==
    ASSUME TypeOK, NEW p \in Proc, Kill(p)
    PROVE  Abs!Next
<1> DEFINE F == {f \in File : ProcOf(f) = p}
<1>1. \A f \in File : Level(f)' = IF f \in F THEN NO_LOCK ELSE Level(f)
  BY DEF Kill, Level, Holds
<1>2. Abs!Vanish(F)
  BY <1>1 DEF Abs!Vanish, lev
<1> QED
  BY <1>2 DEF Abs!Next

\* Every step of unixLock, posixUnlock, unixClose and the end of a process is
\* a step of the abstract lock or leaves it alone.
LEMMA StepImplements ==
    ASSUME TypeOK, TypeOK', LockInv, MutualExclusion', [Next]_vars
    PROVE  Abs!Next \/ lev' = lev
<1>1. ASSUME NEW f \in File, Step(f) PROVE Abs!Next \/ lev' = lev
  <2>1. Move(f) /\ \A g \in File \ {f} : Holds(g)' = Holds(g)
    BY <1>1, CallMoves
  <2>2. raced' = raced \/ Settles(f)
    BY <1>1, RacedSettles
  <2>3. \A g \in File : Holds(g) \in 0 .. 4 /\ Holds(g)' \in 0 .. 4
    BY DEF TypeOK, Holds
  <2>4. LevelMove(f) /\ \A g \in File \ {f} : Level(g)' = Level(g)
    BY <2>1, <2>2, <2>3, LevelFollows
  <2> QED
    BY <2>3, <2>4, MoveStep
<1>2. ASSUME NEW p \in Proc, Kill(p) PROVE Abs!Next
  BY <1>2, KillVanishes
<1>3. CASE UNCHANGED vars
  BY <1>3 DEF vars, lev, Level, Holds
<1> QED
  BY <1>1, <1>2, <1>3 DEF Next

\* The lock unixLock and posixUnlock implement is the abstract lock of
\* FileLock, for any number of processes and of handles on the file in each,
\* where a process that locked in the gap of unixClose has no abstract lock.
THEOREM LocksImplementFileLock ==
    Spec => ImplementsFileLock
<1>1. Init => Abs!Init
  BY DEF Init, Abs!Init, Level, Holds
<1>2. TypeOK /\ TypeOK' /\ LockInv /\ MutualExclusion' /\ [Next]_vars => [Abs!Next]_lev
  BY StepImplements
<1>3. [Abs!Next]_lev => [Abs!Next]_([f \in File |-> Level(f)])
  BY DEF lev
<1> QED
  BY LockInvariance, MutualExclusionHolds, <1>1, <1>2, <1>3, PTL DEF Spec, ImplementsFileLock, Abs!Spec
============================================================================
