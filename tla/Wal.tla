-------------------------------- MODULE Wal --------------------------------
(***************************************************************************)
(* SQLite's write-ahead log (wal.c of internal/store/sqlite3.c, with the   *)
(* pager's and the unix VFS's part in it): the shared wal-index, the locks *)
(* on it, the log and the database file, and any number of connections     *)
(* that read, write, checkpoint, recover, open, close and die.             *)
(*                                                                         *)
(* One action is one access to memory, a lock or a file that another       *)
(* connection can see.  A page's content is the number of the walFrames    *)
(* call that wrote it, a checksum is the sequence it was computed over, and *)
(* the hash tables of the wal-index are the page numbers of the frames.     *)
(***************************************************************************)
EXTENDS Integers, Sequences, FiniteSets, FiniteSetsExt

CONSTANTS
    Conn,            \* database connections
    Pages,           \* 1 .. n, the pages of the database
    NReader,         \* WAL_NREADER: read-lock slots, 5 in the code
    FullSync,        \* the connections with synchronous=FULL; the others have NORMAL
    CkptModes,       \* checkpoint modes in use
    KillInRestart,   \* whether a process may die between the stores of walRestartHdr
    MaxCalls,        \* bound on walFrames calls
    MaxSalts,        \* bound on generations of the log a TRUNCATE checkpoint starts
    MaxKills,        \* bound on process deaths
    MaxLosses,       \* bound on power losses
    None

VARIABLES
    \* shared memory (the wal-index)
    live,            \* the two copies of the header, live[1] = aHdr[0], live[2] = aHdr[1]
    nBackfill, aReadMark,
    \* shared-memory locks
    excl, shared,
    \* files
    walHdr, frames,  \* the log: salt and counter of its header, and its frames
    db,              \* the database file
    disk,            \* what each file location may hold after a power loss
    \* each connection
    pc, hdr, nCkpt, cache, rd, wr, ck,
    \* bounds and history
    calls, salts, kills, losses, commits, synced

shm == <<live, nBackfill, aReadMark>>
locks == <<excl, shared>>
files == <<walHdr, frames, db, disk>>
conns == <<hdr, nCkpt, cache, rd, wr, ck>>
bounds == <<calls, salts, kills, losses>>
ghosts == <<commits, synced>>
vars == <<shm, locks, files, pc, conns, bounds, ghosts>>

(* The lock bytes; unixShmLock keeps shared and exclusive holders of each. *)
WRITE == 0
CKPT == 1
RECOVER == 2
READ(i) == 3 + i
READERS == {READ(i) : i \in 1 .. NReader - 1}
Locks == 0 .. 2 + NReader

CanLock(L) == \A l \in L : excl[l] = None /\ shared[l] = {}
CanShare(l) == excl[l] = None
Lock(c, L) == [l \in Locks |-> IF l \in L THEN c ELSE excl[l]]
Unlock(c, L) == [l \in Locks |-> IF l \in L /\ excl[l] = c THEN None ELSE excl[l]]
Share(c, l) == [shared EXCEPT ![l] = @ \cup {c}]
Unshare(c, l) == [shared EXCEPT ![l] = @ \ {c}]

READMARK_NOT_USED == 99
NoHdr == [isInit |-> FALSE, mxFrame |-> 0, iChange |-> 0, salt |-> 0, sum |-> <<>>]
NoPages == [p \in Pages |-> None]
NoRead == [lock |-> -1, min |-> 0, slot |-> 0, mark |-> 0]
NoWrite == [list |-> {}, commit |-> FALSE, pages |-> {}, first |-> 0, frame |-> 0, reck |-> 0]
NoCkpt == [mode |-> None, chg |-> FALSE, safe |-> 0, slot |-> 0, iter |-> {}, nbf |-> 0]

(* Recovery walks the frames while salt and cumulative checksum match, and *)
(* keeps those up to the last commit mark.                                 *)
Sum(prev, f) == <<prev, f.pg, f.val, f.commit>>
Seed(salt) == <<salt>>
Before(salt, fs, i) == IF i = 1 THEN Seed(salt) ELSE fs[i - 1].sum
Valid(h, fs, i) == /\ fs[i] # None
                   /\ fs[i].salt = h.salt
                   /\ fs[i].sum = Sum(Before(h.salt, fs, i), fs[i])
LastCommit(h, fs) ==
    LET scan[i \in 1 .. Len(fs) + 1] ==
            IF i > Len(fs) \/ ~Valid(h, fs, i) THEN 0
            ELSE LET later == scan[i + 1] IN
                 IF later = 0 /\ fs[i].commit THEN i ELSE later
    IN IF h = None THEN 0 ELSE scan[1]
Latest(fs, lo, hi, p) ==
    LET back[i \in 0 .. hi] ==
            IF i < lo THEN 0
            ELSE IF i \in DOMAIN fs /\ fs[i] # None /\ fs[i].pg = p THEN i
            ELSE back[i - 1]
    IN back[hi]
Recovered(h, fs, pages) ==
    LET upTo[i \in 0 .. Len(fs)] ==
            IF i = 0 THEN [more |-> h # None, all |-> pages, committed |-> pages]
            ELSE LET prev == upTo[i - 1] IN
                 IF ~prev.more \/ ~Valid(h, fs, i) THEN [prev EXCEPT !.more = FALSE]
                 ELSE LET now == [prev.all EXCEPT ![fs[i].pg] = fs[i].val] IN
                      [more |-> TRUE, all |-> now,
                       committed |-> IF fs[i].commit THEN now ELSE prev.committed]
    IN upTo[Len(fs)].committed

(* walFindFrame and readDbPage: what connection c reads for page p.        *)
walFindFrame(c, p) ==
    IF hdr[c].mxFrame = 0 \/ rd[c].lock = 0 THEN 0
    ELSE Latest(frames, rd[c].min, hdr[c].mxFrame, p)
ReadPage(c, p) ==
    IF cache[c][p] # None THEN cache[c][p]
    ELSE LET i == walFindFrame(c, p) IN IF i = 0 THEN db[p] ELSE frames[i].val
ReadAll(c) == [p \in Pages |-> ReadPage(c, p)]

(* Writes reach the disk in any order, or in part, until the file is synced.*)
Torn == -1
Tracked == losses < MaxLosses
PutFrame(fs, i, f) == IF i > Len(fs) THEN Append(fs, f) ELSE [fs EXCEPT ![i] = f]
WrittenFrame(i, f) ==
    IF ~Tracked THEN disk
    ELSE [disk EXCEPT !.frames =
            IF i > Len(@) THEN Append(@, {f, None}) ELSE [@ EXCEPT ![i] = @ \cup {f, None}]]
WrittenPage(p, v) == IF ~Tracked THEN disk ELSE [disk EXCEPT !.db[p] = @ \cup {v, Torn}]
SyncedLog(d, h, fs) == IF ~Tracked THEN d
                       ELSE [d EXCEPT !.hdr = {h}, !.frames = [i \in DOMAIN fs |-> {fs[i]}]]
SyncedDb(d) == IF ~Tracked THEN d ELSE [d EXCEPT !.db = [p \in Pages |-> {db[p]}]]

Init ==
    /\ live = <<NoHdr, NoHdr>> /\ nBackfill = 0
    /\ aReadMark = [i \in 1 .. NReader - 1 |-> 0]
    /\ excl = [l \in Locks |-> None] /\ shared = [l \in Locks |-> {}]
    /\ walHdr = None /\ frames = <<>>
    /\ db = [p \in Pages |-> 0]
    /\ disk = [hdr |-> {None}, frames |-> <<>>, db |-> [p \in Pages |-> {0}]]
    /\ pc = [c \in Conn |-> "closed"]
    /\ hdr = [c \in Conn |-> NoHdr] /\ nCkpt = [c \in Conn |-> 0]
    /\ cache = [c \in Conn |-> NoPages]
    /\ rd = [c \in Conn |-> NoRead] /\ wr = [c \in Conn |-> NoWrite]
    /\ ck = [c \in Conn |-> NoCkpt]
    /\ calls = 0 /\ salts = 0 /\ kills = 0 /\ losses = 0
    /\ commits = <<[p \in Pages |-> 0]>> /\ synced = 1

Goto(c, label) == pc' = [pc EXCEPT ![c] = label]

-----------------------------------------------------------------------------
(* Opening and closing.  The first connection to attach truncates the      *)
(* shared memory; the last one to leave checkpoints and deletes the log.   *)

ZeroShm ==
    /\ live' = <<NoHdr, NoHdr>>
    /\ nBackfill' = 0
    /\ aReadMark' = [i \in 1 .. NReader - 1 |-> 0]

Alone(c) == \A d \in Conn \ {c} : pc[d] = "closed"

Forget(C) ==
    /\ hdr' = [c \in Conn |-> IF c \in C THEN NoHdr ELSE hdr[c]]
    /\ nCkpt' = [c \in Conn |-> IF c \in C THEN 0 ELSE nCkpt[c]]
    /\ cache' = [c \in Conn |-> IF c \in C THEN NoPages ELSE cache[c]]
    /\ rd' = [c \in Conn |-> IF c \in C THEN NoRead ELSE rd[c]]
    /\ wr' = [c \in Conn |-> IF c \in C THEN NoWrite ELSE wr[c]]
    /\ ck' = [c \in Conn |-> IF c \in C THEN NoCkpt ELSE ck[c]]
    /\ pc' = [c \in Conn |-> IF c \in C THEN "closed" ELSE pc[c]]

Open(c) ==
    /\ pc[c] = "closed"
    /\ \A d \in Conn : ck[d].mode # "CLOSE"
    /\ IF Alone(c) THEN ZeroShm ELSE UNCHANGED shm
    /\ Goto(c, "idle")
    /\ UNCHANGED <<locks, files, conns, bounds, ghosts>>

Close(c) ==
    /\ pc[c] = "idle"
    /\ IF Alone(c)
       THEN /\ excl' = Lock(c, {CKPT})
            /\ ck' = [ck EXCEPT ![c].mode = "CLOSE"]
            /\ Goto(c, "ckhdr")
            /\ UNCHANGED <<hdr, nCkpt, cache, rd, wr>>
       ELSE Forget({c}) /\ UNCHANGED excl
    /\ UNCHANGED <<shm, shared, files, bounds, ghosts>>

-----------------------------------------------------------------------------
(* walIndexReadHdr: for a reader, or for the holder of the checkpoint lock. *)

Readable == live[1] = live[2] /\ live[1].isInit
AfterHdr(c) == IF ck[c].mode = None THEN "mark" ELSE "ckstart"
(* The WRITE lock a checkpoint other than PASSIVE already holds is kept.   *)
OwnWrite(c) == IF ck[c].mode \in {None, "PASSIVE", "CLOSE"} THEN {WRITE} ELSE {}
OwnCkpt(c) == IF ck[c].mode = None THEN {CKPT} ELSE {}

(* A reader whose header changed drops its cache; a checkpointer only notes *)
(* the change and forgets its header at the end.                           *)
LoadHdr(c, h) ==
    /\ hdr' = [hdr EXCEPT ![c] = h]
    /\ cache' = IF ck[c].mode = None /\ hdr[c] # h THEN [cache EXCEPT ![c] = NoPages] ELSE cache
    /\ ck' = IF ck[c].mode # None /\ hdr[c] # h THEN [ck EXCEPT ![c].chg = TRUE] ELSE ck

walIndexTryHdr(c) ==
    /\ pc[c] \in {"idle", "ckhdr"}
    /\ Readable
    /\ LoadHdr(c, live[1])
    /\ Goto(c, AfterHdr(c))
    /\ UNCHANGED <<shm, locks, files, nCkpt, rd, wr, bounds, ghosts>>

(* The header is malformed or being written: try again under the WRITE     *)
(* lock, which a writer may have released by then.                         *)
BadHdr(c) ==
    /\ pc[c] \in {"idle", "ckhdr"}
    /\ ~Readable
    /\ Goto(c, "badhdr")
    /\ UNCHANGED <<shm, locks, files, conns, bounds, ghosts>>

LockHdr(c) ==
    /\ pc[c] = "badhdr"
    /\ IF OwnWrite(c) = {} \/ CanLock({WRITE})
       THEN excl' = Lock(c, {WRITE}) /\ Goto(c, "relock")
       ELSE Goto(c, IF ck[c].mode = None THEN "idle" ELSE "ckend") /\ UNCHANGED excl
    /\ UNCHANGED <<shm, shared, files, conns, bounds, ghosts>>

RetryHdr(c) ==
    /\ pc[c] = "relock"
    /\ Readable
    /\ LoadHdr(c, live[1])
    /\ excl' = Unlock(c, OwnWrite(c))
    /\ Goto(c, AfterHdr(c))
    /\ UNCHANGED <<shm, shared, files, nCkpt, rd, wr, bounds, ghosts>>

(* walIndexRecover, counting the frames after the last commit mark as well. *)
Recover_pastCommit(c) ==
    /\ pc[c] = "relock"
    /\ ~Readable
    /\ CanLock({RECOVER} \cup OwnCkpt(c))
    /\ LET h == [isInit |-> TRUE, mxFrame |-> Len(frames), iChange |-> 0,
                 salt |-> IF walHdr = None THEN 0 ELSE walHdr.salt, sum |-> <<>>]
       IN /\ hdr' = [hdr EXCEPT ![c] = h]
          /\ live' = [live EXCEPT ![2] = h]
    /\ excl' = Lock(c, {RECOVER, CKPT})
    /\ cache' = [cache EXCEPT ![c] = NoPages]
    /\ Goto(c, "recover2")
    /\ UNCHANGED <<nBackfill, aReadMark, shared, files, nCkpt, rd, wr, ck, bounds, ghosts>>

(* walIndexRecover, up to the first copy of the header it writes.          *)
Recover(c) ==
    /\ pc[c] = "relock"
    /\ ~Readable
    /\ CanLock({RECOVER} \cup OwnCkpt(c))
    /\ LET mx == LastCommit(walHdr, frames)
           h == [isInit |-> TRUE, mxFrame |-> mx, iChange |-> 0,
                 salt |-> IF walHdr = None THEN 0 ELSE walHdr.salt,
                 sum |-> IF mx = 0 THEN <<>> ELSE frames[mx].sum]
       IN /\ hdr' = [hdr EXCEPT ![c] = h]
          /\ live' = [live EXCEPT ![2] = h]
          /\ nCkpt' = [nCkpt EXCEPT ![c] = IF walHdr = None THEN @ ELSE walHdr.nCkpt]
    /\ excl' = Lock(c, {RECOVER, CKPT})
    /\ cache' = IF ck[c].mode = None THEN [cache EXCEPT ![c] = NoPages] ELSE cache
    /\ ck' = IF ck[c].mode # None THEN [ck EXCEPT ![c].chg = TRUE] ELSE ck
    /\ Goto(c, "recover2")
    /\ UNCHANGED <<nBackfill, aReadMark, shared, files, rd, wr, bounds, ghosts>>

RecoverBusy(c) ==
    /\ pc[c] = "relock"
    /\ ~Readable
    /\ ~CanLock({RECOVER} \cup OwnCkpt(c))
    /\ excl' = Unlock(c, OwnWrite(c))
    /\ Goto(c, IF ck[c].mode = None THEN "idle" ELSE "ckend")
    /\ UNCHANGED <<shm, shared, files, conns, bounds, ghosts>>

Recover2(c) ==
    LET now == Recovered(walHdr, frames, db) IN
    /\ pc[c] = "recover2"
    /\ live' = [live EXCEPT ![1] = hdr[c]]
    /\ commits' = IF now = commits[Len(commits)] THEN commits ELSE Append(commits, now)
    /\ Goto(c, "recover3")
    /\ UNCHANGED <<nBackfill, aReadMark, locks, files, conns, bounds, synced>>

Recover3(c) ==
    /\ pc[c] = "recover3"
    /\ nBackfill' = 0
    /\ aReadMark' = [i \in DOMAIN aReadMark |->
                       IF ~CanLock({READ(i)}) THEN aReadMark[i]
                       ELSE IF i = 1 /\ hdr[c].mxFrame > 0 THEN hdr[c].mxFrame
                       ELSE READMARK_NOT_USED]
    /\ excl' = Unlock(c, {RECOVER} \cup OwnWrite(c) \cup OwnCkpt(c))
    /\ Goto(c, AfterHdr(c))
    /\ UNCHANGED <<live, shared, files, conns, bounds, ghosts>>

-----------------------------------------------------------------------------
(* walTryBeginRead after the header: choose and lock a read mark.          *)

UseWal(c) == wr[c].list # {}     \* called from walRestartLog, by the writer
Retry(c) == IF UseWal(c) THEN "pick" ELSE "idle"

CheckBackfill(c) ==
    /\ pc[c] = "mark"
    /\ Goto(c, IF nBackfill = hdr[c].mxFrame THEN "lock0" ELSE "pick")
    /\ UNCHANGED <<shm, locks, files, conns, bounds, ghosts>>

(* Everything is in the database file: read it, ignoring the log, unless   *)
(* the header changed before READ_LOCK(0) was obtained.                    *)
LockZero(c) ==
    /\ pc[c] = "lock0"
    /\ IF ~CanShare(READ(0))
       THEN Goto(c, "pick") /\ UNCHANGED <<shared, rd>>
       ELSE IF live[1] # hdr[c]
       THEN Goto(c, "idle") /\ UNCHANGED <<shared, rd>>
       ELSE /\ shared' = Share(c, READ(0))
            /\ rd' = [rd EXCEPT ![c].lock = 0]
            /\ Goto(c, "read")
    /\ UNCHANGED <<shm, excl, files, hdr, nCkpt, cache, wr, ck, bounds, ghosts>>

PickMark(c) ==
    LET mx == hdr[c].mxFrame
        fit == {i \in DOMAIN aReadMark : aReadMark[i] <= mx}
        best == Max({-1} \cup {aReadMark[i] : i \in fit})
        free == {i \in DOMAIN aReadMark : CanLock({READ(i)})}
        short == best < mx
    IN
    /\ pc[c] = "pick"
    /\ \/ /\ short /\ free # {}
          /\ aReadMark' = [aReadMark EXCEPT ![Min(free)] = mx]
          /\ rd' = [rd EXCEPT ![c].slot = Min(free), ![c].mark = mx]
          /\ Goto(c, "lock")
       \/ /\ ~short \/ free = {}
          /\ fit # {}
          /\ rd' = [rd EXCEPT ![c].slot = Max({i \in fit : aReadMark[i] = best}),
                              ![c].mark = best]
          /\ Goto(c, "lock")
          /\ UNCHANGED aReadMark
       \/ /\ free = {} /\ fit = {} /\ ~UseWal(c)
          /\ Goto(c, "idle")
          /\ UNCHANGED <<aReadMark, rd>>
    /\ UNCHANGED <<live, nBackfill, locks, files, hdr, nCkpt, cache, wr, ck, bounds, ghosts>>

LockMark(c) ==
    /\ pc[c] = "lock"
    /\ IF CanShare(READ(rd[c].slot))
       THEN /\ shared' = Share(c, READ(rd[c].slot))
            /\ rd' = [rd EXCEPT ![c].min = nBackfill + 1]
            /\ Goto(c, "verify")
       ELSE /\ rd' = [rd EXCEPT ![c] = NoRead]
            /\ Goto(c, Retry(c))
            /\ UNCHANGED shared
    /\ UNCHANGED <<shm, excl, files, hdr, nCkpt, cache, wr, ck, bounds, ghosts>>

VerifyMark(c) ==
    /\ pc[c] = "verify"
    /\ IF aReadMark[rd[c].slot] = rd[c].mark /\ live[1] = hdr[c]
       THEN /\ rd' = [rd EXCEPT ![c].lock = rd[c].slot, ![c].slot = 0, ![c].mark = 0]
            /\ Goto(c, IF UseWal(c) THEN "header" ELSE "read")
            /\ UNCHANGED shared
       ELSE /\ shared' = Unshare(c, READ(rd[c].slot))
            /\ rd' = [rd EXCEPT ![c] = NoRead]
            /\ Goto(c, Retry(c))
    /\ UNCHANGED <<shm, excl, files, hdr, nCkpt, cache, wr, ck, bounds, ghosts>>

(* A query: pages not in the cache are read from the log or the database.  *)
Read(c) ==
    /\ pc[c] = "read"
    /\ cache[c] # ReadAll(c)
    /\ cache' = [cache EXCEPT ![c] = ReadAll(c)]
    /\ UNCHANGED <<shm, locks, files, pc, hdr, nCkpt, rd, wr, ck, bounds, ghosts>>

EndRead(c) ==
    /\ pc[c] = "read"
    /\ shared' = Unshare(c, READ(rd[c].lock))
    /\ rd' = [rd EXCEPT ![c] = NoRead]
    /\ Goto(c, "idle")
    /\ UNCHANGED <<shm, excl, files, hdr, nCkpt, cache, wr, ck, bounds, ghosts>>

-----------------------------------------------------------------------------
(* Write transactions.                                                     *)

(* A reader whose snapshot is not the last committed one gets             *)
(* SQLITE_BUSY_SNAPSHOT: it stays a reader.                               *)
BeginWrite(c) ==
    /\ pc[c] = "read"
    /\ calls < MaxCalls
    /\ CanLock({WRITE})
    /\ hdr[c] = live[1]
    /\ excl' = Lock(c, {WRITE})
    /\ Goto(c, "write")
    /\ UNCHANGED <<shm, shared, files, conns, bounds, ghosts>>

(* pagerRollbackWal: give up the frames written past the live header.      *)
Rollback(c) ==
    /\ pc[c] = "write"
    /\ hdr' = [hdr EXCEPT ![c] = live[1]]
    /\ cache' = [cache EXCEPT ![c] = [p \in Pages |-> IF p \in wr[c].pages THEN None ELSE @[p]]]
    /\ wr' = [wr EXCEPT ![c] = NoWrite]
    /\ excl' = Unlock(c, {WRITE})
    /\ Goto(c, "read")
    /\ UNCHANGED <<shm, shared, files, nCkpt, rd, ck, bounds, ghosts>>

(* Entry of walFrames, with the pages of list newly written in the cache.  *)
CallFrames(c, written, list, isCommit) ==
    /\ pc[c] = "write"
    /\ calls < MaxCalls
    /\ calls' = calls + 1
    /\ cache' = [cache EXCEPT ![c] = [p \in Pages |-> IF p \in written THEN calls + 1
                                                      ELSE IF p \in list THEN ReadPage(c, p)
                                                      ELSE @[p]]]
    /\ wr' = [wr EXCEPT ![c].list = list, ![c].commit = isCommit,
                        ![c].pages = @ \cup list,
                        ![c].first = IF hdr[c] = live[1] THEN 0 ELSE live[1].mxFrame + 1]
    /\ Goto(c, "restart")
    /\ UNCHANGED <<shm, locks, files, hdr, nCkpt, rd, ck, salts, kills, losses, ghosts>>

(* A full cache spills one page, never page 1.                             *)
Spill(c) == \E p \in Pages \ {1} : CallFrames(c, {p}, {p}, FALSE)

(* When every written page was spilled the commit mark goes on page 1.     *)
Commit(c) ==
    \/ \E S \in SUBSET Pages \ {{}} : CallFrames(c, S, S, TRUE)
    \/ wr[c].pages # {} /\ CallFrames(c, {}, {1}, TRUE)

(* walRestartHdr: a new generation of the log, written to shared memory in *)
(* three stores.  The salts are never used twice.                          *)
RestartHdr1(c) ==
    LET h == [hdr[c] EXCEPT !.mxFrame = 0, !.salt = salts + 1] IN
    /\ hdr' = [hdr EXCEPT ![c] = h]
    /\ nCkpt' = [nCkpt EXCEPT ![c] = 1]
    /\ live' = [live EXCEPT ![2] = h]
    /\ salts' = salts + 1

(* walRestartHdr with a loop over every mark, and without the reset of     *)
(* nBackfill.                                                              *)
RestartHdr3_mark0 ==
    /\ nBackfill' = 0
    /\ aReadMark' = [i \in 0 .. NReader - 1 |-> IF i = 1 THEN 0 ELSE READMARK_NOT_USED]
RestartHdr3_keeps ==
    /\ aReadMark' = [i \in DOMAIN aReadMark |-> IF i = 1 THEN 0 ELSE READMARK_NOT_USED]
    /\ UNCHANGED nBackfill

RestartHdr3 ==
    /\ nBackfill' = 0
    /\ aReadMark' = [i \in DOMAIN aReadMark |-> IF i = 1 THEN 0 ELSE READMARK_NOT_USED]

(* walRestartLog: a writer that reads the database file alone may start the *)
(* log over when nobody reads the log, and must then take a read mark.     *)
RestartLog(c) ==
    /\ pc[c] = "restart"
    /\ \/ /\ rd[c].lock # 0
          /\ Goto(c, "header")
          /\ UNCHANGED <<live, locks, hdr, nCkpt, rd, salts>>
       \/ /\ rd[c].lock = 0
          /\ nBackfill > 0 /\ CanLock(READERS)
          /\ excl' = Lock(c, READERS)
          /\ RestartHdr1(c)
          /\ Goto(c, "restart2")
          /\ UNCHANGED <<shared, rd>>
       \/ /\ rd[c].lock = 0
          /\ nBackfill = 0 \/ ~CanLock(READERS)
          /\ shared' = Unshare(c, READ(0))
          /\ rd' = [rd EXCEPT ![c] = NoRead]
          /\ Goto(c, "pick")
          /\ UNCHANGED <<live, excl, hdr, nCkpt, salts>>
    /\ UNCHANGED <<nBackfill, aReadMark, files, cache, wr, ck, calls, kills, losses, ghosts>>

RestartLog2(c) ==
    /\ pc[c] = "restart2"
    /\ live' = [live EXCEPT ![1] = hdr[c]]
    /\ Goto(c, "restart3")
    /\ UNCHANGED <<nBackfill, aReadMark, locks, files, conns, bounds, ghosts>>

RestartLog3(c) ==
    /\ pc[c] = "restart3"
    /\ RestartHdr3
    /\ excl' = Unlock(c, READERS)
    /\ shared' = Unshare(c, READ(0))
    /\ rd' = [rd EXCEPT ![c] = NoRead]
    /\ Goto(c, "pick")
    /\ UNCHANGED <<live, files, hdr, nCkpt, cache, wr, ck, bounds, ghosts>>

(* The first frame of a generation is preceded by a header, which is synced *)
(* on its own; a connection that never restarted the log draws new salts.  *)
WriteHeader(c) ==
    /\ pc[c] = "header"
    /\ IF hdr[c].mxFrame = 0
       THEN LET salt == IF nCkpt[c] = 0 THEN salts + 1 ELSE hdr[c].salt
                h == [salt |-> salt, nCkpt |-> nCkpt[c]] IN
            /\ salts' = IF nCkpt[c] = 0 THEN salts + 1 ELSE salts
            /\ walHdr' = h
            /\ disk' = IF Tracked THEN [disk EXCEPT !.hdr = @ \cup {h, None}] ELSE disk
            /\ hdr' = [hdr EXCEPT ![c].salt = salt, ![c].sum = Seed(salt)]
            /\ Goto(c, "hsync")
       ELSE Goto(c, "frame") /\ UNCHANGED <<salts, walHdr, disk, hdr>>
    /\ wr' = [wr EXCEPT ![c].frame = hdr[c].mxFrame]
    /\ UNCHANGED <<shm, locks, frames, db, nCkpt, cache, rd, ck, calls, kills, losses, ghosts>>

SyncHeader(c) ==
    /\ pc[c] = "hsync"
    /\ disk' = SyncedLog(disk, walHdr, frames)
    /\ Goto(c, "frame")
    /\ UNCHANGED <<shm, locks, walHdr, frames, db, conns, bounds, ghosts>>

AfterFrames_noSync(c, w) ==
    IF w.list # {} THEN "frame" ELSE IF w.commit /\ w.reck > 0 THEN "rewrite" ELSE "publish"

AfterFrames(c, w) ==
    IF w.list # {} THEN "frame"
    ELSE IF w.commit /\ w.reck > 0 THEN "rewrite"
    ELSE IF w.commit /\ c \in FullSync THEN "fsync"
    ELSE "publish"

(* walEncodeFrame: once a frame was overwritten the checksums wait for the *)
(* commit.                                                                 *)
walEncodeFrame(c, p, isCommit) ==
    LET f == [pg |-> p, val |-> cache[c][p], commit |-> isCommit, salt |-> hdr[c].salt, sum |-> <<>>]
    IN IF wr[c].reck > 0 THEN [f EXCEPT !.salt = 0]
       ELSE [f EXCEPT !.sum = Sum(hdr[c].sum, f)]

(* Whether a page written again goes in the frame it already has.          *)
Overwrites(c, old, mark) == wr[c].first > 0 /\ ~mark /\ old >= wr[c].first

(* One page of the list, in page order: in place if this transaction has   *)
(* written it already and it does not carry the commit mark, else appended. *)
WriteFrame(c) ==
    LET p == Min(wr[c].list)
        last == wr[c].list = {p}
        old == walFindFrame(c, p)
        over == Overwrites(c, old, last /\ wr[c].commit)
        i == IF over THEN old ELSE wr[c].frame + 1
        f == IF over THEN [frames[old] EXCEPT !.val = cache[c][p]]
             ELSE walEncodeFrame(c, p, last /\ wr[c].commit)
        w == [wr[c] EXCEPT !.list = @ \ {p},
                           !.frame = IF over THEN @ ELSE @ + 1,
                           !.reck = IF over /\ (@ = 0 \/ old < @) THEN old ELSE @]
    IN
    /\ pc[c] = "frame"
    /\ frames' = PutFrame(frames, i, f)
    /\ disk' = WrittenFrame(i, f)
    /\ hdr' = [hdr EXCEPT ![c].sum = IF over \/ wr[c].reck > 0 THEN @ ELSE f.sum]
    /\ wr' = [wr EXCEPT ![c] = w]
    /\ Goto(c, AfterFrames(c, w))
    /\ UNCHANGED <<shm, locks, walHdr, db, nCkpt, cache, rd, ck, bounds, ghosts>>

(* walRewriteChecksums, from the first overwritten frame to the last.      *)
RewriteChecksums(c) ==
    LET lo == wr[c].reck
        hi == wr[c].frame
        sum[i \in lo - 1 .. hi] ==
            IF i < lo THEN Before(walHdr.salt, frames, lo) ELSE Sum(sum[i - 1], frames[i])
        fixed == [i \in DOMAIN frames |->
                    IF i \in lo .. hi THEN [frames[i] EXCEPT !.salt = hdr[c].salt, !.sum = sum[i]]
                    ELSE frames[i]]
    IN
    /\ pc[c] = "rewrite"
    /\ frames' = fixed
    /\ disk' = IF ~Tracked THEN disk
               ELSE [disk EXCEPT !.frames = [i \in DOMAIN @ |-> IF i \in lo .. hi THEN @[i] \cup {fixed[i]}
                                                                ELSE @[i]]]
    /\ hdr' = [hdr EXCEPT ![c].sum = fixed[hi].sum]
    /\ wr' = [wr EXCEPT ![c].reck = 0]
    /\ Goto(c, IF c \in FullSync THEN "fsync" ELSE "publish")
    /\ UNCHANGED <<shm, locks, walHdr, db, nCkpt, cache, rd, ck, bounds, ghosts>>

SyncFrames(c) ==
    /\ pc[c] = "fsync"
    /\ disk' = SyncedLog(disk, walHdr, frames)
    /\ Goto(c, "publish")
    /\ UNCHANGED <<shm, locks, walHdr, frames, db, conns, bounds, ghosts>>

(* The end of walFrames: a commit writes the shared header, second copy    *)
(* first; a spill only moves the writer's own end of the log.              *)
Publish(c) ==
    LET h == [hdr[c] EXCEPT !.mxFrame = wr[c].frame,
                            !.iChange = IF wr[c].commit THEN @ + 1 ELSE @] IN
    /\ pc[c] = "publish"
    /\ hdr' = [hdr EXCEPT ![c] = h]
    /\ IF wr[c].commit
       THEN /\ live' = [live EXCEPT ![2] = h]
            /\ Goto(c, "publish2")
       ELSE /\ Goto(c, "write")
            /\ UNCHANGED live
    /\ UNCHANGED <<nBackfill, aReadMark, locks, files, nCkpt, cache, rd, wr, ck, bounds, ghosts>>

(* The other copy, which makes the commit visible, and                     *)
(* pager_end_transaction.                                                  *)
Publish2(c) ==
    /\ pc[c] = "publish2"
    /\ live' = [live EXCEPT ![1] = hdr[c]]
    /\ commits' = Append(commits, ReadAll(c))
    /\ synced' = IF c \in FullSync THEN Len(commits') ELSE synced
    /\ wr' = [wr EXCEPT ![c] = NoWrite]
    /\ excl' = Unlock(c, {WRITE})
    /\ Goto(c, "read")
    /\ UNCHANGED <<nBackfill, aReadMark, shared, files, hdr, nCkpt, cache, rd, ck, bounds>>

-----------------------------------------------------------------------------
(* sqlite3WalCheckpoint.  Modes other than PASSIVE want the WRITE lock and *)
(* run as PASSIVE without it.                                              *)

CkptBegin(c) ==
    \E m \in CkptModes :
    LET write == m # "PASSIVE" /\ CanLock({WRITE}) IN
    /\ pc[c] = "idle"
    /\ CanLock({CKPT})
    /\ m = "TRUNCATE" => salts < MaxSalts
    /\ excl' = Lock(c, IF write THEN {CKPT, WRITE} ELSE {CKPT})
    /\ ck' = [ck EXCEPT ![c].mode = IF write THEN m ELSE "PASSIVE"]
    /\ Goto(c, "ckhdr")
    /\ UNCHANGED <<shm, shared, files, hdr, nCkpt, cache, rd, wr, bounds, ghosts>>

CkptStart(c) ==
    /\ pc[c] = "ckstart"
    /\ IF nBackfill < hdr[c].mxFrame
       THEN /\ ck' = [ck EXCEPT ![c].safe = hdr[c].mxFrame, ![c].slot = 1]
            /\ Goto(c, "ckmark")
       ELSE Goto(c, "ckpost") /\ UNCHANGED ck
    /\ UNCHANGED <<shm, locks, files, hdr, nCkpt, cache, rd, wr, bounds, ghosts>>

(* One read mark: raise it out of the way if no reader holds it, otherwise *)
(* do not copy frames past it.                                             *)
CkptMark(c) ==
    LET i == ck[c].slot
        safe == ck[c].safe
        y == aReadMark[i] IN
    /\ pc[c] = "ckmark"
    /\ i < NReader
    /\ \/ /\ safe <= y
          /\ ck' = [ck EXCEPT ![c].slot = i + 1]
          /\ UNCHANGED aReadMark
       \/ /\ safe > y /\ CanLock({READ(i)})
          /\ aReadMark' = [aReadMark EXCEPT ![i] = IF i = 1 THEN safe ELSE READMARK_NOT_USED]
          /\ ck' = [ck EXCEPT ![c].slot = i + 1]
       \/ /\ safe > y /\ ~CanLock({READ(i)})
          /\ ck' = [ck EXCEPT ![c].slot = i + 1, ![c].safe = y]
          /\ UNCHANGED aReadMark
    /\ UNCHANGED <<live, nBackfill, locks, files, pc, hdr, nCkpt, cache, rd, wr, bounds, ghosts>>

(* walIteratorInit: the last frame of each page in the log, as the header  *)
(* the checkpointer loaded has it.                                         *)
CkptIterate(c) ==
    /\ pc[c] = "ckmark"
    /\ ck[c].slot = NReader
    /\ IF nBackfill < ck[c].safe
       THEN /\ ck' = [ck EXCEPT ![c].iter =
                        {Latest(frames, nBackfill + 1, hdr[c].mxFrame, p) : p \in Pages} \ {0}]
            /\ Goto(c, "cklock")
       ELSE Goto(c, "ckpost") /\ UNCHANGED ck
    /\ UNCHANGED <<shm, locks, files, hdr, nCkpt, cache, rd, wr, bounds, ghosts>>

(* CkptLock before SQLite 3.51.3: the generation is not compared.          *)
CkptLock_anySalt(c) ==
    /\ pc[c] = "cklock"
    /\ IF CanLock({READ(0)})
       THEN /\ excl' = Lock(c, {READ(0)})
            /\ ck' = [ck EXCEPT ![c].nbf = nBackfill]
            /\ Goto(c, "cksync")
       ELSE Goto(c, "ckpost") /\ UNCHANGED <<excl, ck>>
    /\ UNCHANGED <<shm, shared, files, hdr, nCkpt, cache, rd, wr, bounds, ghosts>>

(* With READ_LOCK(0) held nobody reads the database file alone.  Nothing is *)
(* copied if the log was restarted since the header was loaded.            *)
CkptLock(c) ==
    /\ pc[c] = "cklock"
    /\ IF CanLock({READ(0)}) /\ live[1].salt = hdr[c].salt
       THEN /\ excl' = Lock(c, {READ(0)})
            /\ ck' = [ck EXCEPT ![c].nbf = nBackfill]
            /\ Goto(c, "cksync")
       ELSE Goto(c, "ckpost") /\ UNCHANGED <<excl, ck>>
    /\ UNCHANGED <<shm, shared, files, hdr, nCkpt, cache, rd, wr, bounds, ghosts>>

CkptSyncLog(c) ==
    /\ pc[c] = "cksync"
    /\ disk' = SyncedLog(disk, walHdr, frames)
    /\ synced' = Len(commits)
    /\ Goto(c, "ckcopy")
    /\ UNCHANGED <<shm, locks, walHdr, frames, db, conns, bounds, commits>>

ToCopy(c) == {i \in ck[c].iter : ck[c].nbf < i /\ i <= ck[c].safe}

CkptCopy(c) ==
    /\ pc[c] = "ckcopy"
    /\ \E i \in ToCopy(c) :
        LET f == frames[i] IN
        /\ \A j \in ToCopy(c) : f.pg <= frames[j].pg
        /\ db' = [db EXCEPT ![f.pg] = f.val]
        /\ disk' = WrittenPage(f.pg, f.val)
        /\ ck' = [ck EXCEPT ![c].iter = @ \ {i}]
    /\ UNCHANGED <<shm, locks, walHdr, frames, pc, hdr, nCkpt, cache, rd, wr, bounds, ghosts>>

(* The database file is synced only when the whole log was copied.         *)
CkptSyncDb_not(c) ==
    /\ pc[c] = "ckcopy"
    /\ ToCopy(c) = {}
    /\ Goto(c, "ckdone")
    /\ UNCHANGED <<shm, locks, files, conns, bounds, ghosts>>

CkptSyncDb(c) ==
    /\ pc[c] = "ckcopy"
    /\ ToCopy(c) = {}
    /\ disk' = IF ck[c].safe = live[1].mxFrame THEN SyncedDb(disk) ELSE disk
    /\ Goto(c, "ckdone")
    /\ UNCHANGED <<shm, locks, walHdr, frames, db, conns, bounds, ghosts>>

CkptBackfilled(c) ==
    /\ pc[c] = "ckdone"
    /\ nBackfill' = ck[c].safe
    /\ excl' = Unlock(c, {READ(0)})
    /\ Goto(c, "ckpost")
    /\ UNCHANGED <<live, aReadMark, shared, files, conns, bounds, ghosts>>

(* TRUNCATE starts a new generation and empties the log file when nobody   *)
(* reads the log; RESTART only waits for that moment.                      *)
CkptPost(c) ==
    /\ pc[c] = "ckpost"
    /\ IF ck[c].mode = "TRUNCATE" /\ nBackfill >= hdr[c].mxFrame /\ CanLock(READERS)
       THEN /\ excl' = Lock(c, READERS)
            /\ RestartHdr1(c)
            /\ Goto(c, "cktrunc2")
       ELSE Goto(c, "ckend") /\ UNCHANGED <<live, excl, hdr, nCkpt, salts>>
    /\ UNCHANGED <<nBackfill, aReadMark, shared, files, cache, rd, wr, ck, calls, kills, losses, ghosts>>

CkptTruncate2(c) ==
    /\ pc[c] = "cktrunc2"
    /\ live' = [live EXCEPT ![1] = hdr[c]]
    /\ Goto(c, "cktrunc3")
    /\ UNCHANGED <<nBackfill, aReadMark, locks, files, conns, bounds, ghosts>>

CkptTruncate3(c) ==
    /\ pc[c] = "cktrunc3"
    /\ RestartHdr3
    /\ Goto(c, "cktrunc4")
    /\ UNCHANGED <<live, locks, files, conns, bounds, ghosts>>

CkptTruncate4(c) ==
    /\ pc[c] = "cktrunc4"
    /\ walHdr' = None /\ frames' = <<>>
    /\ disk' = IF ~Tracked THEN disk
               ELSE [disk EXCEPT !.hdr = @ \cup {None},
                                 !.frames = [i \in DOMAIN @ |-> @[i] \cup {None}]]
    /\ excl' = Unlock(c, READERS)
    /\ Goto(c, "ckend")
    /\ UNCHANGED <<shm, shared, db, conns, bounds, ghosts>>

(* A header loaded by the checkpoint is forgotten, so that the next reader *)
(* drops its cache.  The last connection deletes the log.                  *)
CkptEnd(c) ==
    /\ pc[c] = "ckend"
    /\ excl' = Unlock(c, {CKPT, WRITE})
    /\ IF ck[c].mode = "CLOSE"
       THEN /\ Forget({c})
            /\ walHdr' = None /\ frames' = <<>>
            /\ disk' = IF Tracked THEN [disk EXCEPT !.hdr = {None}, !.frames = <<>>] ELSE disk
       ELSE /\ hdr' = [hdr EXCEPT ![c] = IF ck[c].chg THEN NoHdr ELSE @]
            /\ ck' = [ck EXCEPT ![c] = NoCkpt]
            /\ Goto(c, "idle")
            /\ UNCHANGED <<nCkpt, cache, rd, wr, walHdr, frames, disk>>
    /\ UNCHANGED <<shm, shared, db, bounds, ghosts>>

-----------------------------------------------------------------------------
(* A process dies: its locks go, what it stored in shared memory stays.    *)
Kill(C) ==
    /\ kills < MaxKills
    /\ C # {} /\ \A c \in C : pc[c] # "closed"
    /\ \/ KillInRestart
       \/ \A c \in C : pc[c] \notin {"restart3", "cktrunc3"}
       \/ \A d \in Conn \ C : pc[d] = "closed"
    /\ excl' = [l \in Locks |-> IF excl[l] \in C THEN None ELSE excl[l]]
    /\ shared' = [l \in Locks |-> shared[l] \ C]
    /\ Forget(C)
    /\ kills' = kills + 1
    /\ UNCHANGED <<shm, files, calls, salts, losses, ghosts>>

(* One choice from each set of a sequence of sets.                         *)
Outcomes(sets) ==
    LET upTo[n \in 0 .. Len(sets)] ==
            IF n = 0 THEN {<<>>} ELSE {Append(f, v) : f \in upTo[n - 1], v \in sets[n]}
    IN upTo[Len(sets)]

(* Power fails: what was not synced is on disk, or not, page by page.      *)
PowerLoss ==
    /\ Tracked
    /\ losses' = losses + 1
    /\ \E h \in disk.hdr,
          fs \in Outcomes(disk.frames),
          pages \in {f \in [Pages -> UNION {disk.db[p] : p \in Pages}] :
                    \A p \in Pages : f[p] \in disk.db[p]} :
        LET now == Recovered(h, fs, pages)
            same == {n \in DOMAIN commits : commits[n] = now} IN
        /\ walHdr' = h /\ frames' = fs /\ db' = pages
        /\ disk' = [hdr |-> {h}, frames |-> [i \in DOMAIN fs |-> {fs[i]}],
                    db |-> [p \in Pages |-> {pages[p]}]]
        /\ commits' = IF same = {} THEN Append(commits, now) ELSE SubSeq(commits, 1, Max(same))
        /\ synced' = Len(commits')
    /\ ZeroShm
    /\ excl' = [l \in Locks |-> None] /\ shared' = [l \in Locks |-> {}]
    /\ Forget(Conn)
    /\ UNCHANGED <<calls, salts, kills>>

Step(c) ==
    \/ Open(c) \/ Close(c) \/ walIndexTryHdr(c) \/ BadHdr(c) \/ LockHdr(c) \/ RetryHdr(c)
    \/ Recover(c) \/ RecoverBusy(c) \/ Recover2(c) \/ Recover3(c)
    \/ CheckBackfill(c) \/ LockZero(c) \/ PickMark(c) \/ LockMark(c) \/ VerifyMark(c)
    \/ Read(c) \/ EndRead(c) \/ BeginWrite(c) \/ Rollback(c) \/ Spill(c) \/ Commit(c)
    \/ RestartLog(c) \/ RestartLog2(c) \/ RestartLog3(c)
    \/ WriteHeader(c) \/ SyncHeader(c) \/ WriteFrame(c) \/ RewriteChecksums(c)
    \/ SyncFrames(c) \/ Publish(c) \/ Publish2(c)
    \/ CkptBegin(c) \/ CkptStart(c) \/ CkptMark(c) \/ CkptIterate(c) \/ CkptLock(c)
    \/ CkptSyncLog(c) \/ CkptCopy(c) \/ CkptSyncDb(c) \/ CkptBackfilled(c)
    \/ CkptPost(c) \/ CkptTruncate2(c) \/ CkptTruncate3(c) \/ CkptTruncate4(c) \/ CkptEnd(c)

Next == (\E c \in Conn : Step(c)) \/ (\E C \in SUBSET Conn : Kill(C)) \/ PowerLoss

Spec == Init /\ [][Next]_vars
============================================================================
