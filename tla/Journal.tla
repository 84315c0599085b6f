------------------------------ MODULE Journal ------------------------------
(***************************************************************************)
(* SQLite's rollback journal (pager.c of internal/store/sqlite3.c): the    *)
(* database file, the journal file and any number of connections that read, *)
(* write, spill, commit, roll back, find and play back a hot journal, fail *)
(* and die.  The file lock is FileLock.                                    *)
(*                                                                         *)
(* One action is one call of the VFS that another connection or a crash    *)
(* can see.  Page 1 holds the change counter and nothing else; the content *)
(* of another page is the number of the transaction that wrote it.  A      *)
(* journal is a sequence of slots, each a header or a page record; the     *)
(* checksum of a record is the nonce of its header.                        *)
(***************************************************************************)
EXTENDS Integers, Sequences, FiniteSetsExt

CONSTANTS
    Conn,            \* database connections
    Pages,           \* 1 .. n, the pages of the database
    Configurations,  \* the pairs of journal mode and synchronous the connections may all have
    KillBeforeEndSync,  \* whether a process may die between ending a journal and syncing that
    MaxTxns,         \* bound on write transactions
    MaxFails,        \* bound on process deaths and on I/O errors
    MaxLosses,       \* bound on power losses
    None

VARIABLES
    mode, level,     \* journal mode and setting of synchronous of all connections
    eLock,           \* the lock each connection holds on the database file
    db, journal,     \* the two files; journal = None when there is no such file
    disk,            \* what the files may hold after a power loss
    pc,              \* where each connection is
    pager,           \* the Pager of each connection
    txns, fails, losses,
    commits,         \* the committed states
    synced, acked    \* how many of them are on disk, and how many were reported

files == <<db, journal, disk>>
config == <<mode, level>>
bounds == <<txns, fails, losses>>
ghosts == <<commits, synced, acked>>
vars == <<config, eLock, files, pc, pager, bounds, ghosts>>

FL == INSTANCE FileLock WITH File <- Conn, level <- eLock

Data == Pages \ {1}
fullSync == level # "NORMAL"
extraSync == level = "EXTRA"

NoPages == [p \in Pages |-> None]
NoPager == [cache |-> NoPages, dirty |-> {}, needSync |-> {}, inJournal |-> {},
            dbFileVers |-> None, dbmod |-> FALSE, hot |-> FALSE, spill |-> 0, txn |-> 0,
            journalOff |-> 0, journalHdr |-> 0, atHdr |-> FALSE, nRec |-> 0, left |-> 0, nonce |-> None]

-----------------------------------------------------------------------------
(* The journal file.  Offsets count slots.                                 *)

Header(nonce) == [pg |-> 0, magic |-> FALSE, nRec |-> 0, sum |-> nonce]
Record(p, v, nonce) == [pg |-> p, val |-> v, sum |-> nonce]
IsHeader(s) == s # None /\ s.pg = 0
HasMagic(s) == IsHeader(s) /\ s.magic
IsRecord(s, nonce) == s # None /\ s.pg # 0 /\ s.sum = nonce

Put(j, off, s) == IF off = Len(j) THEN Append(j, s) ELSE [j EXCEPT ![off + 1] = s]

(* The records a hot journal gives back, from the header at offset i on.   *)
Playable(j) ==
    LET from[i \in 0 .. Len(j)] ==
            IF i = Len(j) \/ ~HasMagic(j[i + 1]) THEN {}
            ELSE LET h == j[i + 1]
                     good == Max({k \in 0 .. Min({h.nRec, Len(j) - i - 1}) :
                                    \A n \in 1 .. k : IsRecord(j[i + 1 + n], h.sum)})
                 IN {j[i + 1 + n] : n \in 1 .. good} \cup
                    (IF good = h.nRec THEN from[i + 1 + good] ELSE {})
    IN IF j = None THEN {} ELSE from[0]

(* What the next connection to open the database will find in it.          *)
Recovered(j, pages) ==
    LET recs == Playable(j) IN
    [p \in Pages |-> IF \E r \in recs : r.pg = p THEN (CHOOSE r \in recs : r.pg = p).val ELSE pages[p]]

(* Writes reach the disk in any order, or in part, until the file is       *)
(* synced.  A file that was deleted or truncated may come back until the   *)
(* directory is synced too (disk.old).                                     *)
Torn == -1
Tracked == losses < MaxLosses
Slots(j) == IF j = None THEN None ELSE [i \in DOMAIN j |-> {j[i]}]

PageWritten(p, v) ==
    IF Tracked /\ disk.db[p] # {v} THEN [disk EXCEPT !.db[p] = @ \cup {v, Torn}] ELSE disk
SlotWritten(d, off, s) ==
    IF ~Tracked THEN d
    ELSE [d EXCEPT !.now = IF off = Len(@) THEN Append(@, {s, None})
                           ELSE [@ EXCEPT ![off + 1] = @ \cup {s, None}]]
DbSynced == IF Tracked THEN [disk EXCEPT !.db = [p \in Pages |-> {db[p]}]] ELSE disk
JournalSynced(d, j) == IF Tracked THEN [d EXCEPT !.now = Slots(j)] ELSE d
DirSynced(d) == [d EXCEPT !.old = {}]
NameChanged(d, j) == IF Tracked THEN [d EXCEPT !.old = @ \cup {d.now}, !.now = Slots(j)] ELSE d

Init ==
    /\ \E k \in Configurations : mode = k[1] /\ level = k[2]
    /\ eLock = [c \in Conn |-> FL!NO_LOCK]
    /\ db = [p \in Pages |-> 0] /\ journal = None
    /\ disk = [db |-> [p \in Pages |-> {0}], now |-> None, old |-> {}]
    /\ pc = [c \in Conn |-> "open"]
    /\ pager = [c \in Conn |-> NoPager]
    /\ txns = 0 /\ fails = 0 /\ losses = 0
    /\ commits = <<db>> /\ synced = 1 /\ acked = 1

Goto(c, label) == pc' = [pc EXCEPT ![c] = label]
Set(c, r) == pager' = [pager EXCEPT ![c] = r]
KeepLock == UNCHANGED eLock
Quiet == UNCHANGED <<config, bounds, ghosts>>
ReadPage(c, p) == IF pager[c].cache[p] # None THEN pager[c].cache[p] ELSE db[p]
Busy(c) == \E d \in Conn \ {c} : eLock[d] # FL!NO_LOCK

-----------------------------------------------------------------------------
(* sqlite3PagerSharedLock, with hasHotJournal.                             *)

LockShared(c) ==
    /\ pc[c] = "open" /\ FL!Shared(c)
    /\ Goto(c, "exists")
    /\ Quiet /\ UNCHANGED <<files, pager>>

HasJournal(c) ==
    /\ pc[c] = "exists"
    /\ Goto(c, IF journal = None THEN "vers" ELSE "reserved")
    /\ Quiet /\ KeepLock /\ UNCHANGED <<files, pager>>

CheckReservedLock(c) ==
    /\ pc[c] = "reserved"
    /\ Goto(c, IF \E d \in Conn : eLock[d] >= FL!RESERVED_LOCK THEN "vers" ELSE "first")
    /\ Quiet /\ KeepLock /\ UNCHANGED <<files, pager>>

(* Whether the first byte of the journal is not zero: either, in a header  *)
(* that is torn.                                                           *)
Nonzero ==
    IF journal = <<>> THEN {FALSE}
    ELSE IF journal[1] = None THEN BOOLEAN
    ELSE {HasMagic(journal[1])}

(* Hot too when the journal cannot be opened any more.                     *)
FirstByte(c) ==
    /\ pc[c] = "first"
    /\ \E hot \in IF journal = None THEN {TRUE} ELSE Nonzero : Goto(c, IF hot THEN "hot" ELSE "vers")
    /\ Quiet /\ KeepLock /\ UNCHANGED <<files, pager>>

LockHot(c) ==
    /\ pc[c] = "hot" /\ FL!Exclude(c)
    /\ Goto(c, "hotopen")
    /\ Quiet /\ UNCHANGED <<files, pager>>

HotBusy(c) ==
    /\ pc[c] = "hot" /\ Busy(c)
    /\ FL!Release(c, FL!NO_LOCK)
    /\ Goto(c, "open")
    /\ Quiet /\ UNCHANGED <<files, pager>>

(* The journal may be gone; otherwise pagerSyncHotJournal.                 *)
OpenHot(c) ==
    /\ pc[c] = "hotopen"
    /\ IF journal = None
       THEN /\ FL!Release(c, FL!SHARED_LOCK) /\ Goto(c, "vers")
            /\ UNCHANGED <<files, pager>>
       ELSE /\ KeepLock /\ Goto(c, "replay")
            /\ disk' = JournalSynced(disk, journal)
            /\ Set(c, [pager[c] EXCEPT !.hot = TRUE, !.journalOff = 0, !.journalHdr = Len(journal)])
            /\ UNCHANGED <<db, journal>>
    /\ Quiet

(* The cache is kept when no other connection has changed the counter; page *)
(* 1 is read when it is not in the cache.                                  *)
Refreshed_stale(c) == pager[c].cache
Refreshed(c) == IF pager[c].dbFileVers # db[1] THEN NoPages ELSE pager[c].cache
CheckVersion(c) ==
    /\ pc[c] = "vers"
    /\ Set(c, [pager[c] EXCEPT !.cache = [Refreshed(c) EXCEPT ![1] = IF @ = None THEN db[1] ELSE @],
                               !.dbFileVers = IF Refreshed(c)[1] = None THEN db[1] ELSE @])
    /\ Goto(c, "reader")
    /\ Quiet /\ KeepLock /\ UNCHANGED files

Read(c, p) ==
    /\ pc[c] \in {"reader", "writer"}
    /\ pager[c].cache[p] = None
    /\ Set(c, [pager[c] EXCEPT !.cache[p] = db[p]])
    /\ Quiet /\ KeepLock /\ UNCHANGED <<files, pc>>

EndRead(c) ==
    /\ pc[c] = "reader"
    /\ FL!Release(c, FL!NO_LOCK)
    /\ Goto(c, "open")
    /\ Quiet /\ UNCHANGED <<files, pager>>

-----------------------------------------------------------------------------
(* A write transaction: PAGER_WRITER_LOCKED is "locked"; WRITER_CACHEMOD   *)
(* and WRITER_DBMOD are "writer", told apart by dbmod.                     *)

sqlite3PagerBegin(c) ==
    /\ pc[c] = "reader" /\ txns < MaxTxns /\ losses = 0
    /\ FL!Reserve(c)
    /\ txns' = txns + 1
    /\ Set(c, [pager[c] EXCEPT !.txn = txns + 1, !.journalOff = 0])
    /\ Goto(c, "locked")
    /\ UNCHANGED <<config, fails, losses, ghosts, files>>

(* Committing or rolling back a transaction that wrote nothing.            *)
EndEmpty(c) ==
    /\ pc[c] = "locked"
    /\ FL!Release(c, FL!SHARED_LOCK)
    /\ Set(c, [pager[c] EXCEPT !.txn = 0])
    /\ Goto(c, "reader")
    /\ Quiet /\ UNCHANGED files

(* writeJournalHdr and pagerAddPageToRollbackJournal on pager r, journal j *)
(* and disk d.                                                             *)
NextNonce(r) == <<r.txn, r.journalOff>>
WithHeader(r) == [r EXCEPT !.journalHdr = r.journalOff, !.atHdr = TRUE, !.journalOff = @ + 1,
                           !.nRec = 0, !.nonce = NextNonce(r)]
WithRecord_unmarked(r, p) == [r EXCEPT !.journalOff = @ + 1, !.nRec = @ + 1, !.needSync = @ \cup {p}]
WithRecord(r, p) == [r EXCEPT !.journalOff = @ + 1, !.nRec = @ + 1,
                              !.inJournal = @ \cup {p}, !.needSync = @ \cup {p}]

Journalled(c, p, v, r, j, d) ==
    IF p \in r.inJournal
    THEN /\ Set(c, [r EXCEPT !.cache[p] = v, !.dirty = @ \cup {p}])
         /\ journal' = j /\ disk' = d
    ELSE LET rec == Record(p, ReadPage(c, p), r.nonce) IN
         /\ Set(c, [WithRecord(r, p) EXCEPT !.cache[p] = v, !.dirty = @ \cup {p}])
         /\ journal' = Put(j, r.journalOff, rec)
         /\ disk' = SlotWritten(d, r.journalOff, rec)

(* pager_open_journal creates the file, or starts over at its beginning.   *)
Opened == IF journal = None THEN <<>> ELSE journal
OpenedDisk == IF journal = None THEN NameChanged(disk, <<>>) ELSE disk

pager_write(c, p) ==
    LET r == pager[c] IN
    /\ pc[c] \in {"locked", "writer"}
    /\ IF pc[c] = "writer" THEN Journalled(c, p, r.txn, r, journal, disk)
       ELSE LET h == Header(NextNonce(r)) IN
            Journalled(c, p, r.txn, WithHeader(r), Put(Opened, 0, h), SlotWritten(OpenedDisk, 0, h))
    /\ Goto(c, "writer")
    /\ Quiet /\ KeepLock /\ UNCHANGED db

(* pagerStress: the cache is full and gives up a dirty page.               *)
pagerStress(c, p) ==
    LET r == pager[c] IN
    /\ pc[c] = "writer" /\ p \in r.dirty
    /\ Set(c, [r EXCEPT !.spill = p])
    /\ Goto(c, IF p \in r.needSync \/ ~r.dbmod THEN "excl" ELSE "pages")
    /\ Quiet /\ KeepLock /\ UNCHANGED files

(* sqlite3PagerCommitPhaseOne up to syncJournal: pager_incr_changecounter. *)
CommitPhaseOne(c) ==
    LET r == pager[c] IN
    /\ pc[c] = "writer"
    /\ Journalled(c, 1, r.dbFileVers + 1, [r EXCEPT !.spill = 0], journal, disk)
    /\ Goto(c, "excl")
    /\ Quiet /\ KeepLock /\ UNCHANGED db

-----------------------------------------------------------------------------
(* syncJournal: the EXCLUSIVE lock, by way of PENDING, then the header.    *)

ExclusiveLock(c) ==
    /\ pc[c] = "excl"
    /\ \/ FL!Pend(c) /\ UNCHANGED pc
       \/ FL!Exclude(c) /\ Goto(c, "zero")
       \/ eLock[c] = FL!EXCLUSIVE_LOCK /\ Goto(c, "zero") /\ KeepLock
    /\ Quiet /\ UNCHANGED <<files, pager>>

(* SQLITE_BUSY: the transaction stays open, with the lock it has got.      *)
ExclusiveBusy(c) ==
    /\ pc[c] = "excl" /\ Busy(c)
    /\ Set(c, [pager[c] EXCEPT !.spill = 0])
    /\ Goto(c, "writer")
    /\ Quiet /\ KeepLock /\ UNCHANGED files

ZeroNextHeader_not(c) ==
    /\ pc[c] = "zero"
    /\ Goto(c, IF fullSync THEN "jsync0" ELSE "magic")
    /\ Quiet /\ KeepLock /\ UNCHANGED <<files, pager>>

(* A header a longer journal left behind where playback would look for the *)
(* next one.                                                               *)
ZeroNextHeader(c) ==
    LET off == pager[c].journalOff
        stale == off < Len(journal) /\ HasMagic(journal[off + 1]) IN
    /\ pc[c] = "zero"
    /\ IF stale
       THEN LET h == [journal[off + 1] EXCEPT !.magic = FALSE] IN
            journal' = Put(journal, off, h) /\ disk' = SlotWritten(disk, off, h)
       ELSE UNCHANGED <<journal, disk>>
    /\ Goto(c, IF fullSync THEN "jsync0" ELSE "magic")
    /\ Quiet /\ KeepLock /\ UNCHANGED <<db, pager>>

SyncRecords(c) ==
    /\ pc[c] = "jsync0"
    /\ disk' = DirSynced(JournalSynced(disk, journal))
    /\ Goto(c, "magic")
    /\ Quiet /\ KeepLock /\ UNCHANGED <<db, journal, pager>>

WriteMagic(c) ==
    LET r == pager[c]
        h == [journal[r.journalHdr + 1] EXCEPT !.magic = TRUE, !.nRec = r.nRec] IN
    /\ pc[c] = "magic"
    /\ journal' = Put(journal, r.journalHdr, h)
    /\ disk' = SlotWritten(disk, r.journalHdr, h)
    /\ Goto(c, "jsync")
    /\ Quiet /\ KeepLock /\ UNCHANGED <<db, pager>>

(* From here on the database file may be written.  A spill starts a new    *)
(* header, since more records may follow.                                  *)
SyncJournal(c) ==
    LET r == [pager[c] EXCEPT !.needSync = {}, !.dbmod = TRUE, !.journalHdr = pager[c].journalOff, !.atHdr = FALSE]
        h == Header(NextNonce(r))
        d == DirSynced(JournalSynced(disk, journal)) IN
    /\ pc[c] = "jsync"
    /\ IF r.spill = 0
       THEN Set(c, r) /\ disk' = d /\ UNCHANGED journal
       ELSE /\ Set(c, WithHeader(r))
            /\ journal' = Put(journal, r.journalOff, h)
            /\ disk' = SlotWritten(d, r.journalOff, h)
    /\ Goto(c, "pages")
    /\ synced' = Len(commits)
    /\ UNCHANGED <<config, bounds, commits, acked, eLock, db>>

-----------------------------------------------------------------------------
(* pager_write_pagelist: for a spill the one page, which leaves the cache; *)
(* for a commit the dirty pages in order.                                  *)

WritePage(c) ==
    LET r == pager[c]
        p == IF r.spill = 0 THEN Min(r.dirty) ELSE r.spill
        v == r.cache[p]
        clean == [r EXCEPT !.dirty = @ \ {p}] IN
    /\ pc[c] = "pages"
    /\ db' = [db EXCEPT ![p] = v] /\ disk' = PageWritten(p, v)
    /\ IF r.spill # 0
       THEN Set(c, [clean EXCEPT !.cache[p] = None, !.spill = 0]) /\ Goto(c, "writer")
       ELSE /\ Set(c, IF p = 1 THEN [clean EXCEPT !.dbFileVers = v] ELSE clean)
            /\ Goto(c, IF r.dirty = {p} THEN "dbsync" ELSE "pages")
    /\ Quiet /\ KeepLock /\ UNCHANGED journal

SyncDb(c) ==
    /\ pc[c] = "dbsync"
    /\ disk' = DbSynced
    /\ Goto(c, "finish")
    /\ Quiet /\ KeepLock /\ UNCHANGED <<db, journal, pager>>

-----------------------------------------------------------------------------
(* pager_playback, of a hot journal or of the transaction's own.           *)

Undo(r) == [r EXCEPT !.journalOff = 0, !.dirty = {}, !.needSync = {}, !.nRec = 0, !.txn = 0, !.spill = 0]

sqlite3PagerRollback(c) ==
    /\ pc[c] = "writer"
    /\ Set(c, Undo(pager[c]))
    /\ Goto(c, "replay")
    /\ Quiet /\ KeepLock /\ UNCHANGED files

(* readJournalHdr.  The transaction's own last header has no magic yet:    *)
(* its records are those up to the end of the file.                        *)
readJournalHdr(c) ==
    LET r == pager[c]
        off == r.journalOff
        own == ~r.hot /\ r.atHdr /\ off = r.journalHdr
        h == journal[off + 1] IN
    /\ pc[c] = "replay" /\ r.left = 0
    /\ IF off >= Len(journal) \/ ~(own \/ HasMagic(h))
       THEN Goto(c, "replayed") /\ UNCHANGED pager
       ELSE /\ Set(c, [r EXCEPT !.journalOff = off + 1, !.nonce = h.sum,
                                !.left = IF own /\ h.nRec = 0 THEN Len(journal) - off - 1 ELSE h.nRec])
            /\ UNCHANGED pc
    /\ Quiet /\ KeepLock /\ UNCHANGED files

(* Only synced records go to the database file; a page in the cache gets   *)
(* the record's content too.                                               *)
pager_playback_one_page(c) ==
    LET r == pager[c]
        off == r.journalOff
        s == journal[off + 1]
        cache == IF r.hot THEN NoPages ELSE r.cache
        inCache == cache[s.pg] # None IN
    /\ pc[c] = "replay" /\ r.left > 0
    /\ IF off >= Len(journal) \/ ~IsRecord(s, r.nonce)
       THEN /\ Set(c, [r EXCEPT !.journalOff = Len(journal), !.left = 0,
                                !.cache = IF r.hot THEN NoPages ELSE @])
            /\ UNCHANGED files
       ELSE /\ Set(c, [r EXCEPT !.journalOff = off + 1, !.left = @ - 1,
                                !.cache = IF inCache THEN [cache EXCEPT ![s.pg] = s.val] ELSE cache,
                                !.dbFileVers = IF inCache /\ s.pg = 1 THEN s.val ELSE @])
            /\ IF (r.hot \/ r.dbmod) /\ off + 1 <= r.journalHdr
               THEN db' = [db EXCEPT ![s.pg] = s.val] /\ disk' = PageWritten(s.pg, s.val)
               ELSE UNCHANGED <<db, disk>>
            /\ UNCHANGED journal
    /\ Quiet /\ KeepLock /\ UNCHANGED pc

SyncPlayback(c) ==
    /\ pc[c] = "replayed"
    /\ disk' = IF pager[c].hot \/ pager[c].dbmod THEN DbSynced ELSE disk
    /\ Goto(c, "rolledback")
    /\ Quiet /\ KeepLock /\ UNCHANGED <<db, journal, pager>>

-----------------------------------------------------------------------------
(* pager_end_transaction: the journal stops being one, which commits the   *)
(* transaction or ends its rollback; then, as configured, a sync.          *)

Ended(c) ==
    CASE mode = "DELETE" -> /\ journal' = None /\ disk' = NameChanged(disk, None)
      [] mode = "TRUNCATE" /\ pager[c].journalOff > 0 ->
            /\ journal' = <<>> /\ disk' = NameChanged(disk, <<>>)
      [] mode = "PERSIST" /\ pager[c].journalOff > 0 ->
            LET h == Header(None) IN journal' = Put(journal, 0, h) /\ disk' = SlotWritten(disk, 0, h)
      [] OTHER -> UNCHANGED <<journal, disk>>

EndJournal(c) ==
    /\ pc[c] \in {"finish", "rolledback"}
    /\ Ended(c)
    /\ commits' = IF pc[c] = "finish" THEN Append(commits, db) ELSE commits
    /\ Goto(c, IF pc[c] = "finish" THEN "committed" ELSE "ended")
    /\ KeepLock /\ UNCHANGED <<config, bounds, synced, acked, db, pager>>

EndSyncs_not == FALSE
EndSyncs == CASE mode = "DELETE" -> extraSync [] mode = "TRUNCATE" -> fullSync [] OTHER -> TRUE

EndTransaction(c) ==
    LET r == pager[c]
        syncs == EndSyncs /\ (mode = "DELETE" \/ r.journalOff > 0) IN
    /\ pc[c] \in {"committed", "ended"}
    /\ disk' = IF syncs THEN DirSynced(JournalSynced(disk, journal)) ELSE disk
    /\ synced' = IF syncs THEN Len(commits) ELSE synced
    /\ acked' = IF pc[c] = "committed" THEN Len(commits) ELSE acked
    /\ FL!Release(c, FL!SHARED_LOCK)
    /\ Set(c, [NoPager EXCEPT !.cache = r.cache, !.dbFileVers = r.dbFileVers])
    /\ Goto(c, IF r.hot THEN "vers" ELSE "reader")
    /\ UNCHANGED <<config, bounds, commits, db, journal>>

-----------------------------------------------------------------------------
(* An error of a read, write or sync: the first phase of a commit is rolled *)
(* back; elsewhere the pager enters its error state, forgets its cache and *)
(* unlocks, and leaves the journal to be found hot (pager_error,           *)
(* pager_unlock).                                                          *)
Fallible == {"zero", "jsync0", "magic", "jsync", "pages", "dbsync"}
IoError(c) ==
    LET r == pager[c] IN
    /\ fails < MaxFails /\ losses = 0
    /\ fails' = fails + 1
    /\ \/ /\ pc[c] \in Fallible /\ r.spill = 0
          /\ Set(c, Undo(r))
          /\ Goto(c, "replay") /\ KeepLock
       \/ /\ \/ pc[c] \in Fallible /\ r.spill # 0
             \/ pc[c] \in {"replay", "replayed", "rolledback", "finish"}
          /\ Set(c, [NoPager EXCEPT !.dbFileVers = r.dbFileVers])
          /\ FL!Release(c, FL!NO_LOCK)
          /\ Goto(c, "open")
    /\ UNCHANGED <<config, txns, losses, files, ghosts>>

Forget(C) ==
    /\ eLock' = [c \in Conn |-> IF c \in C THEN FL!NO_LOCK ELSE eLock[c]]
    /\ pc' = [c \in Conn |-> IF c \in C THEN "open" ELSE pc[c]]
    /\ pager' = [c \in Conn |-> IF c \in C THEN NoPager ELSE pager[c]]

Kill(c) ==
    /\ pc[c] # "open" /\ fails < MaxFails /\ losses = 0
    /\ KillBeforeEndSync \/ pc[c] \notin {"committed", "ended"}
    /\ fails' = fails + 1
    /\ Forget({c})
    /\ UNCHANGED <<config, txns, losses, files, ghosts>>

(* Power fails: what was not synced is on disk, or not, slot by slot and   *)
(* page by page, and the journal's name leads to the file it leads to now  *)
(* or to one it led to before.                                             *)
Outcomes(sets) ==
    LET upTo[n \in 0 .. Len(sets)] ==
            IF n = 0 THEN {<<>>} ELSE {Append(f, v) : f \in upTo[n - 1], v \in sets[n]}
    IN upTo[Len(sets)]
Surviving == UNION {IF j = None THEN {None} ELSE Outcomes(j) : j \in disk.old \cup {disk.now}}
PowerLoss ==
    /\ Tracked
    /\ losses' = losses + 1
    /\ \E j \in Surviving, pages \in Outcomes(disk.db) :
        LET now == Recovered(j, pages)
            same == {n \in DOMAIN commits : commits[n] = now} IN
        /\ journal' = j /\ db' = pages
        /\ disk' = [db |-> [p \in Pages |-> {pages[p]}], now |-> Slots(j), old |-> {}]
        /\ commits' = IF same = {} THEN Append(commits, now) ELSE SubSeq(commits, 1, Max(same))
        /\ synced' = Len(commits') /\ acked' = Min({acked, Len(commits')})
    /\ Forget(Conn)
    /\ UNCHANGED <<config, txns, fails>>

Step(c) ==
    \/ LockShared(c) \/ HasJournal(c) \/ CheckReservedLock(c) \/ FirstByte(c)
    \/ LockHot(c) \/ HotBusy(c) \/ OpenHot(c) \/ CheckVersion(c)
    \/ \E p \in Data : Read(c, p) \/ pager_write(c, p) \/ pagerStress(c, p)
    \/ EndRead(c) \/ sqlite3PagerBegin(c) \/ EndEmpty(c) \/ CommitPhaseOne(c)
    \/ ExclusiveLock(c) \/ ExclusiveBusy(c) \/ ZeroNextHeader(c) \/ SyncRecords(c)
    \/ WriteMagic(c) \/ SyncJournal(c) \/ WritePage(c) \/ SyncDb(c)
    \/ sqlite3PagerRollback(c) \/ readJournalHdr(c) \/ pager_playback_one_page(c)
    \/ SyncPlayback(c) \/ EndJournal(c) \/ EndTransaction(c) \/ IoError(c) \/ Kill(c)

Next == (\E c \in Conn : Step(c)) \/ PowerLoss

Spec == Init /\ [][Next]_vars
============================================================================
