--------------------------- MODULE JournalSafety ---------------------------
(***************************************************************************)
(* What the rollback journal promises: it implements SnapshotStore, and a  *)
(* crash at any moment finds the last committed state.                     *)
(***************************************************************************)
EXTENDS Journal

Current == commits[Len(commits)]

Pending == IF \E c \in Conn : pc[c] = "finish" THEN db ELSE None

(* What a transaction reads; one that has changed pages builds on the      *)
(* current state.                                                          *)
ViewOf(c) ==
    IF pager[c].inJournal # {} /\ pc[c] # "committed" THEN Current
    ELSE IF pc[c] \in {"reader", "locked", "committed"} THEN [p \in Pages |-> ReadPage(c, p)]
    ELSE None

Store == INSTANCE SnapshotStore WITH
    history <- commits, floor <- synced, pending <- Pending,
    view <- [c \in Conn |-> ViewOf(c)]

(* The two files, the locks and the pager's counts and page sets are of    *)
(* their types (struct Pager).                                             *)
TypeOK ==
    /\ eLock \in [Conn -> FL!Levels]
    /\ DOMAIN db = Pages
    /\ journal # None => DOMAIN journal = 1 .. Len(journal)
    /\ \A c \in Conn : LET r == pager[c] IN
        /\ r.dirty \subseteq r.inJournal /\ r.needSync \subseteq r.inJournal
        /\ r.inJournal \subseteq Pages
        /\ r.journalOff \in Nat /\ r.journalHdr \in Nat /\ r.nRec \in Nat /\ r.left \in Nat
    /\ synced \in 1 .. Len(commits)

(* The rollback journal implements the transactional store: a transaction  *)
(* reads the one committed state it began with, from the file or from a    *)
(* cache kept across transactions (sqlite3PagerSharedLock), only one at a  *)
(* time writes, and a crash loses no synced commit and shows no part of    *)
(* one (syncJournal, pager_playback, pager_end_transaction).  Two cases    *)
(* are left out, in which a power loss brings back parts of an old         *)
(* journal: PERSIST with synchronous=NORMAL, and with PERSIST a process    *)
(* that dies in zeroJournalHdr before the sync (KillBeforeEndSync).        *)
StoreSpec == Store!Spec

(* A process may die at any step of a commit, a spill, a rollback or the   *)
(* playback of a hot journal: playing back the journal it leaves           *)
(* (pager_playback) gives the last committed state.                        *)
Recoverable == Recovered(journal, db) = Current

(* A commit that was reported survives a power loss when the end of its    *)
(* journal was synced: PERSIST, TRUNCATE with synchronous=FULL, DELETE     *)
(* with synchronous=EXTRA (pager_end_transaction).                         *)
Synced == mode = "PERSIST" \/ (mode = "TRUNCATE" /\ fullSync) \/ extraSync
CommitsAreDurable == [][Synced => Len(commits') >= acked]_vars
============================================================================
