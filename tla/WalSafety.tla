----------------------------- MODULE WalSafety -----------------------------
(***************************************************************************)
(* What the write-ahead log promises: it implements SnapshotStore, and the *)
(* invariants of the wal-index its comments state.                         *)
(***************************************************************************)
EXTENDS Wal

Current == commits[Len(commits)]

(* The state a restart would find in the files, when it is not the one     *)
(* transactions read: a commit mark is in the log, the shared header does  *)
(* not count it yet.                                                       *)
Pending == LET now == Recovered(walHdr, frames, db) IN IF now = Current THEN None ELSE now

(* What a transaction reads; a writer with uncommitted frames builds on the *)
(* current state.                                                          *)
ViewOf(c) ==
    IF wr[c].pages # {} THEN Current
    ELSE IF pc[c] \in {"read", "write"} THEN ReadAll(c)
    ELSE None

Store == INSTANCE SnapshotStore WITH
    history <- commits, floor <- synced, pending <- Pending,
    view <- [c \in Conn |-> ViewOf(c)]

(* Header copies, read marks, locks, read slots and frame counts are of    *)
(* their types (WalIndexHdr, WalCkptInfo and Wal of wal.c).                *)
TypeOK ==
    /\ \A i \in {1, 2} : live[i].isInit \in BOOLEAN /\ live[i].mxFrame \in Nat /\ live[i].salt \in 0 .. salts
    /\ nBackfill \in Nat
    /\ aReadMark \in [1 .. NReader - 1 -> Nat]
    /\ excl \in [Locks -> Conn \cup {None}]
    /\ shared \in [Locks -> SUBSET Conn]
    /\ DOMAIN frames = 1 .. Len(frames)
    /\ DOMAIN db = Pages
    /\ \A c \in Conn : /\ rd[c].lock \in -1 .. NReader - 1
                       /\ wr[c].list \subseteq Pages /\ wr[c].pages \subseteq Pages
                       /\ ck[c].mode \in CkptModes \cup {None, "PASSIVE", "CLOSE"}
    /\ synced \in 1 .. Len(commits)

(* The log implements the transactional store: whatever readers, a writer, *)
(* a checkpoint, recoveries and closing connections do to the wal-index    *)
(* and the two files (walTryBeginRead, walFrames, walCheckpoint,           *)
(* walIndexRecover), a transaction goes on reading the one committed state *)
(* it began with, only a transaction on the last state extends it, and a   *)
(* crash loses no synced commit and shows no part of one.  A process that  *)
(* dies between the stores of walRestartHdr is left out (KillInRestart).   *)
StoreSpec == Store!Spec

(* A commit that was reported stays, power loss or not: what               *)
(* synchronous=FULL buys with the sync at the end of walFrames.            *)
CommitsAreDurable == [][Len(commits') >= Len(commits)]_vars

(* "The nBackfill number is never greater than WalIndexHdr.mxFrame"        *)
(* (WalCkptInfo), whenever the wal-index is in use and neither             *)
(* walRestartHdr nor walIndexRecover is between two of its stores.         *)
BackfillBounded ==
    /\ \E c \in Conn : pc[c] # "closed"
    /\ \A c \in Conn : pc[c] \notin {"restart3", "cktrunc3", "recover3"}
    => nBackfill <= live[1].mxFrame
============================================================================
