------------------------------ MODULE RaftLog ------------------------------
(***************************************************************************)
(* The log of one Raft node (internal/raft/node.go) as pure operators: the *)
(* slice n.Log, what HandleAppendEntries and HandleInstallSnapshot do to   *)
(* it, applying committed entries to the state machine, compaction, and    *)
(* what storage.go keeps of it across a restart.                           *)
(*                                                                         *)
(* A replica is a record of the fields of Node that concern the log        *)
(* (Log, CommitIndex, LastApplied, lastSnapshotIndex, lastSnapshotTerm),   *)
(* the tables raft_log and raft_snapshot, and fsm: the entries the state   *)
(* machine has taken in, in order, which stand for the state they make.    *)
(*                                                                         *)
(* The type of LogEntry.Command is `any`, so what a copy of an entry holds *)
(* depends on the way it came.  Its form is one of                         *)
(*   "bytes"   the []byte that AppendEntry stored on the leader,           *)
(*   "string"  the base64 string that JSON makes of []byte on the wire,    *)
(*   "row"     bytes read back from raft_log: SaveLog marshalled the       *)
(*             command once more, so they are JSON text of a string,       *)
(*   "none"    the nil command of a boundary entry.                        *)
(***************************************************************************)
EXTENDS Integers, Sequences, FiniteSets

CONSTANTS Nil,                \* no command
          Transport,          \* "http" (deployed) or "inmem" (the tests')
          SnapshotThreshold   \* Config.SnapshotThreshold; 0 disables snapshots

ASSUME TransportAssumption == Transport \in {"http", "inmem"}
ASSUME ThresholdAssumption == SnapshotThreshold \in Nat

(***************************************************************************)
(* uint64 subtraction.  Word stands for 2^64; it only has to exceed every  *)
(* index and length of an instance.                                        *)
(***************************************************************************)
Word == 2^16
Sub64(a, b) == (a - b) % Word

Least(S) == CHOOSE x \in S : \A y \in S : x <= y
Greatest(S) == CHOOSE x \in S : \A y \in S : y <= x
Larger(a, b) == IF a < b THEN b ELSE a

---------------------------------------------------------------------------
(* Entries and the slice.  At(log, k) is Go's n.Log[k].                    *)
(* An operator with a name X_y, here and in Raft, is a faulty variant of   *)
(* the operator X that follows it; nothing refers to it.  Each shows that  *)
(* some property notices the fault.                                        *)

LogEntry(i, t, c) == [index |-> i, term |-> t, cmd |-> c, form |-> "bytes"]
Boundary(i, t) == [index |-> i, term |-> t, cmd |-> Nil, form |-> "none"]

At(log, k) == log[k + 1]
baseIndex(log) == At(log, 0).index
lastLogIndex(log) == log[Len(log)].index
lastLogTerm(log) == log[Len(log)].term
InSlice(log, i) == baseIndex(log) <= i /\ i - baseIndex(log) < Len(log)

\* What the peer decodes from the entries of an AppendEntries call.
Wire(entries) ==
    IF Transport = "inmem" THEN entries
    ELSE [i \in DOMAIN entries |-> [entries[i] EXCEPT !.form = "string"]]

NewReplica ==
    [Log |-> <<Boundary(0, 0)>>, CommitIndex |-> 0, LastApplied |-> 0,
     lastSnapshotIndex |-> 0, lastSnapshotTerm |-> 0, fsm |-> <<>>,
     raft_log |-> <<>>, raft_snapshot |-> [index |-> 0, term |-> 0, data |-> <<>>]]

---------------------------------------------------------------------------
(* storage.go.  raft_log is a function from idx to row; SaveLog inserts or *)
(* replaces rows and nothing ever deletes one.                             *)

\* INSERT OR IGNORE.
SaveLog_ignore(rows, entries) ==
    [x \in DOMAIN rows \cup {entries[i].index : i \in DOMAIN entries} |->
       IF x \in DOMAIN rows THEN rows[x]
       ELSE LET i == CHOOSE i \in DOMAIN entries : entries[i].index = x
            IN  [term |-> entries[i].term, cmd |-> entries[i].cmd]]

SaveLog(rows, entries) ==
    LET new == {entries[i].index : i \in DOMAIN entries}
        last(x) == Greatest({i \in DOMAIN entries : entries[i].index = x})
    IN  [x \in DOMAIN rows \cup new |->
           IF x \in new
             THEN [term |-> entries[last(x)].term, cmd |-> entries[last(x)].cmd]
             ELSE rows[x]]

\* The k-th row of SELECT ... ORDER BY idx.
LoadLog(rows) ==
    LET idx(k) == CHOOSE x \in DOMAIN rows :
                     Cardinality({y \in DOMAIN rows : y < x}) = k - 1
    IN  [k \in 1..Cardinality(DOMAIN rows) |->
           [index |-> idx(k), term |-> rows[idx(k)].term,
            cmd |-> rows[idx(k)].cmd, form |-> "row"]]

\* The replica of a process that starts on the storage r left behind: the
\* first half of Start.  The in-memory log is replaced only by a non-empty one.
Restored(r) ==
    LET snap == r.raft_snapshot
        from == IF snap.index > 0 THEN snap
                ELSE [index |-> 0, term |-> 0, data |-> <<>>]
    IN  [NewReplica EXCEPT
           !.Log = IF DOMAIN r.raft_log = {} THEN @ ELSE LoadLog(r.raft_log),
           !.CommitIndex = from.index, !.LastApplied = from.index,
           !.lastSnapshotIndex = from.index, !.lastSnapshotTerm = from.term,
           !.fsm = from.data,
           !.raft_log = r.raft_log, !.raft_snapshot = snap]

---------------------------------------------------------------------------
(* compactLog and maybeSnapshot.  saved.log and saved.snap say whether the *)
(* SaveLog and SaveSnapshot calls of a handler succeed: an error of either *)
(* is logged or ends the compaction, and the handler goes on.              *)

compactLog(r, saved) ==
    LET off == Sub64(r.LastApplied, baseIndex(r.Log))
        inLog == off < Len(r.Log)
        term == IF inLog THEN At(r.Log, off).term ELSE lastLogTerm(r.Log)
        tail == IF inLog THEN SubSeq(r.Log, off + 2, Len(r.Log)) ELSE <<>>
    IN  IF ~saved.snap THEN r
        ELSE [r EXCEPT !.raft_snapshot = [index |-> r.LastApplied, term |-> term,
                                          data |-> r.fsm],
                       !.Log = <<Boundary(r.LastApplied, term)>> \o tail,
                       !.lastSnapshotIndex = r.LastApplied,
                       !.lastSnapshotTerm = term]

maybeSnapshot(r, saved) ==
    IF /\ SnapshotThreshold # 0
       /\ Sub64(r.LastApplied, r.lastSnapshotIndex) >= SnapshotThreshold
    THEN compactLog(r, saved)
    ELSE r

(***************************************************************************)
(* applyCommitted.  LastApplied moves on before Apply is called, entries   *)
(* outside the slice are skipped, and GatewayFSM.Apply                     *)
(*   - records a command it holds as bytes,                                *)
(*   - returns an error, changing nothing, for a "row" (its JSON is a      *)
(*     string, not an FSMCommand),                                         *)
(*   - panics for a string or nil: entry.Command.([]byte).                 *)
(* The panic leaves the loop where it is; Panics says whether one happens. *)
(***************************************************************************)
Applicable(r) ==
    {i \in r.LastApplied + 1 .. r.CommitIndex : InSlice(r.Log, i)}

EntryFor(r, i) == At(r.Log, i - baseIndex(r.Log))
Applied(e) == [index |-> e.index, term |-> e.term, cmd |-> e.cmd]
PanicsAt(r) == {i \in Applicable(r) : EntryFor(r, i).form \in {"string", "none"}}
Panics(r) == PanicsAt(r) # {}

applyCommitted(r, saved) ==
    LET stop == IF Panics(r) THEN Least(PanicsAt(r))
                ELSE Larger(r.LastApplied, r.CommitIndex)
        applied(i) == i \in Applicable(r) /\ EntryFor(r, i).form = "bytes"
        done == SelectSeq([k \in 1..(stop - r.LastApplied) |-> r.LastApplied + k],
                          applied)
        after == [r EXCEPT !.LastApplied = stop,
                           !.fsm = @ \o [k \in DOMAIN done |->
                                           Applied(EntryFor(r, done[k]))]]
    IN  IF Panics(r) THEN after ELSE maybeSnapshot(after, saved)

---------------------------------------------------------------------------
(* HandleAppendEntries: the consistency check and the append loop.         *)

Reject(ci, ct) == [ok |-> FALSE, conflictIndex |-> ci, conflictTerm |-> ct]

\* The first index of the run of ConflictTerm that ends at prevOffset, or 0
\* when that run reaches the start of the slice.
ConflictIndex(log, prevOffset, term) ==
    LET at == {k \in 1..prevOffset : At(log, k - 1).term # term}
    IN  IF at = {} THEN 0 ELSE baseIndex(log) + Greatest(at)

CheckPrev_always(log, prev, prevTerm) ==
    [ok |-> TRUE, conflictIndex |-> 0, conflictTerm |-> 0]

CheckPrev(log, prev, prevTerm) ==
    LET base == baseIndex(log)
    IN  CASE prev = 0 -> [ok |-> TRUE, conflictIndex |-> 0, conflictTerm |-> 0]
          [] prev # 0 /\ prev < base -> Reject(base + 1, 0)
          [] prev # 0 /\ prev - base >= Len(log) -> Reject(base + Len(log), 0)
          [] prev >= base /\ prev # 0 /\ prev - base < Len(log) ->
               LET term == At(log, prev - base).term
               IN  IF term = prevTerm
                     THEN [ok |-> TRUE, conflictIndex |-> 0, conflictTerm |-> 0]
                     ELSE Reject(ConflictIndex(log, prev - base, term), term)

\* Existing entries are kept without a look at their terms.
AppendNew_keeps(log, prev, entries) ==
    LET held == Len(log) - (prev + 1 - baseIndex(log))
        new == SubSeq(entries, held + 1, Len(entries))
    IN  [log |-> log \o new, new |-> new]

\* Whatever follows PrevLogIndex is dropped, conflict or not.
AppendNew_truncates(log, prev, entries) ==
    [log |-> SubSeq(log, 1, prev + 1 - baseIndex(log)) \o entries, new |-> entries]

\* The loop over req.Entries; step[i] is the slice and newEntries after i of
\* them.  The base index is read once, before the loop.
AppendNew(log, prev, entries) ==
    LET base == baseIndex(log)
        step[i \in 0..Len(entries)] ==
          IF i = 0 THEN [log |-> log, new |-> <<>>]
          ELSE LET s == step[i - 1]
                   off == Sub64(prev + i, base)
                   grown(kept) == [log |-> Append(kept, entries[i]),
                                   new |-> Append(s.new, entries[i])]
               IN  IF off >= Len(s.log) THEN grown(s.log)
                   ELSE IF At(s.log, off).term = entries[i].term THEN s
                   ELSE grown(SubSeq(s.log, 1, off))
    IN  step[Len(entries)]

\* The part of HandleAppendEntries after a successful check.
AcceptEntries(r, req, saved) ==
    LET loop == AppendNew(r.Log, req.prevLogIndex, req.entries)
        grown == [r EXCEPT !.Log = loop.log,
                           !.raft_log = IF saved.log /\ loop.new # <<>>
                                          THEN SaveLog(@, loop.new) ELSE @]
        lastNewIndex == req.prevLogIndex + Len(req.entries)
        advanced == [grown EXCEPT !.CommitIndex =
                       IF req.leaderCommit < lastNewIndex THEN req.leaderCommit
                       ELSE lastNewIndex]
    IN  IF req.leaderCommit > r.CommitIndex
        THEN [rep |-> applyCommitted(advanced, saved), panic |-> Panics(advanced)]
        ELSE [rep |-> grown, panic |-> FALSE]

---------------------------------------------------------------------------
(* HandleInstallSnapshot after the term check.                             *)

InstallSnapshot(r, req, saved) ==
    LET base == baseIndex(r.Log)
        i == req.lastIncludedIndex
        mark == <<Boundary(i, req.lastIncludedTerm)>>
    IN  [r EXCEPT
           !.fsm = req.data,
           !.Log = IF i >= base + Len(r.Log) THEN mark
                   ELSE IF i >= base THEN mark \o SubSeq(r.Log, i - base + 2, Len(r.Log))
                   ELSE @,
           !.LastApplied = Larger(@, i),
           !.CommitIndex = Larger(@, i),
           !.lastSnapshotIndex = i,
           !.lastSnapshotTerm = req.lastIncludedTerm,
           !.raft_snapshot = IF saved.snap
                               THEN [index |-> i, term |-> req.lastIncludedTerm,
                                     data |-> req.data]
                               ELSE @]

---------------------------------------------------------------------------
(* The leader's side: the request replicateTo builds, and the commit rule  *)
(* of advanceCommitIndex, where match is the peers' matchIndex and others  *)
(* the set of peers.                                                       *)

NeedsSnapshot(r, nextIdx) ==
    r.lastSnapshotIndex > 0 /\ nextIdx <= r.lastSnapshotIndex

SnapshotData(r) == IF r.raft_snapshot.index > 0 THEN r.raft_snapshot.data ELSE r.fsm

PrevLogTerm(log, prev) ==
    IF InSlice(log, prev) THEN At(log, prev - baseIndex(log)).term ELSE 0

EntriesFrom(log, nextIdx, max) ==
    LET last == lastLogIndex(log)
        end == IF nextIdx + max > last + 1 THEN last + 1 ELSE nextIdx + max
        lo == Sub64(nextIdx, baseIndex(log))
        hi == Sub64(end, baseIndex(log))
    IN  IF nextIdx <= last /\ lo < Len(log) /\ hi <= Len(log)
          THEN SubSeq(log, lo + 1, hi) ELSE <<>>

CommitCandidates_anyCount(r, term, match, others) ==
    {i \in r.CommitIndex + 1 .. lastLogIndex(r.Log) :
        InSlice(r.Log, i) /\ EntryFor(r, i).term = term}

CommitCandidates_strict(r, term, match, others) ==
    {i \in r.CommitIndex + 1 .. lastLogIndex(r.Log) :
        /\ InSlice(r.Log, i) /\ EntryFor(r, i).term = term
        /\ 1 + Cardinality({p \in others : match[p] > i})
             > (Cardinality(others) + 1) \div 2}

CommitCandidates(r, term, match, others) ==
    {i \in r.CommitIndex + 1 .. lastLogIndex(r.Log) :
        /\ InSlice(r.Log, i)
        /\ EntryFor(r, i).term = term
        /\ 1 + Cardinality({p \in others : match[p] >= i})
             > (Cardinality(others) + 1) \div 2}

advanceCommitIndex(r, term, match, others, saved) ==
    LET S == CommitCandidates(r, term, match, others)
        advanced == [r EXCEPT !.CommitIndex = Greatest(S)]
    IN  IF S = {} THEN [rep |-> r, panic |-> FALSE]
        ELSE [rep |-> applyCommitted(advanced, saved), panic |-> Panics(advanced)]
============================================================================
