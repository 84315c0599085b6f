--------------------------- MODULE RaftLiveness ---------------------------
(***************************************************************************)
(* What the Raft node does in the end, under a leader that stays.          *)
(***************************************************************************)
EXTENDS RaftSafety

CONSTANT Last   \* the node whose leadership is followed; all nodes are alike
ASSUME LastAssumption == Last \in Node

\* The goroutine of a tick of sendHeartbeats that goes to p.
HeartbeatTo(p) ==
    sendHeartbeats(Last) /\ \E c \in replCalls' \ replCalls : c.to = p

CallsTo(p) == {c \in replCalls : c.from = Last /\ c.to = p}

(***************************************************************************)
(* The ticker fires for as long as the node leads and spawns a goroutine   *)
(* for each peer; a goroutine that is runnable runs.  The network may lose *)
(* any call, but not every one it is given for ever: requests, and         *)
(* responses, offered again and again get through.                         *)
(***************************************************************************)
Fairness ==
    \A p \in Peers(Last) :
      /\ SF_vars(HeartbeatTo(p))
      /\ WF_vars(\E c \in CallsTo(p) : replicateTo(c))
      /\ SF_vars(\E c \in CallsTo(p) : HandleAppendEntries(c) \/ HandleInstallSnapshot(c))
      /\ SF_vars(\E c \in CallsTo(p) : HandleAppendResponse(c) \/ HandleSnapshotResponse(c))

FairSpec == Spec /\ Fairness

Leads == State[Last] = Leader /\ heartbeat[Last] = "running"

Agrees(n, i) ==
    Real(Last, i) => Real(n, i) /\ Same(EntryFor(rep[n], i), EntryFor(rep[Last], i))

\* Under a leader that stays, every node gets every entry of the leader's log:
\* missing ones arrive and those of a deposed leader in their places are
\* overwritten, whichever way the rejected AppendEntries move nextIndex back
\* (replicateTo, HandleAppendEntries).
LogsConverge == <>[]Leads => <>[](\A n \in Node : \A i \in Indices : Agrees(n, i))

Proposed(i) == Leads /\ Real(Last, i) /\ EntryFor(rep[Last], i).term = CurrentTerm[Last]

\* Under a leader that stays, everything up to an entry of its own term is in
\* the end committed and applied on every node ("Leader replicates log entries
\* to followers", docs/architecture/ARCHITECTURE.md; advanceCommitIndex, and the
\* LeaderCommit of later heartbeats).
ProposalsCommit ==
    <>[]Leads =>
      \A i \in Indices : Proposed(i) ~> \A n \in Node : rep[n].LastApplied >= i
============================================================================
