---------------------------- MODULE RaftSafety ----------------------------
(***************************************************************************)
(* What the Raft node promises: the safety properties of the protocol that *)
(* node.go implements, stated over the state of Raft.                      *)
(***************************************************************************)
EXTENDS Raft

\* A call goes to another node; a response carries the peer's term.
CallOK(c, responses) ==
    /\ {"stage", "from", "to", "term"} \subseteq DOMAIN c
    /\ c.from \in Node
    /\ c.to \in Node \ {c.from}
    /\ c.term \in Nat
    /\ c.stage \in responses => c.respTerm \in Nat

\* Type invariant of the fields of Node, of the table raft_state and of the
\* goroutines' requests (internal/raft/node.go, rpc.go, storage.go).
TypeOK ==
    /\ State \in [Node -> {Follower, Candidate, Leader}]
    /\ CurrentTerm \in [Node -> Nat]
    /\ VotedFor \in [Node -> Node \cup {Nil}]
    /\ leaderID \in [Node -> Node \cup {Nil}]
    /\ stable \in [Node -> [term : Nat, votedFor : Node \cup {Nil}]]
    /\ votesReceived \in [Node -> Nat]
    /\ electionTimer \in [Node -> BOOLEAN]
    /\ heartbeat \in [Node -> {"off", "running", "exiting"}]
    /\ up \in [Node -> BOOLEAN]
    /\ restarts \in Nat
    /\ voters \in [Node -> SUBSET Node]
    /\ votes \subseteq Node \X Node \X Nat
    /\ elected \subseteq [node : Node, term : Nat, quorum : SUBSET Node]
    /\ \A c \in voteCalls : CallOK(c, {"response"})
    /\ \A c \in replCalls : CallOK(c, {"AppendEntriesResp", "InstallSnapshotResp"})

---------------------------------------------------------------------------
(* Elections.                                                              *)

\* Election Safety: at most one node wins the election of a term, whatever
\* becomes of votes, heartbeats and restarts in between (HandleRequestVote
\* votes once per term and persists the vote; becomeLeader needs a majority).
ElectionSafety ==
    \A e, f \in elected : e.term = f.term => e.node = f.node

(***************************************************************************)
(* Why it holds.  A vote may be given twice in a term: a candidate that    *)
(* hears of the winner has its VotedFor cleared by HandleAppendEntries.    *)
(* But only once somebody has won that term, and never by a node of the    *)
(* winning majority: those stay with the winner until the term is over.    *)
(***************************************************************************)
Won(n, t) == \E e \in elected : e.node = n /\ e.term = t
Decided(t) == \E e \in elected : e.term = t

\* A majority elected every winner, and its members voted for nobody else.
QuorumInv ==
    \A e \in elected :
      /\ e.node \in e.quorum
      /\ Cardinality(e.quorum) >= votesNeeded
      /\ \A m \in e.quorum :
           /\ <<m, e.node, e.term>> \in votes
           /\ \A c \in Node : <<m, c, e.term>> \in votes => c = e.node
           /\ CurrentTerm[m] >= e.term
           /\ CurrentTerm[m] = e.term =>
                VotedFor[m] = e.node /\ (State[m] = Follower \/ m = e.node)

\* In a term that is not decided, a vote cast is still held, and is the only one.
VotesInv ==
    \A v \in votes :
      /\ CurrentTerm[v[1]] >= v[3]
      /\ ~Decided(v[3]) =>
           /\ \A w \in votes : w[1] = v[1] /\ w[3] = v[3] => w[2] = v[2]
           /\ CurrentTerm[v[1]] = v[3] =>
                VotedFor[v[1]] = v[2] /\ (State[v[1]] = Follower \/ v[1] = v[2])

\* The counter of a candidate counts votes of different nodes in its term.
CandidateInv ==
    \A n \in Node :
      /\ State[n] # Follower => VotedFor[n] = n
      /\ State[n] = Leader => Won(n, CurrentTerm[n])
      /\ State[n] = Candidate =>
           /\ ~Won(n, CurrentTerm[n])
           /\ n \in voters[n]
           /\ votesReceived[n] = Cardinality(voters[n])
           /\ \A m \in voters[n] : <<m, n, CurrentTerm[n]>> \in votes

StableInv == \A n \in Node : stable[n] = [term |-> CurrentTerm[n], votedFor |-> VotedFor[n]]

\* A call is answered once, so a vote is counted once; only winners send
\* AppendEntries and InstallSnapshot.
CallsInv ==
    /\ \A c \in voteCalls :
         /\ c.term <= CurrentTerm[c.from]
         /\ State[c.from] = Candidate /\ CurrentTerm[c.from] = c.term
              => c.to \notin voters[c.from]
         /\ c.stage = "response" /\ c.granted => <<c.to, c.from, c.term>> \in votes
         /\ \A d \in voteCalls :
              c.from = d.from /\ c.to = d.to /\ c.term = d.term => c = d
    /\ \A c \in replCalls : Won(c.from, c.term)

\* The inductive invariant behind ElectionSafety.
ElectionInv == QuorumInv /\ VotesInv /\ CandidateInv /\ StableInv /\ CallsInv

---------------------------------------------------------------------------
(* Replicated log.  Real(n, i): n's slice holds the entry of index i, and  *)
(* not merely a boundary in its place.                                     *)

Real(n, i) ==
    InSlice(rep[n].Log, i) /\ EntryFor(rep[n], i).form # "none"

Same(e, f) == e.index = f.index /\ e.term = f.term /\ e.cmd = f.cmd

Indices == 1..MaxLogIndex

\* Log Matching: two logs that hold an entry of the same index and term agree
\* on every entry up to it (the PrevLogIndex/PrevLogTerm check and the
\* truncation in HandleAppendEntries).
LogMatching ==
    \A m, n \in Node : \A i \in Indices :
        (Real(m, i) /\ Real(n, i) /\ EntryFor(rep[m], i).term = EntryFor(rep[n], i).term)
          => \A j \in 1..i :
               Real(m, j) /\ Real(n, j) => Same(EntryFor(rep[m], j), EntryFor(rep[n], j))

\* State Machine Safety: what one node takes to be committed at an index, no
\* other node takes to be something else (advanceCommitIndex, and the commit
\* index a follower derives from LeaderCommit in HandleAppendEntries).
StateMachineSafety ==
    \A m, n \in Node : \A i \in Indices :
        (/\ i <= rep[m].CommitIndex /\ i <= rep[n].CommitIndex
         /\ Real(m, i) /\ Real(n, i))
          => Same(EntryFor(rep[m], i), EntryFor(rep[n], i))

\* Leader Completeness: a leader whose term is not older than that of a node
\* holds every entry this node knows to be committed (the up-to-date check of
\* HandleRequestVote together with the current-term rule of
\* advanceCommitIndex).
LeaderCompleteness ==
    \A l, n \in Node : \A i \in Indices :
        (/\ State[l] = Leader
         /\ CurrentTerm[l] >= CurrentTerm[n]
         /\ i <= rep[n].CommitIndex
         /\ Real(n, i) /\ i > baseIndex(rep[l].Log))
          => Real(l, i) /\ Same(EntryFor(rep[l], i), EntryFor(rep[n], i))

\* The state machines run through the same commands: of any two, one has
\* applied a prefix of what the other has (applyCommitted calls Apply once per
\* index, in order, and Restore takes over what another node has applied).
Prefix(s, t) == Len(s) <= Len(t) /\ s = SubSeq(t, 1, Len(s))
StateMachinesAgree ==
    \A m, n \in Node : Prefix(rep[m].fsm, rep[n].fsm) \/ Prefix(rep[n].fsm, rep[m].fsm)

\* The state machine is where LastApplied says: every index up to it has been
\* applied once, in order (applyCommitted, Restore).
AppliedIsCurrent == \A n \in Node : up[n] => Len(rep[n].fsm) = rep[n].LastApplied

\* A node never gives up an entry it knows to be committed: no step of a
\* running node drops or changes it in the log, compaction aside (the
\* truncation n.Log[:offset] in HandleAppendEntries).
CommittedStays ==
    [][\A n \in Node : up[n] /\ up'[n] /\ rep'[n].Log # rep[n].Log =>
          \A i \in Indices : Real(n, i) /\ i <= rep[n].CommitIndex
            => \/ i <= baseIndex(rep[n].Log)'
               \/ Real(n, i)' /\ Same(EntryFor(rep[n], i), EntryFor(rep[n], i)')]_vars

\* A leader counts a peer as holding an index only if the peer, unless it has
\* gone on to a later term, does hold the leader's entry there, whatever the
\* order in which the responses of overlapping calls came in (the matchIndex
\* that replicateTo computes from the request, not from the response).
MatchIsReal ==
    \A l, p \in Node :
        LET i == matchIndex[l][p]
        IN  (/\ State[l] = Leader /\ p # l /\ i > 0
             /\ CurrentTerm[p] <= CurrentTerm[l]
             /\ Real(l, i) /\ i > baseIndex(rep[p].Log))
              => Real(p, i) /\ Same(EntryFor(rep[p], i), EntryFor(rep[l], i))

---------------------------------------------------------------------------
(* The process around the protocol.                                        *)

\* Nothing a node holds is lost with the process: with a storage that does not
\* fail, raft_log has every entry of the slice, in the version the slice has
\* after a truncation too (persistLog in AppendEntry and HandleAppendEntries,
\* INSERT OR REPLACE in SaveLog; "Persistent state (must be persisted to stable
\* storage)", the Node struct).  It may have more: nothing deletes the rows of
\* entries that were truncated away or compacted.
PersistedLog ==
    \A n \in Node : \A k \in DOMAIN rep[n].Log :
        LET e == rep[n].Log[k]
            rows == rep[n].raft_log
        IN  up[n] /\ e.form # "none" =>
              e.index \in DOMAIN rows /\ rows[e.index] = [term |-> e.term, cmd |-> e.cmd]

\* A node that does not lead can start an election: it has a timer running or
\* a timeout to handle (resetElectionTimer; a leader's one-shot timer is used up
\* by handleElectionTimeout, so whoever ends a leadership has to start it again).
FollowerHasTimer == \A n \in Node : up[n] /\ State[n] # Leader => electionTimer[n]

\* A candidate that has the votes it needs is the leader (becomeCandidate and
\* its goroutines).
MajorityLeads == \A n \in Node : State[n] = Candidate => votesReceived[n] < votesNeeded
============================================================================
