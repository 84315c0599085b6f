------------------------------- MODULE Raft -------------------------------
(***************************************************************************)
(* The Raft node of internal/raft/node.go: elections, heartbeats and log   *)
(* replication, snapshots, the commit rule, stop and restart on what       *)
(* storage.go kept, over a transport that delays, reorders and loses calls.*)
(*                                                                         *)
(* Every handler of the code holds n.mu from its first to its last         *)
(* statement and is one action.  The code gives up the lock, and the model *)
(* takes a step, between the parts of an RPC: building the request, the    *)
(* peer's handler, and what the calling goroutine does with the response.  *)
(* A goroutine that has not finished is a member of voteCalls (spawned by  *)
(* becomeCandidate) or of replCalls (spawned by sendHeartbeats).           *)
(*                                                                         *)
(* The peers of a node are the other members of Node throughout.           *)
(***************************************************************************)
EXTENDS RaftLog

CONSTANTS Node,                 \* the members of the cluster
          Command,              \* what AppendEntry may be given
          MaxEntriesPerAppend,  \* Config.MaxEntriesPerAppend
          SaveMayFail,          \* may the storage return errors?
          MaxElections, MaxLogIndex, \* bounds: elections started, proposals,
          MaxRestarts, MaxCalls      \*   stops, replicateTo goroutines

ASSUME NodeAssumption == IsFiniteSet(Node) /\ Nil \notin Node /\ Nil \notin Command
ASSUME ConfigAssumption == MaxEntriesPerAppend \in Nat /\ SaveMayFail \in BOOLEAN
ASSUME BoundAssumption ==
    MaxElections \in Nat /\ MaxLogIndex \in Nat /\ MaxRestarts \in Nat /\ MaxCalls \in Nat

VARIABLES State, CurrentTerm, VotedFor, leaderID,  \* fields of Node
          nextIndex, matchIndex,                   \* the leader's view of peers
          rep,             \* the log and what hangs on it: see RaftLog
          stable,          \* the table raft_state: [term, votedFor]
          votesReceived,   \* the counter becomeCandidate shares with its goroutines
          electionTimer,   \* is a timeout armed, or its token in electionTimeoutCh?
          heartbeat,       \* sendHeartbeats: "off", "running", or "exiting" when it
                           \* has seen State # Leader but heartbeatRunning is still set
          up, restarts,    \* is the process alive; stops so far
          voteCalls, replCalls,     \* goroutines in an RPC
          voters, votes, elected    \* history: who is counted in votesReceived, all
                                    \* votes cast, all elections won

roleVars == <<State, CurrentTerm, VotedFor, leaderID, stable>>
voteVars == <<votesReceived, voters, votes, elected>>
leaderVars == <<nextIndex, matchIndex, heartbeat>>
procVars == <<up, restarts>>
vars == <<roleVars, voteVars, leaderVars, procVars, rep, electionTimer,
          voteCalls, replCalls>>

---------------------------------------------------------------------------

Follower == "follower"
Candidate == "candidate"
Leader == "leader"

Peers_all(n) == Node
Peers(n) == Node \ {n}
votesNeeded == Cardinality(Node) \div 2 + 1

Init ==
    /\ State = [n \in Node |-> Follower]
    /\ CurrentTerm = [n \in Node |-> 0]
    /\ VotedFor = [n \in Node |-> Nil]
    /\ leaderID = [n \in Node |-> Nil]
    /\ nextIndex = [n \in Node |-> [p \in Node |-> 0]]
    /\ matchIndex = [n \in Node |-> [p \in Node |-> 0]]
    /\ rep = [n \in Node |-> NewReplica]
    /\ stable = [n \in Node |-> [term |-> 0, votedFor |-> Nil]]
    /\ votesReceived = [n \in Node |-> 0]
    /\ electionTimer = [n \in Node |-> TRUE]
    /\ heartbeat = [n \in Node |-> "off"]
    /\ up = [n \in Node |-> TRUE]
    /\ restarts = 0
    /\ voteCalls = {}
    /\ replCalls = {}
    /\ voters = [n \in Node |-> {}]
    /\ votes = {}
    /\ elected = {}

(***************************************************************************)
(* persistState.  Its error is only logged, so a handler that calls it     *)
(* with each of the values in `interim` and last with `final` may leave    *)
(* any of them, or the old row, in the table.                              *)
(***************************************************************************)
persistState_never(n, interim, final) == UNCHANGED stable

persistState(n, interim, final) ==
    \E row \in IF SaveMayFail THEN interim \cup {stable[n], final} ELSE {final} :
        stable' = [stable EXCEPT ![n] = row]

SaveOutcome == IF SaveMayFail THEN BOOLEAN ELSE {TRUE}
SaveOutcomes == [log : SaveOutcome, snap : SaveOutcome]

\* n's State, CurrentTerm and VotedFor together with the row that keeps them.
SetRole(n, state, term, votedFor, interim) ==
    /\ State' = [State EXCEPT ![n] = state]
    /\ CurrentTerm' = [CurrentTerm EXCEPT ![n] = term]
    /\ VotedFor' = [VotedFor EXCEPT ![n] = votedFor]
    /\ persistState(n, interim, [term |-> term, votedFor |-> votedFor])

resetElectionTimer(n) == electionTimer' = [electionTimer EXCEPT ![n] = TRUE]

becomeFollower(n, term) ==
    /\ SetRole(n, Follower, term, Nil, {})
    /\ resetElectionTimer(n)
    /\ UNCHANGED leaderID

---------------------------------------------------------------------------
(* Elections.                                                              *)

becomeCandidate(n) ==
    LET term == CurrentTerm[n] + 1
    IN  /\ SetRole(n, Candidate, term, n, {})
        /\ leaderID' = [leaderID EXCEPT ![n] = Nil]
        /\ votesReceived' = [votesReceived EXCEPT ![n] = 1]
        /\ voters' = [voters EXCEPT ![n] = {n}]
        /\ votes' = votes \cup {<<n, n, term>>}
        /\ voteCalls' = voteCalls \cup
             {[stage |-> "request", from |-> n, to |-> p, term |-> term,
               waiting |-> TRUE, lastLogIndex |-> lastLogIndex(rep[n].Log),
               lastLogTerm |-> lastLogTerm(rep[n].Log)] : p \in Peers(n)}
        /\ resetElectionTimer(n)
        /\ UNCHANGED <<elected, leaderVars, procVars, rep, replCalls>>

\* The timer is one-shot: handled on a leader it is gone, and nothing re-arms it.
handleElectionTimeout(n) ==
    /\ up[n]
    /\ electionTimer[n]
    /\ \/ /\ State[n] = Leader
          /\ electionTimer' = [electionTimer EXCEPT ![n] = FALSE]
          /\ UNCHANGED <<roleVars, voteVars, leaderVars, procVars, rep,
                         voteCalls, replCalls>>
       \/ /\ State[n] # Leader
          /\ Cardinality({v \in votes : v[1] = v[2]}) < MaxElections
          /\ becomeCandidate(n)

UpToDate_any(c, r) == TRUE

\* The log of a candidate is at least as up to date as r's.
UpToDate(c, r) ==
    \/ c.lastLogTerm > lastLogTerm(r.Log)
    \/ c.lastLogTerm = lastLogTerm(r.Log) /\ c.lastLogIndex >= lastLogIndex(r.Log)

Grants_again(c, votedFor, r) == UpToDate(c, r)

\* A voter whose vote in this term is votedFor gives it to the caller.
Grants(c, votedFor, r) == votedFor \in {Nil, c.from} /\ UpToDate(c, r)

\* A handled call waits for its response, unless its caller is gone.
Answer(calls, c, resp) == (calls \ {c}) \cup (IF c.waiting THEN {resp} ELSE {})

\* The response carries the term the voter had when the request came in.
HandleRequestVote(c) ==
    LET n == c.to
        newer == c.term > CurrentTerm[n]
        voted == IF newer THEN Nil ELSE VotedFor[n]
        grant == /\ c.term >= CurrentTerm[n]
                 /\ Grants(c, voted, rep[n])
        stepped == [term |-> c.term, votedFor |-> Nil]
    IN  /\ c.stage = "request"
        /\ up[n]
        /\ \/ /\ grant
              /\ SetRole(n, IF newer THEN Follower ELSE State[n], c.term, c.from,
                         IF newer THEN {stepped} ELSE {})
              /\ resetElectionTimer(n)
              /\ votes' = votes \cup {<<n, c.from, c.term>>}
           \/ /\ ~grant
              /\ newer
              /\ SetRole(n, Follower, c.term, Nil, {})
              /\ UNCHANGED <<electionTimer, votes>>
           \/ /\ ~grant
              /\ ~newer
              /\ UNCHANGED <<State, CurrentTerm, VotedFor, stable, electionTimer, votes>>
        /\ leaderID' = [leaderID EXCEPT ![n] = IF newer THEN Nil ELSE @]
        /\ voteCalls' = Answer(voteCalls, c,
             [stage |-> "response", from |-> c.from, to |-> n, term |-> c.term,
              respTerm |-> CurrentTerm[n], granted |-> grant])
        /\ UNCHANGED <<votesReceived, voters, elected, leaderVars, procVars, rep,
                       replCalls>>

\* sendHeartbeats is started unless heartbeatRunning is still set.
becomeLeader(n, quorum) ==
    LET next == lastLogIndex(rep[n].Log) + 1
    IN  /\ State' = [State EXCEPT ![n] = Leader]
        /\ leaderID' = [leaderID EXCEPT ![n] = n]
        /\ nextIndex' = [nextIndex EXCEPT ![n] =
             [p \in Node |-> IF p = n THEN @[p] ELSE next]]
        /\ matchIndex' = [matchIndex EXCEPT ![n] =
             [p \in Node |-> IF p = n THEN @[p] ELSE 0]]
        /\ heartbeat' = [heartbeat EXCEPT ![n] = IF @ = "off" THEN "running" ELSE @]
        /\ elected' = elected \cup
             {[node |-> n, term |-> CurrentTerm[n], quorum |-> quorum]}
        /\ UNCHANGED <<CurrentTerm, VotedFor, stable, electionTimer>>

HandleVoteResponse(c) ==
    LET n == c.from
        current == State[n] = Candidate /\ CurrentTerm[n] = c.term
        newer == c.respTerm > CurrentTerm[n]
        wins == votesReceived[n] + 1 >= votesNeeded
    IN  /\ c.stage = "response"
        /\ voteCalls' = voteCalls \ {c}
        /\ UNCHANGED <<votes, procVars, rep, replCalls>>
        /\ \/ /\ ~current \/ (~newer /\ ~c.granted)
              /\ UNCHANGED <<roleVars, votesReceived, voters, elected, leaderVars,
                             electionTimer>>
           \/ /\ current
              /\ newer
              /\ becomeFollower(n, c.respTerm)
              /\ UNCHANGED <<votesReceived, voters, elected, leaderVars>>
           \/ /\ current
              /\ ~newer
              /\ c.granted
              /\ votesReceived' = [votesReceived EXCEPT ![n] = @ + 1]
              /\ voters' = [voters EXCEPT ![n] = @ \cup {c.to}]
              /\ \/ wins /\ becomeLeader(n, voters[n] \cup {c.to})
                 \/ ~wins /\ UNCHANGED <<roleVars, elected, leaderVars, electionTimer>>

---------------------------------------------------------------------------
(* Replication: the leader's side.                                         *)

FreeSlots(n, p) ==
    (1..MaxCalls) \ {c.slot : c \in {d \in replCalls : d.from = n /\ d.to = p}}

\* One tick of sendHeartbeats: a goroutine per peer, with the term and the
\* commit index of the leader at this moment.  Each peer's goroutine is a step:
\* a tick is a run of them, in which a call over the bound counts as lost.
sendHeartbeats(n) ==
    /\ up[n]
    /\ heartbeat[n] = "running"
    /\ \/ /\ State[n] = Leader
          /\ Cardinality(replCalls) < MaxCalls
          /\ \E p \in Peers(n) : replCalls' = replCalls \cup
               {[stage |-> "spawned", from |-> n, to |-> p,
                 slot |-> Least(FreeSlots(n, p)),
                 term |-> CurrentTerm[n], leaderCommit |-> rep[n].CommitIndex]}
          /\ UNCHANGED heartbeat
       \/ /\ State[n] # Leader
          /\ heartbeat' = [heartbeat EXCEPT ![n] = "exiting"]
          /\ UNCHANGED replCalls
    /\ UNCHANGED <<roleVars, voteVars, nextIndex, matchIndex, procVars, rep,
                   electionTimer, voteCalls>>

\* The deferred heartbeatRunning.Store(false), after n.mu was released.
HeartbeatsExit(n) ==
    /\ heartbeat[n] = "exiting"
    /\ heartbeat' = [heartbeat EXCEPT ![n] = "off"]
    /\ UNCHANGED <<roleVars, voteVars, nextIndex, matchIndex, procVars, rep,
                   electionTimer, voteCalls, replCalls>>

\* The first half of replicateTo: the request is built from the log and the
\* nextIndex of now, the term and the commit index of when it was spawned.
replicateTo(c) ==
    LET n == c.from
        r == rep[n]
        nextIdx == nextIndex[n][c.to]
        req == IF NeedsSnapshot(r, nextIdx)
               THEN [stage |-> "InstallSnapshot", from |-> n, to |-> c.to,
                     slot |-> c.slot, term |-> c.term, waiting |-> TRUE,
                     lastIncludedIndex |-> r.lastSnapshotIndex,
                     lastIncludedTerm |-> r.lastSnapshotTerm, data |-> SnapshotData(r)]
               ELSE [stage |-> "AppendEntries", from |-> n, to |-> c.to,
                     slot |-> c.slot, term |-> c.term, waiting |-> TRUE,
                     prevLogIndex |-> nextIdx - 1,
                     prevLogTerm |-> PrevLogTerm(r.Log, nextIdx - 1),
                     entries |-> Wire(EntriesFrom(r.Log, nextIdx, MaxEntriesPerAppend)),
                     leaderCommit |-> c.leaderCommit]
    IN  /\ c.stage = "spawned"
        /\ replCalls' = (replCalls \ {c}) \cup {req}
        /\ UNCHANGED <<roleVars, voteVars, leaderVars, procVars, rep, electionTimer,
                       voteCalls>>

\* An uncaught panic in a goroutine, or the end of the process: its memory and
\* its goroutines are gone, its requests are still under way.
Gone(n, calls) ==
    {c \in calls : c.from # n} \cup
    {[c EXCEPT !.waiting = FALSE] :
        c \in {d \in calls : d.from = n
                  /\ d.stage \in {"request", "AppendEntries", "InstallSnapshot"}}}

Exit(n, otherVotes, otherRepl) ==
    /\ up' = [up EXCEPT ![n] = FALSE]
    /\ State' = [State EXCEPT ![n] = Follower]
    /\ leaderID' = [leaderID EXCEPT ![n] = Nil]
    /\ nextIndex' = [nextIndex EXCEPT ![n] = [p \in Node |-> 0]]
    /\ matchIndex' = [matchIndex EXCEPT ![n] = [p \in Node |-> 0]]
    /\ heartbeat' = [heartbeat EXCEPT ![n] = "off"]
    /\ electionTimer' = [electionTimer EXCEPT ![n] = FALSE]
    /\ votesReceived' = [votesReceived EXCEPT ![n] = 0]
    /\ voters' = [voters EXCEPT ![n] = {}]
    /\ voteCalls' = Gone(n, otherVotes)
    /\ replCalls' = Gone(n, otherRepl)
    /\ UNCHANGED <<CurrentTerm, VotedFor, stable, votes, elected>>

NextAfterReject_stays(nextIdx, c) == nextIdx

\* Where a rejected AppendEntries makes the leader try next.
NextAfterReject(nextIdx, c) ==
    IF c.conflictTerm > 0 /\ c.conflictIndex > 0 THEN c.conflictIndex
    ELSE IF nextIdx > 1 THEN nextIdx - 1 ELSE nextIdx

\* replicateTo after AppendEntries returned.  advanceCommitIndex applies what
\* it commits in this goroutine, where nothing recovers a panic.
HandleAppendResponse(c) ==
    LET n == c.from
        newer == c.respTerm > CurrentTerm[n]
        stale == State[n] # Leader \/ CurrentTerm[n] # c.term
        newMatchIndex == c.prevLogIndex + c.count
        match == [matchIndex EXCEPT ![n][c.to] = Larger(@, newMatchIndex)]
        others == replCalls \ {c}
    IN  /\ c.stage = "AppendEntriesResp"
        /\ UNCHANGED votes
        /\ \/ /\ newer
              /\ becomeFollower(n, c.respTerm)
              /\ replCalls' = others
              /\ UNCHANGED <<votesReceived, voters, elected, leaderVars, procVars, rep,
                             voteCalls>>
           \/ /\ ~newer
              /\ stale
              /\ replCalls' = others
              /\ UNCHANGED <<roleVars, votesReceived, voters, elected, leaderVars,
                             procVars, rep, electionTimer, voteCalls>>
           \/ /\ ~newer
              /\ ~stale
              /\ c.success
              /\ \E saved \in SaveOutcomes :
                   LET adv == advanceCommitIndex(rep[n], CurrentTerm[n], match[n],
                                                 Peers(n), saved)
                   IN  /\ rep' = [rep EXCEPT ![n] = adv.rep]
                       /\ \/ /\ ~adv.panic
                             /\ matchIndex' = match
                             /\ nextIndex' = [nextIndex EXCEPT ![n][c.to] =
                                                newMatchIndex + 1]
                             /\ replCalls' = others
                             /\ UNCHANGED <<roleVars, votesReceived, voters, elected,
                                            heartbeat, procVars, electionTimer, voteCalls>>
                          \/ /\ adv.panic
                             /\ Exit(n, voteCalls, others)
                             /\ UNCHANGED restarts
           \/ /\ ~newer
              /\ ~stale
              /\ ~c.success
              /\ nextIndex' = [nextIndex EXCEPT ![n][c.to] = NextAfterReject(@, c)]
              /\ replCalls' = others
              /\ UNCHANGED <<roleVars, votesReceived, voters, elected, matchIndex,
                             heartbeat, procVars, rep, electionTimer, voteCalls>>

\* replicateTo after InstallSnapshot returned: no look at State or the term.
HandleSnapshotResponse(c) ==
    LET n == c.from
        newer == c.respTerm > CurrentTerm[n]
    IN  /\ c.stage = "InstallSnapshotResp"
        /\ replCalls' = replCalls \ {c}
        /\ \/ /\ newer
              /\ becomeFollower(n, c.respTerm)
              /\ UNCHANGED <<nextIndex, matchIndex>>
           \/ /\ ~newer
              /\ c.success
              /\ nextIndex' = [nextIndex EXCEPT ![n][c.to] = c.lastIncludedIndex + 1]
              /\ matchIndex' = [matchIndex EXCEPT ![n][c.to] = c.lastIncludedIndex]
              /\ UNCHANGED <<roleVars, electionTimer>>
           \/ /\ ~newer
              /\ ~c.success
              /\ UNCHANGED <<roleVars, electionTimer, nextIndex, matchIndex>>
        /\ UNCHANGED <<voteVars, heartbeat, procVars, rep, voteCalls>>

\* Proposals.  Only the leader appends; the peers learn of it by a later tick.
AppendEntry(n, cmd) ==
    LET index == lastLogIndex(rep[n].Log) + 1
        entry == LogEntry(index, CurrentTerm[n], cmd)
    IN  /\ up[n]
        /\ State[n] = Leader
        /\ index <= MaxLogIndex
        /\ \E ok \in SaveOutcome :
             rep' = [rep EXCEPT ![n].Log = Append(@, entry),
                                ![n].raft_log = IF ok THEN SaveLog(@, <<entry>>) ELSE @]
        /\ matchIndex' = [matchIndex EXCEPT ![n][n] = index]
        /\ UNCHANGED <<roleVars, voteVars, nextIndex, heartbeat, procVars,
                       electionTimer, voteCalls, replCalls>>

---------------------------------------------------------------------------
(* Replication: the follower's side.                                       *)

\* The leader is noted; a newer term, or (AppendEntries only) not being a
\* follower, makes the node a follower that has not voted.
AcceptLeader(n, c, stepsDown) ==
    /\ leaderID' = [leaderID EXCEPT ![n] = c.from]
    /\ \/ stepsDown /\ SetRole(n, Follower, c.term, Nil, {})
       \/ ~stepsDown /\ UNCHANGED <<State, CurrentTerm, VotedFor, stable>>
    /\ resetElectionTimer(n)

\* A panic of the state machine is recovered by net/http: the caller gets no
\* response, and what the handler did up to there stays.
HandleAppendEntries(c) ==
    LET n == c.to
        lower == c.term < CurrentTerm[n]
        check == CheckPrev(rep[n].Log, c.prevLogIndex, c.prevLogTerm)
        resp(success, ci, ct) ==
          [stage |-> "AppendEntriesResp", from |-> c.from, to |-> n, slot |-> c.slot,
           term |-> c.term, prevLogIndex |-> c.prevLogIndex, count |-> Len(c.entries),
           respTerm |-> CurrentTerm[n], success |-> success,
           conflictIndex |-> ci, conflictTerm |-> ct]
    IN  /\ c.stage = "AppendEntries"
        /\ up[n]
        /\ UNCHANGED <<voteVars, leaderVars, procVars, voteCalls>>
        /\ \/ /\ lower
              /\ replCalls' = Answer(replCalls, c, resp(FALSE, 0, 0))
              /\ UNCHANGED <<roleVars, rep, electionTimer>>
           \/ /\ ~lower
              /\ AcceptLeader(n, c, c.term > CurrentTerm[n] \/ State[n] # Follower)
              /\ \/ /\ ~check.ok
                    /\ replCalls' = Answer(replCalls, c,
                         resp(FALSE, check.conflictIndex, check.conflictTerm))
                    /\ UNCHANGED rep
                 \/ /\ check.ok
                    /\ \E saved \in SaveOutcomes :
                         LET out == AcceptEntries(rep[n], c, saved)
                         IN  /\ rep' = [rep EXCEPT ![n] = out.rep]
                             /\ replCalls' = IF out.panic THEN replCalls \ {c}
                                             ELSE Answer(replCalls, c, resp(TRUE, 0, 0))

HandleInstallSnapshot(c) ==
    LET n == c.to
        lower == c.term < CurrentTerm[n]
    IN  /\ c.stage = "InstallSnapshot"
        /\ up[n]
        /\ replCalls' = Answer(replCalls, c,
             [stage |-> "InstallSnapshotResp", from |-> c.from, to |-> n,
              slot |-> c.slot, term |-> c.term,
              lastIncludedIndex |-> c.lastIncludedIndex,
              respTerm |-> CurrentTerm[n], success |-> ~lower])
        /\ \/ lower /\ UNCHANGED <<roleVars, rep, electionTimer>>
           \/ /\ ~lower
              /\ AcceptLeader(n, c, c.term > CurrentTerm[n])
              /\ \E saved \in SaveOutcomes :
                   rep' = [rep EXCEPT ![n] = InstallSnapshot(@, c, saved)]
        /\ UNCHANGED <<voteVars, leaderVars, procVars, voteCalls>>

---------------------------------------------------------------------------
(* The process and the network.                                            *)

Stop(n) ==
    /\ up[n]
    /\ restarts < MaxRestarts
    /\ restarts' = restarts + 1
    /\ Exit(n, voteCalls, replCalls)
    /\ UNCHANGED rep

Start(n) ==
    /\ ~up[n]
    /\ up' = [up EXCEPT ![n] = TRUE]
    /\ CurrentTerm' = [CurrentTerm EXCEPT ![n] = stable[n].term]
    /\ VotedFor' = [VotedFor EXCEPT ![n] = stable[n].votedFor]
    /\ rep' = [rep EXCEPT ![n] = Restored(@)]
    /\ resetElectionTimer(n)
    /\ UNCHANGED <<State, leaderID, stable, voteVars, leaderVars, restarts,
                   voteCalls, replCalls>>

\* A request or a response is lost, or the caller's timeout is up: the
\* goroutine returns without doing anything and a later tick may take its
\* place.  (A vote call that is lost is one that never gets its next step.)
LoseReplCall(c) ==
    /\ c.stage # "spawned"
    /\ replCalls' = replCalls \ {c}
    /\ UNCHANGED <<roleVars, voteVars, leaderVars, procVars, rep, electionTimer,
                   voteCalls>>

NodeStep(n) ==
    \/ handleElectionTimeout(n)
    \/ sendHeartbeats(n)
    \/ HeartbeatsExit(n)
    \/ \E cmd \in Command : AppendEntry(n, cmd)
    \/ Stop(n)
    \/ Start(n)

VoteStep(c) == HandleRequestVote(c) \/ HandleVoteResponse(c)

ReplStep(c) ==
    \/ replicateTo(c)
    \/ HandleAppendEntries(c)
    \/ HandleAppendResponse(c)
    \/ HandleInstallSnapshot(c)
    \/ HandleSnapshotResponse(c)
    \/ LoseReplCall(c)

Next ==
    \/ \E n \in Node : NodeStep(n)
    \/ \E c \in voteCalls : VoteStep(c)
    \/ \E c \in replCalls : ReplStep(c)

Spec == Init /\ [][Next]_vars
============================================================================
