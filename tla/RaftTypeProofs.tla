-------------------------- MODULE RaftTypeProofs --------------------------
(*************************************************************************)
(* TypeOK, proved for every cluster size, number of elections, restarts  *)
(* and calls in flight, with a storage that may fail.                    *)
(*************************************************************************)
EXTENDS RaftSafety, TLAPS

\* Losing a process changes no call but its own, and those only in their
\* waiting flag (Exit).
LEMMA GoneCalls ==
    ASSUME NEW n, NEW calls, NEW responses, NEW d \in Gone(n, calls),
           {"request", "AppendEntries", "InstallSnapshot"} \cap responses = {},
           \A c \in calls : CallOK(c, responses)
    PROVE  /\ CallOK(d, responses)
           /\ \E c \in calls :
                /\ d.from = c.from /\ d.to = c.to /\ d.term = c.term /\ d.stage = c.stage
                /\ d = c \/ (c.from = n /\ c.stage \notin responses)
<1>1. CASE d \in calls /\ d.from # n
  BY <1>1
<1>2. CASE ~(d \in calls /\ d.from # n)
  <2>1. PICK c \in calls :
            /\ c.from = n /\ c.stage \in {"request", "AppendEntries", "InstallSnapshot"}
            /\ d = [c EXCEPT !.waiting = FALSE]
    BY <1>2 DEF Gone
  <2>2. {"stage", "from", "to", "term"} \subseteq DOMAIN c
    BY DEF CallOK
  <2>3. /\ DOMAIN d = DOMAIN c
        /\ d.from = c.from /\ d.to = c.to /\ d.term = c.term /\ d.stage = c.stage
    BY <2>1, <2>2
  <2> QED
    BY <2>1, <2>3 DEF CallOK
<1> QED
  BY <1>1, <1>2

---------------------------------------------------------------------------
(* Type correctness.                                                       *)

\* The state NewNode leaves is well typed.
LEMMA TypeInit == Init => TypeOK
  BY DEF Init, TypeOK, Follower

\* A change of role, term and vote, with the row that keeps them, is well typed
\* (persistState writes one of the rows it was given, or none).
LEMMA TypeSetRole ==
    ASSUME TypeOK, NEW n \in Node, NEW t \in Nat,
           NEW s \in {Follower, Candidate, Leader}, NEW v \in Node \cup {Nil},
           NEW interim \in SUBSET [term : Nat, votedFor : Node \cup {Nil}],
           SetRole(n, s, t, v, interim)
    PROVE  /\ State' \in [Node -> {Follower, Candidate, Leader}]
           /\ CurrentTerm' \in [Node -> Nat]
           /\ VotedFor' \in [Node -> Node \cup {Nil}]
           /\ stable' \in [Node -> [term : Nat, votedFor : Node \cup {Nil}]]
<1>1. PICK row \in interim \cup {stable[n], [term |-> t, votedFor |-> v]} :
          stable' = [stable EXCEPT ![n] = row]
  BY Zenon DEF SetRole, persistState
<1>2. row \in [term : Nat, votedFor : Node \cup {Nil}]
  BY <1>1 DEF TypeOK
<1> QED
  BY <1>1, <1>2 DEF TypeOK, SetRole

\* handleElectionTimeout keeps the types: a new candidate's requests go to the
\* other nodes.
LEMMA TypeTimeout ==
    ASSUME TypeOK, NEW n \in Node, handleElectionTimeout(n)
    PROVE  TypeOK'
<1>1. CASE State[n] = Leader
  BY Zenon, <1>1 DEF TypeOK, handleElectionTimeout, becomeCandidate, Candidate, Leader, SetRole,
              roleVars, voteVars, leaderVars, procVars
<1>2. CASE State[n] # Leader
  <2>1. becomeCandidate(n)
    BY <1>2 DEF handleElectionTimeout
  <2>2. CurrentTerm[n] + 1 \in Nat
    BY SMTT(30), SMTT(45) DEF TypeOK
  <2>3. /\ State' \in [Node -> {Follower, Candidate, Leader}]
        /\ CurrentTerm' \in [Node -> Nat]
        /\ VotedFor' \in [Node -> Node \cup {Nil}]
        /\ stable' \in [Node -> [term : Nat, votedFor : Node \cup {Nil}]]
    BY <2>1, <2>2, TypeSetRole DEF becomeCandidate
  <2>4. /\ leaderID' \in [Node -> Node \cup {Nil}]
        /\ votesReceived' \in [Node -> Nat]
        /\ electionTimer' \in [Node -> BOOLEAN]
        /\ voters' \in [Node -> SUBSET Node]
        /\ votes' \subseteq Node \X Node \X Nat
    BY <2>1, <2>2, SMTT(30), SMTT(45) DEF TypeOK, becomeCandidate, resetElectionTimer
  <2>5. \A c \in voteCalls' : CallOK(c, {"response"})
    BY SMTT(30), SMTT(45), <2>1, <2>2 DEF TypeOK, becomeCandidate, Peers, CallOK
  <2> QED
    BY <2>1, <2>3, <2>4, <2>5
       DEF TypeOK, becomeCandidate, leaderVars, procVars
<1> QED
  BY <1>1, <1>2

\* HandleRequestVote keeps the types, and its response carries the voter's term.
LEMMA TypeVoteRequest ==
    ASSUME TypeOK, NEW c \in voteCalls, HandleRequestVote(c)
    PROVE  TypeOK'
<1> DEFINE n == c.to
           newer == c.term > CurrentTerm[n]
           resp(g) == [stage |-> "response", from |-> c.from, to |-> n, term |-> c.term,
                       respTerm |-> CurrentTerm[n], granted |-> g]
<1>1. n \in Node /\ c.from \in Node /\ n # c.from /\ c.term \in Nat /\ CurrentTerm[n] \in Nat
  BY SMTT(30), SMTT(45) DEF TypeOK, CallOK
<1>2. /\ State' \in [Node -> {Follower, Candidate, Leader}]
      /\ CurrentTerm' \in [Node -> Nat]
      /\ VotedFor' \in [Node -> Node \cup {Nil}]
      /\ stable' \in [Node -> [term : Nat, votedFor : Node \cup {Nil}]]
  <2>1. CASE UNCHANGED <<State, CurrentTerm, VotedFor, stable>>
    BY <2>1 DEF TypeOK
  <2>2. CASE SetRole(n, Follower, c.term, Nil, {})
    BY Zenon, <2>2, <1>1, TypeSetRole
  <2>3. CASE SetRole(n, IF newer THEN Follower ELSE State[n], c.term, c.from,
                     IF newer THEN {[term |-> c.term, votedFor |-> Nil]} ELSE {})
    <3>1. (IF newer THEN Follower ELSE State[n]) \in {Follower, Candidate, Leader}
      BY <1>1 DEF TypeOK
    <3>2. (IF newer THEN {[term |-> c.term, votedFor |-> Nil]} ELSE {})
            \in SUBSET [term : Nat, votedFor : Node \cup {Nil}]
      BY <1>1
    <3> QED
      BY <3>1, <3>2, <2>3, <1>1, TypeSetRole
  <2> QED
    BY <2>1, <2>2, <2>3 DEF HandleRequestVote
<1>3. /\ electionTimer' \in [Node -> BOOLEAN]
      /\ votes' \subseteq Node \X Node \X Nat
      /\ leaderID' \in [Node -> Node \cup {Nil}]
  <2>1. electionTimer' = electionTimer \/ electionTimer' = [electionTimer EXCEPT ![n] = TRUE]
    BY DEF HandleRequestVote, resetElectionTimer
  <2>2. votes' = votes \/ votes' = votes \cup {<<n, c.from, c.term>>}
    BY Zenon DEF HandleRequestVote
  <2>3. leaderID' = [leaderID EXCEPT ![n] = IF newer THEN Nil ELSE @]
    BY DEF HandleRequestVote
  <2>4. electionTimer' \in [Node -> BOOLEAN]
    BY Zenon, <1>1, <2>1 DEF TypeOK
  <2>5. votes' \subseteq Node \X Node \X Nat
    BY <1>1, <2>2 DEF TypeOK
  <2>6. leaderID' \in [Node -> Node \cup {Nil}]
    BY <1>1, <2>3 DEF TypeOK
  <2> QED
    BY <2>4, <2>5, <2>6, SMTT(30), SMTT(45)
<1>4. \E g : voteCalls' = Answer(voteCalls, c, resp(g))
  BY Zenon DEF HandleRequestVote
<1>5. \A d \in voteCalls' : CallOK(d, {"response"})
  BY <1>1, <1>4 DEF TypeOK, CallOK, Answer
<1> QED
  BY Zenon, <1>2, <1>3, <1>5 DEF TypeOK, HandleRequestVote, leaderVars, procVars

\* becomeFollower keeps the types of what it assigns.
LEMMA TypeBecomeFollower ==
    ASSUME TypeOK, NEW n \in Node, NEW t \in Nat, becomeFollower(n, t)
    PROVE  /\ State' \in [Node -> {Follower, Candidate, Leader}]
           /\ CurrentTerm' \in [Node -> Nat]
           /\ VotedFor' \in [Node -> Node \cup {Nil}]
           /\ stable' \in [Node -> [term : Nat, votedFor : Node \cup {Nil}]]
           /\ leaderID' \in [Node -> Node \cup {Nil}]
           /\ electionTimer' \in [Node -> BOOLEAN]
<1>1. SetRole(n, Follower, t, Nil, {}) /\ leaderID' = leaderID
      /\ electionTimer' = [electionTimer EXCEPT ![n] = TRUE]
  BY DEF becomeFollower, resetElectionTimer
<1>2. electionTimer' \in [Node -> BOOLEAN]
  BY <1>1 DEF TypeOK
<1>3. leaderID' \in [Node -> Node \cup {Nil}]
  BY <1>1, SMTT(30), SMTT(45) DEF TypeOK
<1> QED
  BY Zenon, <1>1, <1>2, <1>3, TypeSetRole

\* The goroutine of becomeCandidate keeps the types when its response is in.
LEMMA TypeVoteResponse ==
    ASSUME TypeOK, NEW c \in voteCalls, HandleVoteResponse(c)
    PROVE  TypeOK'
<1> DEFINE n == c.from
<1>1. /\ n \in Node /\ c.to \in Node /\ c.respTerm \in Nat /\ CurrentTerm[n] \in Nat
      /\ voteCalls' = voteCalls \ {c}
  BY DEF TypeOK, CallOK, HandleVoteResponse
<1>2. CASE UNCHANGED <<roleVars, votesReceived, voters, elected, leaderVars, electionTimer>>
  BY <1>1, <1>2, SMTT(30), SMTT(45) DEF TypeOK, HandleVoteResponse, roleVars, leaderVars, procVars
<1>3. CASE /\ becomeFollower(n, c.respTerm)
           /\ UNCHANGED <<votesReceived, voters, elected, leaderVars>>
  BY <1>1, <1>3, TypeBecomeFollower, SMTT(30), SMTT(45) DEF TypeOK, HandleVoteResponse, leaderVars, procVars
<1>4. CASE /\ votesReceived' = [votesReceived EXCEPT ![n] = @ + 1]
           /\ voters' = [voters EXCEPT ![n] = @ \cup {c.to}]
           /\ \/ becomeLeader(n, voters[n] \cup {c.to})
              \/ UNCHANGED <<roleVars, elected, leaderVars, electionTimer>>
  <2>1. votesReceived' \in [Node -> Nat] /\ voters' \in [Node -> SUBSET Node]
    BY <1>1, <1>4 DEF TypeOK
  <2>2. /\ leaderID' \in [Node -> Node \cup {Nil}]
        /\ State' \in [Node -> {Follower, Candidate, Leader}]
        /\ UNCHANGED <<CurrentTerm, VotedFor, stable, electionTimer>>
    BY Zenon, <1>1, <1>4 DEF TypeOK, becomeLeader, roleVars
  <2>3. elected' \subseteq [node : Node, term : Nat, quorum : SUBSET Node]
    BY <1>1, <1>4, SMTT(30), SMTT(45) DEF TypeOK, becomeLeader
  <2>4. heartbeat' \in [Node -> {"off", "running", "exiting"}]
    BY <1>1, <1>4, SMTT(30), SMTT(45) DEF TypeOK, becomeLeader, leaderVars
  <2> QED
    BY <1>1, <2>1, <2>2, <2>3, <2>4, SMTT(30), SMTT(45) DEF TypeOK, HandleVoteResponse, procVars
<1> QED
  BY <1>2, <1>3, <1>4, SMTT(30), SMTT(45) DEF HandleVoteResponse

\* sendHeartbeats keeps the types: it spawns calls to the other nodes.
LEMMA TypeHeartbeats ==
    ASSUME TypeOK, NEW n \in Node, sendHeartbeats(n) \/ HeartbeatsExit(n)
    PROVE  TypeOK'
<1>1. heartbeat' \in [Node -> {"off", "running", "exiting"}]
  BY ZenonT(60) DEF TypeOK, sendHeartbeats, HeartbeatsExit
<1>2. \A d \in replCalls' : CallOK(d, {"AppendEntriesResp", "InstallSnapshotResp"})
  <2>1. CASE replCalls' = replCalls
    BY <2>1 DEF TypeOK
  <2>2. CASE replCalls' # replCalls
    <3>1. PICK p \in Peers(n) : replCalls' = replCalls \cup
               {[stage |-> "spawned", from |-> n, to |-> p,
                 slot |-> Least(FreeSlots(n, p)),
                 term |-> CurrentTerm[n], leaderCommit |-> rep[n].CommitIndex]}
      BY <2>2 DEF sendHeartbeats, HeartbeatsExit
    <3> QED
      BY <3>1, SMTT(30), SMTT(45) DEF TypeOK, CallOK, Peers
  <2> QED
    BY <2>1, <2>2
<1> QED
  BY <1>1, <1>2 DEF TypeOK, sendHeartbeats, HeartbeatsExit, roleVars, voteVars, procVars

\* The request replicateTo sends is a call of the same goroutine.
LEMMA RequestBuilt ==
    ASSUME NEW c, replicateTo(c)
    PROVE  \E d : /\ replCalls' = (replCalls \ {c}) \cup {d}
                  /\ {"stage", "from", "to", "term"} \subseteq DOMAIN d
                  /\ d.stage \in {"InstallSnapshot", "AppendEntries"}
                  /\ d.from = c.from /\ d.to = c.to /\ d.term = c.term
<1> DEFINE r == rep[c.from]
           nextIdx == nextIndex[c.from][c.to]
           snapshot ==
             [stage |-> "InstallSnapshot", from |-> c.from, to |-> c.to,
              slot |-> c.slot, term |-> c.term, waiting |-> TRUE,
              lastIncludedIndex |-> r.lastSnapshotIndex,
              lastIncludedTerm |-> r.lastSnapshotTerm, data |-> SnapshotData(r)]
           append ==
             [stage |-> "AppendEntries", from |-> c.from, to |-> c.to,
              slot |-> c.slot, term |-> c.term, waiting |-> TRUE,
              prevLogIndex |-> nextIdx - 1,
              prevLogTerm |-> PrevLogTerm(r.Log, nextIdx - 1),
              entries |-> Wire(EntriesFrom(r.Log, nextIdx, MaxEntriesPerAppend)),
              leaderCommit |-> c.leaderCommit]
<1>1. \/ replCalls' = (replCalls \ {c}) \cup {snapshot}
      \/ replCalls' = (replCalls \ {c}) \cup {append}
  BY Zenon DEF replicateTo
<1>2. /\ {"stage", "from", "to", "term"} \subseteq DOMAIN snapshot
      /\ snapshot.stage = "InstallSnapshot"
      /\ snapshot.from = c.from /\ snapshot.to = c.to /\ snapshot.term = c.term
  BY Zenon
<1>3. /\ {"stage", "from", "to", "term"} \subseteq DOMAIN append
      /\ append.stage = "AppendEntries"
      /\ append.from = c.from /\ append.to = c.to /\ append.term = c.term
  BY ZenonT(60)
<1> HIDE DEF snapshot, append
<1> QED
  BY Zenon, <1>1, <1>2, <1>3

\* replicateTo keeps the types.
LEMMA TypeReplicateTo ==
    ASSUME TypeOK, NEW c \in replCalls, replicateTo(c)
    PROVE  TypeOK'
<1>1. \A d \in replCalls' : CallOK(d, {"AppendEntriesResp", "InstallSnapshotResp"})
  BY SMTT(30), SMTT(45), RequestBuilt DEF TypeOK, CallOK
<1> QED
  BY <1>1, ZenonT(30) DEF TypeOK, replicateTo, roleVars, voteVars, leaderVars, procVars

\* The end of a process keeps the types (Stop, and a panic in a goroutine).
LEMMA TypeExit ==
    ASSUME TypeOK, NEW n \in Node, NEW calls \in SUBSET replCalls,
           Exit(n, voteCalls, calls), restarts' \in Nat
    PROVE  TypeOK'
<1>1. \A d \in voteCalls' : CallOK(d, {"response"})
  BY GoneCalls, SMTT(30), SMTT(45) DEF TypeOK, Exit
<1>2. \A d \in replCalls' : CallOK(d, {"AppendEntriesResp", "InstallSnapshotResp"})
  BY SMTT(30), SMTT(45), GoneCalls DEF TypeOK, Exit
<1>3. /\ State' \in [Node -> {Follower, Candidate, Leader}]
      /\ leaderID' \in [Node -> Node \cup {Nil}]
      /\ heartbeat' \in [Node -> {"off", "running", "exiting"}]
      /\ voters' \in [Node -> SUBSET Node]
      /\ votesReceived' \in [Node -> Nat]
  BY DEF TypeOK, Exit
<1>4. up' \in [Node -> BOOLEAN] /\ electionTimer' \in [Node -> BOOLEAN]
  BY Zenon DEF TypeOK, Exit
<1> QED
  BY <1>1, <1>2, <1>3, <1>4, SMTT(30), SMTT(45) DEF TypeOK, Exit

\* replicateTo keeps the types after AppendEntries returned.
LEMMA TypeAppendResponse ==
    ASSUME TypeOK, NEW c \in replCalls, HandleAppendResponse(c)
    PROVE  TypeOK'
<1> DEFINE n == c.from
<1>1. c.stage = "AppendEntriesResp" /\ votes' = votes
  BY ZenonT(30) DEF HandleAppendResponse
<1>2. n \in Node /\ c.respTerm \in Nat
  BY <1>1, SMTT(30), SMTT(45) DEF TypeOK, CallOK
<1>3. CASE /\ becomeFollower(n, c.respTerm)
           /\ replCalls' = replCalls \ {c}
           /\ UNCHANGED <<votesReceived, voters, elected, leaderVars, procVars, voteCalls>>
  BY <1>1, <1>2, <1>3, TypeBecomeFollower DEF TypeOK, leaderVars, procVars
<1>4. CASE /\ replCalls' = replCalls \ {c}
           /\ UNCHANGED <<roleVars, votesReceived, voters, elected, heartbeat,
                          procVars, electionTimer, voteCalls>>
  BY <1>1, <1>4 DEF TypeOK, roleVars, procVars
<1>5. CASE Exit(n, voteCalls, replCalls \ {c}) /\ UNCHANGED restarts
  <2>1. restarts' \in Nat
    BY <1>5 DEF TypeOK
  <2> QED
    BY <1>2, <1>5, <2>1, TypeExit
<1> QED
  BY Zenon, <1>3, <1>4, <1>5 DEF HandleAppendResponse, leaderVars

\* replicateTo keeps the types after InstallSnapshot returned.
LEMMA TypeSnapshotResponse ==
    ASSUME TypeOK, NEW c \in replCalls, HandleSnapshotResponse(c)
    PROVE  TypeOK'
<1>1. c.from \in Node /\ c.respTerm \in Nat /\ replCalls' = replCalls \ {c}
  BY Zenon DEF TypeOK, CallOK, HandleSnapshotResponse
<1>2. CASE becomeFollower(c.from, c.respTerm)
  BY <1>1, <1>2, TypeBecomeFollower, SMTT(30), SMTT(45) DEF TypeOK, HandleSnapshotResponse, voteVars, procVars
<1>3. CASE UNCHANGED <<roleVars, electionTimer>>
  BY <1>1, <1>3 DEF TypeOK, HandleSnapshotResponse, roleVars, voteVars, procVars
<1> QED
  BY <1>2, <1>3 DEF HandleSnapshotResponse

\* AppendEntry keeps the types.
LEMMA TypeAppendEntry ==
    ASSUME TypeOK, NEW n \in Node, NEW cmd, AppendEntry(n, cmd)
    PROVE  TypeOK'
  BY Zenon DEF TypeOK, AppendEntry, roleVars, voteVars, procVars

\* Taking note of a leader keeps the types (the first part of
\* HandleAppendEntries and HandleInstallSnapshot).
LEMMA TypeAcceptLeader ==
    ASSUME TypeOK, NEW n \in Node, NEW c, c.from \in Node, c.term \in Nat,
           NEW b, AcceptLeader(n, c, b)
    PROVE  /\ State' \in [Node -> {Follower, Candidate, Leader}]
           /\ CurrentTerm' \in [Node -> Nat]
           /\ VotedFor' \in [Node -> Node \cup {Nil}]
           /\ stable' \in [Node -> [term : Nat, votedFor : Node \cup {Nil}]]
           /\ leaderID' \in [Node -> Node \cup {Nil}]
           /\ electionTimer' \in [Node -> BOOLEAN]
<1>1. electionTimer' = [electionTimer EXCEPT ![n] = TRUE]
  BY DEF AcceptLeader, resetElectionTimer
<1>2. electionTimer' \in [Node -> BOOLEAN]
  BY <1>1 DEF TypeOK
<1>3. leaderID' \in [Node -> Node \cup {Nil}]
  BY DEF TypeOK, AcceptLeader
<1>4. CASE SetRole(n, Follower, c.term, Nil, {})
  BY Zenon, <1>2, <1>3, <1>4, TypeSetRole
<1>5. CASE UNCHANGED <<State, CurrentTerm, VotedFor, stable>>
  BY <1>2, <1>3, <1>5 DEF TypeOK
<1> QED
  BY <1>4, <1>5 DEF AcceptLeader

\* Whatever HandleAppendEntries does to the log, the call is answered or gone.
LEMMA AppendAnswer ==
    ASSUME NEW c, HandleAppendEntries(c)
    PROVE  \/ replCalls' = replCalls \ {c}
           \/ \E ok, ci, ct : replCalls' = Answer(replCalls, c,
                [stage |-> "AppendEntriesResp", from |-> c.from, to |-> c.to,
                 slot |-> c.slot, term |-> c.term, prevLogIndex |-> c.prevLogIndex,
                 count |-> Len(c.entries), respTerm |-> CurrentTerm[c.to],
                 success |-> ok, conflictIndex |-> ci, conflictTerm |-> ct])
  BY ZenonT(90) DEF HandleAppendEntries

\* HandleAppendEntries keeps the types.
LEMMA TypeAppendEntries ==
    ASSUME TypeOK, NEW c \in replCalls, HandleAppendEntries(c)
    PROVE  TypeOK'
<1> DEFINE R == {"AppendEntriesResp", "InstallSnapshotResp"}
<1>1. c.from \in Node /\ c.to \in Node /\ c.to # c.from /\ c.term \in Nat
  BY DEF TypeOK, CallOK
<1>2. \A d \in replCalls' : CallOK(d, R)
  <2>1. CASE replCalls' = replCalls \ {c}
    BY <2>1 DEF TypeOK
  <2>2. ASSUME NEW ok, NEW ci, NEW ct,
               replCalls' = Answer(replCalls, c,
                [stage |-> "AppendEntriesResp", from |-> c.from, to |-> c.to,
                 slot |-> c.slot, term |-> c.term, prevLogIndex |-> c.prevLogIndex,
                 count |-> Len(c.entries), respTerm |-> CurrentTerm[c.to],
                 success |-> ok, conflictIndex |-> ci, conflictTerm |-> ct])
        PROVE  \A d \in replCalls' : CallOK(d, R)
    BY <1>1, <2>2 DEF TypeOK, CallOK, Answer
  <2> QED
    BY Zenon, <2>1, <2>2, AppendAnswer
<1>3. CASE UNCHANGED <<roleVars, electionTimer>>
  BY Zenon, <1>2, <1>3 DEF TypeOK, HandleAppendEntries, roleVars, voteVars, leaderVars, procVars
<1>4. CASE AcceptLeader(c.to, c, c.term > CurrentTerm[c.to] \/ State[c.to] # Follower)
  BY Zenon, <1>1, <1>2, <1>4, TypeAcceptLeader
     DEF TypeOK, HandleAppendEntries, voteVars, leaderVars, procVars
<1> QED
  BY Zenon, <1>3, <1>4 DEF HandleAppendEntries

\* HandleInstallSnapshot keeps the types.
LEMMA TypeInstallSnapshot ==
    ASSUME TypeOK, NEW c \in replCalls, HandleInstallSnapshot(c)
    PROVE  TypeOK'
<1>1. c.from \in Node /\ c.to \in Node /\ c.to # c.from /\ c.term \in Nat
  BY ZenonT(60) DEF TypeOK, CallOK
<1>2. \A d \in replCalls' : CallOK(d, {"AppendEntriesResp", "InstallSnapshotResp"})
  BY SMTT(30), SMTT(45), <1>1 DEF TypeOK, CallOK, Answer, HandleInstallSnapshot
<1>3. CASE UNCHANGED <<roleVars, electionTimer>>
  BY Zenon, <1>2, <1>3 DEF TypeOK, HandleInstallSnapshot, roleVars, voteVars, leaderVars, procVars
<1>4. CASE AcceptLeader(c.to, c, c.term > CurrentTerm[c.to])
  BY Zenon, <1>1, <1>2, <1>4, TypeAcceptLeader
     DEF TypeOK, HandleInstallSnapshot, voteVars, leaderVars, procVars
<1> QED
  BY Zenon, <1>3, <1>4 DEF HandleInstallSnapshot

\* Start keeps the types: what LoadState returns is a term and a vote.
LEMMA TypeStart ==
    ASSUME TypeOK, NEW n \in Node, Start(n)
    PROVE  TypeOK'
<1>1. /\ up' = [up EXCEPT ![n] = TRUE]
      /\ electionTimer' = [electionTimer EXCEPT ![n] = TRUE]
  BY DEF Start, resetElectionTimer
<1>2. up' \in [Node -> BOOLEAN] /\ electionTimer' \in [Node -> BOOLEAN]
  BY <1>1, SMTT(30), SMTT(45) DEF TypeOK
<1>3. CurrentTerm' \in [Node -> Nat] /\ VotedFor' \in [Node -> Node \cup {Nil}]
  BY DEF TypeOK, Start
<1> QED
  BY Zenon, <1>2, <1>3 DEF TypeOK, Start, voteVars, leaderVars

\* Every step of the node, its goroutines and the network keeps the types.
LEMMA TypeStep == TypeOK /\ [Next]_vars => TypeOK'
<1> SUFFICES ASSUME TypeOK, [Next]_vars PROVE TypeOK'
  OBVIOUS
<1>1. ASSUME NEW n \in Node, NodeStep(n) PROVE TypeOK'
  <2>1. CASE Stop(n)
    <3>1. Exit(n, voteCalls, replCalls) /\ restarts' = restarts + 1
      BY <2>1 DEF Stop
    <3>2. restarts' \in Nat
      BY <3>1 DEF TypeOK
    <3> QED
      BY <3>1, <3>2, TypeExit
  <2> QED
    BY <1>1, <2>1, TypeTimeout, TypeHeartbeats, TypeAppendEntry, TypeStart DEF NodeStep
<1>2. ASSUME NEW c \in voteCalls, VoteStep(c) PROVE TypeOK'
  BY <1>2, TypeVoteRequest, TypeVoteResponse DEF VoteStep
<1>3. ASSUME NEW c \in replCalls, ReplStep(c) PROVE TypeOK'
  <2>1. CASE LoseReplCall(c)
    BY <2>1, SMTT(30), SMTT(45) DEF TypeOK, LoseReplCall, roleVars, voteVars, leaderVars, procVars
  <2> QED
    BY SMTT(30), SMTT(45), <1>3, <2>1, TypeReplicateTo, TypeAppendEntries, TypeAppendResponse,
       TypeInstallSnapshot, TypeSnapshotResponse DEF ReplStep
<1>4. CASE UNCHANGED vars
  BY <1>4 DEF TypeOK, vars, roleVars, voteVars, leaderVars, procVars
<1> QED
  BY <1>1, <1>2, <1>3, <1>4 DEF Next

\* Type correctness of the node's fields and of the calls in flight, with a
\* storage that may fail, for every cluster.
THEOREM TypeCorrect == Spec => []TypeOK
  BY TypeInit, TypeStep, PTL DEF Spec

============================================================================
