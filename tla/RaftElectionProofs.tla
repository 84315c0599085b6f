------------------------ MODULE RaftElectionProofs ------------------------
(*************************************************************************)
(* ElectionSafety, proved for every cluster size, number of elections,   *)
(* restarts and calls in flight.                                         *)
(*************************************************************************)
EXTENDS RaftVoteProofs

---------------------------------------------------------------------------
(* The steps that cannot change an election.                               *)

\* A step that leaves terms, votes and vote calls alone keeps the invariant if
\* the replication calls it leaves are those of winners.
LEMMA ElectionKept ==
    ASSUME TypeOK, TypeOK', ElectionInv,
           UNCHANGED <<State, CurrentTerm, VotedFor, stable, voteVars, voteCalls>>,
           \A d \in replCalls' : Won(d.from, d.term)
    PROVE  ElectionInv'
<1>1. CoreInv'
  BY CoreKept, SMTT(30), SMTT(45) DEF ElectionInv, CoreInv, voteVars
<1>2. CallsInv'
  BY DEF ElectionInv, CallsInv, Won, voteVars
<1> QED
  BY <1>1, <1>2, SMTT(30), SMTT(45) DEF CoreInv, ElectionInv

\* Stepping down for a newer term keeps the invariant (becomeFollower).
LEMMA ElectionFollow ==
    ASSUME SaveMayFail = FALSE, TypeOK, TypeOK', ElectionInv,
           NEW n \in Node, NEW t \in Nat, SetRole(n, Follower, t, Nil, {}),
           \/ t > CurrentTerm[n]
           \/ /\ t = CurrentTerm[n]
              /\ State[n] # Follower
              /\ \E l \in Node \ {n} : Won(l, t),
           UNCHANGED voteVars, voteCalls' \subseteq voteCalls,
           \A d \in replCalls' : \E c \in replCalls : d.from = c.from /\ d.term = c.term
    PROVE  ElectionInv'
<1>1. /\ State' = [State EXCEPT ![n] = Follower]
      /\ CurrentTerm' = [CurrentTerm EXCEPT ![n] = t]
      /\ VotedFor' = [VotedFor EXCEPT ![n] = Nil]
      /\ stable' = [stable EXCEPT ![n] = [term |-> t, votedFor |-> Nil]]
  BY Zenon DEF SetRole, persistState
<1>2. CoreInv'
  BY ZenonT(60), <1>1, CoreStepDown DEF ElectionInv, CoreInv, voteVars
<1>3. \A m \in Node :
        /\ CurrentTerm'[m] >= CurrentTerm[m]
        /\ State'[m] = Candidate =>
             /\ State[m] = Candidate
             /\ CurrentTerm'[m] = CurrentTerm[m]
             /\ voters'[m] = voters[m]
  BY <1>1, SMTT(30), SMTT(45) DEF TypeOK, voteVars, Follower, Candidate
<1>4. CallsInv'
  BY <1>3, CallsKept DEF ElectionInv, voteVars
<1> QED
  BY <1>2, <1>4 DEF CoreInv, ElectionInv

\* The end of a process keeps the invariant: its term and its vote are in
\* raft_state, its unanswered requests can still be voted on but not counted.
LEMMA ElectionExit ==
    ASSUME TypeOK, TypeOK', ElectionInv, NEW n \in Node, NEW calls \in SUBSET replCalls,
           Exit(n, voteCalls, calls)
    PROVE  ElectionInv'
<1>1. /\ State' = [State EXCEPT ![n] = Follower]
      /\ voters' = [voters EXCEPT ![n] = {}]
      /\ votesReceived' = [votesReceived EXCEPT ![n] = 0]
      /\ voteCalls' = Gone(n, voteCalls)
      /\ replCalls' = Gone(n, calls)
      /\ UNCHANGED <<CurrentTerm, VotedFor, stable, votes, elected>>
  BY ZenonT(60) DEF Exit
<1>2. QuorumInv' /\ VotesInv' /\ StableInv'
  BY SMTT(30), SMTT(45), <1>1 DEF TypeOK, ElectionInv, QuorumInv, VotesInv, StableInv, Decided
<1>3. CandidateInv'
  BY <1>1, SMTT(30), SMTT(45) DEF TypeOK, ElectionInv, CandidateInv, Won, Follower, Candidate, Leader
<1>4. \A m \in Node :
        /\ CurrentTerm'[m] >= CurrentTerm[m]
        /\ State'[m] = Candidate =>
             /\ State[m] = Candidate
             /\ CurrentTerm'[m] = CurrentTerm[m]
             /\ voters'[m] = voters[m]
  BY <1>1, SMTT(30), SMTT(45) DEF TypeOK, Follower, Candidate
<1>5. \A d \in voteCalls' : \E c \in voteCalls :
        /\ d.from = c.from /\ d.to = c.to /\ d.term = c.term /\ d.stage = c.stage
        /\ d = c \/ c.stage # "response"
  BY SMTT(30), SMTT(45), <1>1, GoneCalls DEF TypeOK
<1>6. \A d, f \in voteCalls' :
        d.from = f.from /\ d.to = f.to /\ d.term = f.term => d = f
  <2>1. \A c, d \in voteCalls :
           c.from = d.from /\ c.to = d.to /\ c.term = d.term => c = d
    BY Zenon DEF ElectionInv, CallsInv
  <2>2. \A c \in voteCalls : CallOK(c, {"response"})
    BY DEF TypeOK
  <2>3. {"request", "AppendEntries", "InstallSnapshot"} \cap {"response"} = {}
    OBVIOUS
  <2>4. \A d, f \in Gone(n, voteCalls) :
           d.from = f.from /\ d.to = f.to /\ d.term = f.term => d = f
    BY Zenon, <2>1, <2>2, <2>3, GoneApart
  <2> QED
    BY <1>1, <2>4
<1>7. \A d \in replCalls' : \E c \in replCalls : d.from = c.from /\ d.term = c.term
  <2>1. \A c \in calls : CallOK(c, {"AppendEntriesResp", "InstallSnapshotResp"})
    BY DEF TypeOK
  <2>2. ASSUME NEW d \in Gone(n, calls)
        PROVE  \E c \in calls : d.from = c.from /\ d.term = c.term
    <3>1. PICK c \in calls : \/ d = c
                             \/ d = [c EXCEPT !.waiting = FALSE]
      BY DEF Gone
    <3>2. d.from = c.from /\ d.term = c.term
      BY ZenonT(60), <2>1, <3>1 DEF CallOK
    <3> QED
      BY <3>2
  <2> QED
    BY <1>1, <2>2, SMTT(30), SMTT(45)
<1>8. \A d \in voteCalls' :
        d.stage = "response" /\ d.granted => <<d.to, d.from, d.term>> \in votes'
  BY <1>1, <1>5, SMTT(30), SMTT(45) DEF ElectionInv, CallsInv
<1>9. CallsInv'
  BY ZenonT(30), <1>1, <1>4, <1>5, <1>6, <1>7, <1>8, CallsFollow DEF ElectionInv
<1> QED
  BY <1>2, <1>3, <1>9, SMTT(30), SMTT(45) DEF ElectionInv

\* The row of raft_state is up to date, so that a restart changes nothing.
LEMMA ElectionStart ==
    ASSUME TypeOK, TypeOK', ElectionInv, NEW n \in Node, Start(n)
    PROVE  ElectionInv'
<1>1. CurrentTerm' = CurrentTerm /\ VotedFor' = VotedFor
  BY DEF TypeOK, ElectionInv, StableInv, Start
<1> QED
  BY ZenonT(30), <1>1, ElectionKept DEF Start, ElectionInv, CallsInv

---------------------------------------------------------------------------
(* The steps of an election.                                               *)

\* A new candidate's calls carry a term that none of its earlier calls has.
LEMMA ElectionTimeout ==
    ASSUME SaveMayFail = FALSE, TypeOK, TypeOK', ElectionInv, NEW n \in Node,
           handleElectionTimeout(n)
    PROVE  ElectionInv'
<1>1. CASE UNCHANGED <<roleVars, voteVars, voteCalls, replCalls>>
  BY <1>1, ElectionKept, SMTT(30), SMTT(45) DEF roleVars, ElectionInv, CallsInv
<1>2. CASE becomeCandidate(n)
  <2> DEFINE t == CurrentTerm[n] + 1
             new(p) == [stage |-> "request", from |-> n, to |-> p, term |-> t,
                        waiting |-> TRUE, lastLogIndex |-> lastLogIndex(rep[n].Log),
                        lastLogTerm |-> lastLogTerm(rep[n].Log)]
  <2>1. CoreInv'
    BY ZenonT(60), <1>2, CoreCandidate DEF CoreInv, ElectionInv
  <2>2. /\ State' = [State EXCEPT ![n] = Candidate]
        /\ CurrentTerm' = [CurrentTerm EXCEPT ![n] = t]
        /\ voters' = [voters EXCEPT ![n] = {n}]
        /\ votes' = votes \cup {<<n, n, t>>}
        /\ voteCalls' = voteCalls \cup {new(p) : p \in Peers(n)}
        /\ UNCHANGED <<elected, replCalls>>
    BY <1>2, SMTT(30), SMTT(45) DEF becomeCandidate, SetRole
  <2>3. CurrentTerm[n] \in Nat /\ t \in Nat /\ t > CurrentTerm[n]
    BY SMTT(30), SMTT(45) DEF TypeOK
  <2>4. \A p : new(p).from = n /\ new(p).to = p /\ new(p).term = t
                 /\ new(p).stage = "request"
    OBVIOUS
  <2> HIDE DEF t, new
  <2>5. ASSUME NEW c \in voteCalls
        PROVE  c.from \in Node /\ c.term \in Nat /\ (c.from = n => c.term < t)
    <3>1. c.from \in Node /\ c.term \in Nat
      BY DEF TypeOK, CallOK
    <3>2. c.term <= CurrentTerm[c.from]
      BY Zenon DEF ElectionInv, CallsInv
    <3> QED
      BY SMTT(30), SMTT(45), <2>3, <3>1, <3>2
  <2>6. ASSUME NEW c \in voteCalls
        PROVE  /\ c.term <= CurrentTerm'[c.from]
               /\ State'[c.from] = Candidate /\ CurrentTerm'[c.from] = c.term
                    => c.to \notin voters'[c.from]
               /\ c.stage = "response" /\ c.granted
                    => <<c.to, c.from, c.term>> \in votes'
    <3>1. /\ c.term <= CurrentTerm[c.from]
          /\ State[c.from] = Candidate /\ CurrentTerm[c.from] = c.term
               => c.to \notin voters[c.from]
          /\ c.stage = "response" /\ c.granted => <<c.to, c.from, c.term>> \in votes
      BY DEF ElectionInv, CallsInv
    <3>2. c.from \in Node /\ c.term \in Nat /\ (c.from = n => c.term < t)
      BY <2>5, SMTT(30), SMTT(45)
    <3>3. CASE c.from = n
      <4>1. CurrentTerm'[n] = t
        BY Zenon, <2>2 DEF TypeOK
      <4> QED
        BY <2>2, <2>3, <3>1, <3>2, <3>3, <4>1, SMTT(30), SMTT(45)
    <3>4. CASE c.from # n
      BY SMTT(30), SMTT(45), <2>2, <3>1, <3>2, <3>4 DEF TypeOK
    <3> QED
      BY <3>3, <3>4, SMTT(30), SMTT(45)
  <2>7. \A p \in Peers(n) :
          /\ new(p).term <= CurrentTerm'[n]
          /\ p \notin voters'[n]
    BY SMTT(30), SMTT(45), <2>2, <2>3, <2>4 DEF TypeOK, Peers
  <2>8. \A c, d \in voteCalls' :
          c.from = d.from /\ c.to = d.to /\ c.term = d.term => c = d
    <3> SUFFICES ASSUME NEW c \in voteCalls', NEW d \in voteCalls',
                        c.from = d.from, c.to = d.to, c.term = d.term
                 PROVE  c = d
      BY Zenon
    <3>1. CASE c \in voteCalls /\ d \in voteCalls
      BY ZenonT(60), <3>1 DEF ElectionInv, CallsInv
    <3>2. CASE c \in voteCalls /\ d \notin voteCalls
      BY <2>2, <2>3, <2>4, <2>5, <3>2, SMTT(30), SMTT(45)
    <3>3. CASE c \notin voteCalls /\ d \in voteCalls
      BY <2>2, <2>3, <2>4, <2>5, <3>3, SMTT(30), SMTT(45)
    <3>4. CASE c \notin voteCalls /\ d \notin voteCalls
      <4>1. PICK p \in Peers(n) : c = new(p)
        BY <2>2, <3>4, SMTT(30), SMTT(45)
      <4>2. PICK q \in Peers(n) : d = new(q)
        BY <2>2, <3>4, SMTT(30), SMTT(45)
      <4> QED
        BY <2>4, <4>1, <4>2, SMTT(30), SMTT(45)
    <3> QED
      BY <3>1, <3>2, <3>3, <3>4, SMTT(30), SMTT(45)
  <2>9. \A c \in voteCalls' \ voteCalls :
          /\ c.term <= CurrentTerm'[c.from]
          /\ c.to \notin voters'[c.from]
          /\ c.stage # "response"
    BY SMTT(30), SMTT(45), <2>2, <2>4, <2>7
  <2>10. CallsInv'
    <3>1. \A d \in replCalls' : Won(d.from, d.term)'
      BY <2>2 DEF ElectionInv, CallsInv, Won
    <3> QED
      BY Zenon, <3>1, <2>6, <2>8, <2>9 DEF CallsInv
  <2> QED
    BY <2>1, <2>10, SMTT(30), SMTT(45) DEF CoreInv, ElectionInv
<1> QED
  BY ZenonT(60), <1>1, <1>2 DEF handleElectionTimeout

\* HandleRequestVote keeps the invariant, granting, stepping down or refusing.
LEMMA ElectionVoteRequest ==
    ASSUME SaveMayFail = FALSE, TypeOK, TypeOK', ElectionInv, NEW c \in voteCalls,
           HandleRequestVote(c)
    PROVE  ElectionInv'
<1> DEFINE n == c.to
           newer == c.term > CurrentTerm[n]
           voted == IF newer THEN Nil ELSE VotedFor[n]
           grant == c.term >= CurrentTerm[n] /\ Grants(c, voted, rep[n])
           resp == [stage |-> "response", from |-> c.from, to |-> n, term |-> c.term,
                    respTerm |-> CurrentTerm[n], granted |-> grant]
<1>1. /\ n \in Node /\ c.from \in Node \ {n} /\ c.term \in Nat
      /\ CurrentTerm[n] \in Nat /\ State[n] \in {Follower, Candidate, Leader}
  BY Zenon DEF TypeOK, CallOK
<1>2. /\ UNCHANGED <<votesReceived, voters, elected, replCalls>>
      /\ voteCalls' = Answer(voteCalls, c, resp)
  BY Zenon DEF HandleRequestVote
<1>3. /\ CoreInv' /\ votes \subseteq votes'
      /\ grant => <<c.to, c.from, c.term>> \in votes'
      /\ \A m \in Node :
           /\ CurrentTerm'[m] >= CurrentTerm[m]
           /\ State'[m] = Candidate =>
                State[m] = Candidate /\ CurrentTerm'[m] = CurrentTerm[m]
  <2>1. CASE grant
    <3>1. /\ c.term >= CurrentTerm[n] /\ (c.term = CurrentTerm[n] => VotedFor[n] \in {Nil, c.from})
      BY SMTT(30), SMTT(45), <1>1, <2>1 DEF Grants
    <3>2. /\ SetRole(n, IF newer THEN Follower ELSE State[n], c.term, c.from,
                     IF newer THEN {[term |-> c.term, votedFor |-> Nil]} ELSE {})
          /\ votes' = votes \cup {<<n, c.from, c.term>>}
      BY Zenon, <2>1 DEF HandleRequestVote
    <3>3. /\ State' = [State EXCEPT ![n] = IF newer THEN Follower ELSE State[n]]
          /\ CurrentTerm' = [CurrentTerm EXCEPT ![n] = c.term]
          /\ VotedFor' = [VotedFor EXCEPT ![n] = c.from]
          /\ stable' = [stable EXCEPT ![n] = [term |-> c.term, votedFor |-> c.from]]
      BY Zenon, <3>2 DEF SetRole, persistState
    <3>4. CoreInv'
      BY ZenonT(30), <1>1, <1>2, <3>1, <3>2, <3>3, CoreGrant DEF CoreInv, ElectionInv
    <3>5. \A m \in Node :
            /\ CurrentTerm'[m] >= CurrentTerm[m]
            /\ State'[m] = Candidate =>
                 State[m] = Candidate /\ CurrentTerm'[m] = CurrentTerm[m]
      <4>1. /\ CurrentTerm'[n] = c.term
            /\ State'[n] = IF newer THEN Follower ELSE State[n]
        BY ZenonT(30), <1>1, <3>3 DEF TypeOK
      <4>2. newer \/ c.term = CurrentTerm[n]
        BY <1>1, <3>1, SMTT(30), SMTT(45)
      <4>3. /\ CurrentTerm'[n] >= CurrentTerm[n]
            /\ State'[n] = Candidate =>
                 State[n] = Candidate /\ CurrentTerm'[n] = CurrentTerm[n]
        BY SMTT(30), SMTT(45), <1>1, <4>1, <4>2 DEF Follower, Candidate
      <4>4. \A m \in Node \ {n} :
               CurrentTerm'[m] = CurrentTerm[m] /\ State'[m] = State[m]
        BY ZenonT(30), <1>1, <3>3 DEF TypeOK
      <4> QED
        BY SMTT(30), SMTT(45), <4>3, <4>4 DEF TypeOK
    <3> QED
      BY <3>2, <3>4, <3>5, SMTT(30), SMTT(45)
  <2>2. CASE ~grant /\ newer
    <3>1. SetRole(n, Follower, c.term, Nil, {}) /\ votes' = votes
      BY Zenon, <2>2 DEF HandleRequestVote
    <3>2. /\ State' = [State EXCEPT ![n] = Follower]
          /\ CurrentTerm' = [CurrentTerm EXCEPT ![n] = c.term]
          /\ VotedFor' = [VotedFor EXCEPT ![n] = Nil]
          /\ stable' = [stable EXCEPT ![n] = [term |-> c.term, votedFor |-> Nil]]
      BY Zenon, <3>1 DEF SetRole, persistState
    <3>3. CoreInv'
      BY ZenonT(30), <1>1, <1>2, <2>2, <3>1, <3>2, CoreStepDown DEF CoreInv, ElectionInv
    <3>4. \A m \in Node :
            /\ CurrentTerm'[m] >= CurrentTerm[m]
            /\ State'[m] = Candidate =>
                 State[m] = Candidate /\ CurrentTerm'[m] = CurrentTerm[m]
      BY SMTT(30), SMTT(45), <1>1, <2>2, <3>2 DEF TypeOK, Follower, Candidate
    <3> QED
      BY ZenonT(30), <2>2, <3>1, <3>3, <3>4
  <2>3. CASE ~grant /\ ~newer
    <3>1. UNCHANGED <<State, CurrentTerm, VotedFor, stable, votes>>
      BY <2>3, ZenonT(30) DEF HandleRequestVote
    <3>2. CoreInv'
      BY Zenon, <1>2, <3>1, CoreKept DEF CoreInv, ElectionInv
    <3> QED
      BY SMTT(30), SMTT(45), <2>3, <3>1, <3>2 DEF TypeOK
  <2> QED
    BY <2>1, <2>2, <2>3, Zenon
<1>4. \A d \in voteCalls' :
        /\ \E b \in voteCalls : d.from = b.from /\ d.to = b.to /\ d.term = b.term
        /\ d.stage = "response" /\ d.granted => <<d.to, d.from, d.term>> \in votes'
        /\ \A f \in voteCalls' :
             d.from = f.from /\ d.to = f.to /\ d.term = f.term => d = f
  <2> HIDE DEF grant
  <2> QED
    BY Zenon, <1>2, <1>3, CallsAnswered DEF ElectionInv
<1> HIDE DEF grant, resp
<1>5. CallsInv'
  BY Zenon, <1>2, <1>3, <1>4, CallsFollow DEF ElectionInv
<1> QED
  BY ZenonT(60), <1>3, <1>5 DEF CoreInv, ElectionInv

\* The answered call is gone, so its vote is not counted again.
LEMMA ElectionVoteResponse ==
    ASSUME SaveMayFail = FALSE, TypeOK, TypeOK', ElectionInv, NEW c \in voteCalls,
           HandleVoteResponse(c)
    PROVE  ElectionInv'
<1> DEFINE n == c.from
           wins == votesReceived[n] + 1 >= votesNeeded
<1>1. /\ c.stage = "response" /\ voteCalls' = voteCalls \ {c}
      /\ UNCHANGED <<votes, replCalls>>
  BY ZenonT(30) DEF HandleVoteResponse
<1>2. n \in Node /\ c.respTerm \in Nat
  BY <1>1, SMTT(30), SMTT(45) DEF TypeOK, CallOK
<1>3. CASE UNCHANGED <<roleVars, votesReceived, voters, elected>>
  <2>1. CoreInv'
    BY ZenonT(30), <1>1, <1>3, CoreKept DEF CoreInv, ElectionInv, roleVars
  <2>2. CallsInv'
    BY SMTT(30), SMTT(45), <1>1, <1>3, CallsKept DEF TypeOK, ElectionInv, roleVars
  <2> QED
    BY <2>1, <2>2 DEF CoreInv, ElectionInv
<1>4. CASE /\ c.respTerm > CurrentTerm[n]
           /\ becomeFollower(n, c.respTerm)
           /\ UNCHANGED <<votesReceived, voters, elected>>
  BY ZenonT(30), <1>1, <1>2, <1>4, ElectionFollow DEF becomeFollower, voteVars
<1>5. CASE /\ State[n] = Candidate /\ CurrentTerm[n] = c.term /\ c.granted
           /\ votesReceived' = [votesReceived EXCEPT ![n] = @ + 1]
           /\ voters' = [voters EXCEPT ![n] = @ \cup {c.to}]
           /\ \/ wins /\ becomeLeader(n, voters[n] \cup {c.to})
              \/ UNCHANGED <<roleVars, elected>>
  <2>1. /\ CurrentTerm' = CurrentTerm /\ elected \subseteq elected'
        /\ \A m \in Node : State'[m] = Candidate => State[m] = Candidate
    BY SMTT(30), SMTT(45), <1>2, <1>5 DEF TypeOK, becomeLeader, roleVars, Candidate, Leader
  <2>2. CoreInv'
    <3>1. CASE wins /\ becomeLeader(n, voters[n] \cup {c.to})
      BY Zenon, <1>1, <1>5, <3>1, CoreWin DEF becomeLeader
    <3>2. CASE UNCHANGED <<roleVars, elected>>
      BY Zenon, <1>1, <1>5, <3>2, CoreCount DEF roleVars
    <3> QED
      BY Zenon, <1>5, <3>1, <3>2
  <2>3. \A d \in voteCalls' :
          /\ d.term <= CurrentTerm[d.from]
          /\ d.stage = "response" /\ d.granted => <<d.to, d.from, d.term>> \in votes
          /\ \A f \in voteCalls' :
               d.from = f.from /\ d.to = f.to /\ d.term = f.term => d = f
    BY ZenonT(60), <1>1 DEF ElectionInv, CallsInv
  <2>4. ASSUME NEW d \in voteCalls', State'[d.from] = Candidate,
               CurrentTerm[d.from] = d.term
        PROVE  d.to \notin voters'[d.from]
    <3>1. d \in voteCalls /\ d # c /\ d.from \in Node
      BY Zenon, <1>1, <2>4 DEF TypeOK, CallOK
    <3>2. d.to \notin voters[d.from]
      BY Zenon, <2>1, <2>4, <3>1 DEF ElectionInv, CallsInv
    <3>3. d.from = n => d.to # c.to
      BY ZenonT(30), <1>5, <2>4, <3>1 DEF ElectionInv, CallsInv
    <3> QED
      BY SMTT(30), SMTT(45), <1>5, <3>1, <3>2, <3>3 DEF TypeOK
  <2>5. \A d \in replCalls' : Won(d.from, d.term)'
    BY <1>1, <2>1, SMTT(30), SMTT(45) DEF ElectionInv, CallsInv, Won
  <2>6. CallsInv'
    BY <1>1, <2>1, <2>3, <2>4, <2>5, SMTT(30), SMTT(45) DEF CallsInv
  <2> QED
    BY ZenonT(60), <2>2, <2>6 DEF CoreInv, ElectionInv
<1> QED
  BY ZenonT(30), <1>3, <1>4, <1>5 DEF HandleVoteResponse

---------------------------------------------------------------------------
(* The steps of replication: its calls are those of winners.               *)

\* sendHeartbeats spawns calls only while the node leads, in a term it has won.
LEMMA ElectionHeartbeats ==
    ASSUME TypeOK, TypeOK', ElectionInv, NEW n \in Node,
           sendHeartbeats(n) \/ HeartbeatsExit(n)
    PROVE  ElectionInv'
<1>1. UNCHANGED <<State, CurrentTerm, VotedFor, stable, voteVars, voteCalls>>
  BY DEF sendHeartbeats, HeartbeatsExit, roleVars
<1>2. \A d \in replCalls' : Won(d.from, d.term)
  <2>1. CASE replCalls' = replCalls
    BY ZenonT(30), <2>1 DEF ElectionInv, CallsInv
  <2>2. CASE replCalls' # replCalls
    <3>1. State[n] = Leader
      BY Zenon, <2>2 DEF sendHeartbeats, HeartbeatsExit
    <3>2. PICK p \in Peers(n) : replCalls' = replCalls \cup
               {[stage |-> "spawned", from |-> n, to |-> p,
                 slot |-> Least(FreeSlots(n, p)),
                 term |-> CurrentTerm[n], leaderCommit |-> rep[n].CommitIndex]}
      BY ZenonT(30), <2>2 DEF sendHeartbeats, HeartbeatsExit
    <3>3. Won(n, CurrentTerm[n])
      BY <3>1 DEF ElectionInv, CandidateInv
    <3> QED
      BY SMTT(30), SMTT(45), <3>2, <3>3 DEF ElectionInv, CallsInv
  <2> QED
    BY ZenonT(30), <2>1, <2>2
<1> QED
  BY ZenonT(30), <1>1, <1>2, ElectionKept

\* replicateTo sends the term of the call it was spawned with.
LEMMA ElectionReplicateTo ==
    ASSUME TypeOK, TypeOK', ElectionInv, NEW c \in replCalls, replicateTo(c)
    PROVE  ElectionInv'
<1>1. UNCHANGED <<State, CurrentTerm, VotedFor, stable, voteVars, voteCalls>>
  BY DEF replicateTo, roleVars
<1>2. \A d \in replCalls' : Won(d.from, d.term)
  BY SMTT(30), SMTT(45), RequestBuilt DEF ElectionInv, CallsInv
<1> QED
  BY ZenonT(30), <1>1, <1>2, ElectionKept

\* replicateTo keeps the invariant after AppendEntries returned.
LEMMA ElectionAppendResponse ==
    ASSUME SaveMayFail = FALSE, TypeOK, TypeOK', ElectionInv, NEW c \in replCalls,
           HandleAppendResponse(c)
    PROVE  ElectionInv'
<1>1. c.stage = "AppendEntriesResp" /\ votes' = votes
  BY Zenon DEF HandleAppendResponse
<1>2. c.from \in Node /\ c.respTerm \in Nat
  BY ZenonT(30), <1>1 DEF TypeOK, CallOK
<1>3. CASE /\ c.respTerm > CurrentTerm[c.from]
           /\ becomeFollower(c.from, c.respTerm)
           /\ replCalls' = replCalls \ {c}
           /\ UNCHANGED <<votesReceived, voters, elected, voteCalls>>
  BY ZenonT(30), <1>1, <1>2, <1>3, ElectionFollow DEF becomeFollower, voteVars
<1>4. CASE /\ replCalls' = replCalls \ {c}
           /\ UNCHANGED <<roleVars, votesReceived, voters, elected, voteCalls>>
  BY <1>1, <1>4, ElectionKept, SMTT(30), SMTT(45) DEF ElectionInv, CallsInv, roleVars, voteVars
<1>5. CASE Exit(c.from, voteCalls, replCalls \ {c})
  BY Zenon, <1>2, <1>5, ElectionExit
<1> QED
  BY Zenon, <1>3, <1>4, <1>5 DEF HandleAppendResponse

\* replicateTo keeps the invariant after InstallSnapshot returned.
LEMMA ElectionSnapshotResponse ==
    ASSUME SaveMayFail = FALSE, TypeOK, TypeOK', ElectionInv, NEW c \in replCalls,
           HandleSnapshotResponse(c)
    PROVE  ElectionInv'
<1>1. /\ c.from \in Node /\ c.respTerm \in Nat
      /\ replCalls' = replCalls \ {c} /\ UNCHANGED <<voteVars, voteCalls>>
  BY ZenonT(30) DEF TypeOK, CallOK, HandleSnapshotResponse
<1>2. CASE c.respTerm > CurrentTerm[c.from] /\ becomeFollower(c.from, c.respTerm)
  BY ZenonT(30), <1>1, <1>2, ElectionFollow DEF becomeFollower
<1>3. CASE UNCHANGED roleVars
  BY ZenonT(30), <1>1, <1>3, ElectionKept DEF ElectionInv, CallsInv, roleVars
<1> QED
  BY ZenonT(30), <1>2, <1>3 DEF HandleSnapshotResponse

\* A node that steps down in its own term has heard of the winner.
LEMMA ElectionAcceptLeader ==
    ASSUME SaveMayFail = FALSE, TypeOK, TypeOK', ElectionInv, NEW c \in replCalls,
           ~(c.term < CurrentTerm[c.to]),
           NEW b, b => c.term > CurrentTerm[c.to] \/ State[c.to] # Follower,
           AcceptLeader(c.to, c, b),
           UNCHANGED <<voteVars, voteCalls>>,
           \A d \in replCalls' : \E e \in replCalls : d.from = e.from /\ d.term = e.term
    PROVE  ElectionInv'
<1>1. /\ c.to \in Node /\ c.from \in Node \ {c.to} /\ c.term \in Nat
      /\ CurrentTerm[c.to] \in Nat
  BY ZenonT(30) DEF TypeOK, CallOK
<1>2. Won(c.from, c.term)
  BY Zenon DEF ElectionInv, CallsInv
<1>3. CASE b /\ SetRole(c.to, Follower, c.term, Nil, {})
  <2>1. \/ c.term > CurrentTerm[c.to]
        \/ /\ c.term = CurrentTerm[c.to]
           /\ State[c.to] # Follower
           /\ \E l \in Node \ {c.to} : Won(l, c.term)
    BY SMTT(30), SMTT(45), <1>1, <1>2, <1>3
  <2> QED
    BY ZenonT(30), <1>1, <1>3, <2>1, ElectionFollow
<1>4. CASE UNCHANGED <<State, CurrentTerm, VotedFor, stable>>
  BY Zenon, <1>4, ElectionKept DEF ElectionInv, CallsInv
<1> QED
  BY ZenonT(30), <1>3, <1>4 DEF AcceptLeader

\* HandleAppendEntries keeps the invariant: its sender has won the term.
LEMMA ElectionAppendEntries ==
    ASSUME SaveMayFail = FALSE, TypeOK, TypeOK', ElectionInv, NEW c \in replCalls,
           HandleAppendEntries(c)
    PROVE  ElectionInv'
<1>1. UNCHANGED <<voteVars, voteCalls>>
  BY Zenon DEF HandleAppendEntries
<1>2. \A d \in replCalls' : \E e \in replCalls : d.from = e.from /\ d.term = e.term
  <2>1. CASE replCalls' = replCalls \ {c}
    BY <2>1
  <2>2. ASSUME NEW ok, NEW ci, NEW ct,
               replCalls' = Answer(replCalls, c,
                [stage |-> "AppendEntriesResp", from |-> c.from, to |-> c.to,
                 slot |-> c.slot, term |-> c.term, prevLogIndex |-> c.prevLogIndex,
                 count |-> Len(c.entries), respTerm |-> CurrentTerm[c.to],
                 success |-> ok, conflictIndex |-> ci, conflictTerm |-> ct])
        PROVE  \A d \in replCalls' : \E e \in replCalls :
                 d.from = e.from /\ d.term = e.term
    BY SMTT(30), SMTT(45), <2>2 DEF Answer
  <2> QED
    BY Zenon, <2>1, <2>2, AppendAnswer
<1>3. CASE UNCHANGED roleVars
  <2>1. \A d \in replCalls' : Won(d.from, d.term)
    BY Zenon, <1>2 DEF ElectionInv, CallsInv
  <2>2. UNCHANGED <<State, CurrentTerm, VotedFor, stable>>
    BY Zenon, <1>3 DEF roleVars
  <2>3. UNCHANGED <<State, CurrentTerm, VotedFor, stable, voteVars, voteCalls>>
    BY Zenon, <1>1, <2>2
  <2> QED
    BY Zenon, <2>1, <2>3, ElectionKept
<1>4. CASE /\ ~(c.term < CurrentTerm[c.to])
           /\ AcceptLeader(c.to, c, c.term > CurrentTerm[c.to] \/ State[c.to] # Follower)
  BY ZenonT(30), <1>1, <1>2, <1>4, ElectionAcceptLeader
<1> QED
  BY Zenon, <1>3, <1>4 DEF HandleAppendEntries

\* HandleInstallSnapshot keeps the invariant: its sender has won the term.
LEMMA ElectionInstallSnapshot ==
    ASSUME SaveMayFail = FALSE, TypeOK, TypeOK', ElectionInv, NEW c \in replCalls,
           HandleInstallSnapshot(c)
    PROVE  ElectionInv'
<1>1. UNCHANGED <<voteVars, voteCalls>>
  BY Zenon DEF HandleInstallSnapshot
<1>2. \A d \in replCalls' : \E e \in replCalls : d.from = e.from /\ d.term = e.term
  BY SMTT(30), SMTT(45) DEF HandleInstallSnapshot, Answer
<1>3. CASE UNCHANGED roleVars
  <2>1. \A d \in replCalls' : Won(d.from, d.term)
    BY Zenon, <1>2 DEF ElectionInv, CallsInv
  <2>2. UNCHANGED <<State, CurrentTerm, VotedFor, stable>>
    BY Zenon, <1>3 DEF roleVars
  <2>3. UNCHANGED <<State, CurrentTerm, VotedFor, stable, voteVars, voteCalls>>
    BY Zenon, <1>1, <2>2
  <2> QED
    BY Zenon, <2>1, <2>3, ElectionKept
<1>4. CASE /\ ~(c.term < CurrentTerm[c.to])
           /\ AcceptLeader(c.to, c, c.term > CurrentTerm[c.to])
  BY Zenon, <1>1, <1>2, <1>4, ElectionAcceptLeader
<1> QED
  BY <1>3, <1>4, Zenon DEF HandleInstallSnapshot

\* With a storage that does not fail, every step keeps the invariant.
LEMMA ElectionStep ==
    ASSUME SaveMayFail = FALSE, TypeOK, ElectionInv, [Next]_vars
    PROVE  ElectionInv'
<1>1. TypeOK'
  BY TypeStep
<1>2. ASSUME NEW n \in Node, NodeStep(n) PROVE ElectionInv'
  <2>1. CASE \E cmd \in Command : AppendEntry(n, cmd)
    BY <1>1, <2>1, ElectionKept, SMTT(30), SMTT(45) DEF AppendEntry, ElectionInv, CallsInv, roleVars
  <2>2. CASE Stop(n)
    <3>1. Exit(n, voteCalls, replCalls)
      BY <2>2 DEF Stop
    <3> QED
      BY <1>1, <3>1, ElectionExit
  <2> QED
    BY ZenonT(30), <1>1, <1>2, <2>1, <2>2, ElectionTimeout, ElectionHeartbeats, ElectionStart
       DEF NodeStep
<1>3. ASSUME NEW c \in voteCalls, VoteStep(c) PROVE ElectionInv'
  BY Zenon, <1>1, <1>3, ElectionVoteRequest, ElectionVoteResponse DEF VoteStep
<1>4. ASSUME NEW c \in replCalls, ReplStep(c) PROVE ElectionInv'
  <2>1. CASE LoseReplCall(c)
    BY ZenonT(30), <1>1, <2>1, ElectionKept DEF LoseReplCall, ElectionInv, CallsInv, roleVars
  <2> QED
    BY ZenonT(30), <1>1, <1>4, <2>1, ElectionReplicateTo, ElectionAppendEntries,
       ElectionAppendResponse, ElectionInstallSnapshot, ElectionSnapshotResponse
       DEF ReplStep
<1>5. CASE UNCHANGED vars
  BY ZenonT(30), <1>1, <1>5, ElectionKept DEF vars, roleVars, ElectionInv, CallsInv
<1> QED
  BY <1>2, <1>3, <1>4, <1>5 DEF Next

\* The invariant behind Election Safety holds in every cluster while SaveState
\* does not fail: a winner's majority stays with it until its term is over, a
\* vote of an undecided term is held, and a call is counted once.
THEOREM ElectionInvariance ==
    ASSUME SaveMayFail = FALSE
    PROVE  Spec => [](TypeOK /\ ElectionInv)
<1>1. TypeOK /\ ElectionInv /\ [Next]_vars => (TypeOK /\ ElectionInv)'
  BY Zenon, TypeStep, ElectionStep
<1> QED
  BY TypeInit, ElectionInit, <1>1, PTL DEF Spec

\* Election Safety for every cluster: while SaveState does not fail, no two
\* nodes ever win the election of the same term, in spite of lost and late
\* votes, of restarts, and of nodes that forget a vote on stepping down.
THEOREM ElectionSafe ==
    ASSUME SaveMayFail = FALSE
    PROVE  Spec => []ElectionSafety
<1>1. TypeOK /\ ElectionInv => ElectionSafety
  BY OneWinner DEF ElectionInv
<1> QED
  BY ElectionInvariance, <1>1, PTL
============================================================================
