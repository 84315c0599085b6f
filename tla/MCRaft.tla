------------------------------ MODULE MCRaft ------------------------------
(* Raft instantiated for TLC.                                              *)
EXTENDS RaftSafety, TLC

Symmetry == Permutations(Node) \cup Permutations(Command)

(***************************************************************************)
(* The part of a state that later steps and the properties can tell apart. *)
(* Left out are values nobody reads again: leaderID and a node's own match *)
(* index, which no handler reads; the counts of an election that is over;  *)
(* nextIndex and matchIndex on a node that does not lead and has no        *)
(* goroutine about to read them (becomeLeader overwrites them); vote calls *)
(* that neither side would act on; the election timers once no election    *)
(* can start, and the rows of raft_log once no node will read them again.  *)
(* FollowerHasTimer reads the timers and is not checked with this view;    *)
(* PersistedLog reads the rows and is checked where they are kept, with    *)
(* the HTTP transport.                                                     *)
(***************************************************************************)
Campaigns(n, term) == State[n] = Candidate /\ CurrentTerm[n] = term

LiveVoteCall(c) ==
    \/ c.stage = "request" /\ (c.term >= CurrentTerm[c.to]
                                 \/ (c.waiting /\ Campaigns(c.from, c.term)))
    \/ c.stage = "response" /\ Campaigns(c.from, c.term)
                            /\ (c.granted \/ c.respTerm > c.term)

Reads(n) == State[n] = Leader \/ \E c \in replCalls : c.from = n /\ c.stage = "spawned"

NoMoreElections == Cardinality({v \in votes : v[1] = v[2]}) = MaxElections
NoMoreStarts == restarts = MaxRestarts /\ Transport = "inmem" /\ \A n \in Node : up[n]

View ==
    <<State, CurrentTerm, VotedFor, stable, heartbeat, up, restarts, elected, replCalls,
      {c \in voteCalls : LiveVoteCall(c)},
      Cardinality({v \in votes : v[1] = v[2]}),
      [n \in Node |-> ~NoMoreElections /\ electionTimer[n]],
      [n \in Node |-> IF NoMoreStarts THEN [rep[n] EXCEPT !.raft_log = <<>>] ELSE rep[n]],
      [n \in Node |-> IF State[n] = Candidate THEN voters[n] ELSE {}],
      [n \in Node |-> IF Reads(n) THEN [p \in Peers(n) |-> <<nextIndex[n][p], matchIndex[n][p]>>]
                      ELSE <<>>]>>
============================================================================
