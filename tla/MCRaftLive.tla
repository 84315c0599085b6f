---------------------------- MODULE MCRaftLive ----------------------------
(***************************************************************************)
(* RaftLiveness instantiated for TLC, from a state in which there is much  *)
(* to repair.  n1 won term 1, appended two entries and got the first one   *)
(* across to n2, whose answer was lost; n2 then won term 2 with the vote   *)
(* of n3, whose log is empty, and n1 stepped down for it without voting.   *)
(* The responses of that election are in, n1's sendHeartbeats has returned *)
(* and n2's election timer has fired.                                      *)
(***************************************************************************)
EXTENDS RaftLiveness

CONSTANTS n1, n2, n3
ASSUME ThreeNodes == Node = {n1, n2, n3} /\ Last = n2

Old(i) == LogEntry(i, 1, CHOOSE c \in Command : TRUE)
Holding(entries) ==
    [NewReplica EXCEPT !.Log = @ \o entries, !.raft_log = SaveLog(@, entries)]

ContestedInit ==
    /\ State = [n \in Node |-> IF n = n2 THEN Leader ELSE Follower]
    /\ CurrentTerm = [n \in Node |-> 2]
    /\ VotedFor = [n \in Node |-> IF n = n1 THEN Nil ELSE n2]
    /\ leaderID = [n \in Node |-> IF n = n2 THEN n ELSE Nil]
    /\ nextIndex = [n \in Node |-> [p \in Node |->
                      IF n = n3 \/ p = n THEN 0 ELSE IF n = n1 THEN 1 ELSE 2]]
    /\ matchIndex = [n \in Node |-> [p \in Node |-> IF n = n1 /\ p = n1 THEN 2 ELSE 0]]
    /\ rep = [n \in Node |-> Holding(IF n = n1 THEN <<Old(1), Old(2)>>
                                     ELSE IF n = n2 THEN <<Old(1)>> ELSE <<>>)]
    /\ stable = [n \in Node |-> [term |-> CurrentTerm[n], votedFor |-> VotedFor[n]]]
    /\ votesReceived = [n \in Node |-> IF n = n3 THEN 0 ELSE 2]
    /\ electionTimer = [n \in Node |-> n # n2]
    /\ heartbeat = [n \in Node |-> IF n = n2 THEN "running" ELSE "off"]
    /\ up = [n \in Node |-> TRUE]
    /\ restarts = 0
    /\ voteCalls = {}
    /\ replCalls = {}
    /\ voters = [n \in Node |-> IF n = n1 THEN {n1, n2} ELSE IF n = n2 THEN {n2, n3} ELSE {}]
    /\ votes = {<<n1, n1, 1>>, <<n2, n1, 1>>, <<n3, n1, 1>>, <<n2, n2, 2>>, <<n3, n2, 2>>}
    /\ elected = {[node |-> n1, term |-> 1, quorum |-> {n1, n2}],
                  [node |-> n2, term |-> 2, quorum |-> {n2, n3}]}

ContestedSpec == ContestedInit /\ [][Next]_vars /\ Fairness
============================================================================
