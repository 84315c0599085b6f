-------------------------- MODULE RaftVoteProofs --------------------------
(*************************************************************************)
(* The parts of the inductive invariant ElectionInv: what each way of    *)
(* changing roles, terms, votes or calls does to them.                   *)
(*************************************************************************)
EXTENDS RaftTypeProofs, FiniteSetTheorems

\* Two majorities of the cluster have a member in common (votesNeeded in
\* becomeCandidate).
LEMMA QuorumsMeet ==
    ASSUME NEW A \in SUBSET Node, NEW B \in SUBSET Node,
           Cardinality(A) >= votesNeeded, Cardinality(B) >= votesNeeded
    PROVE  A \cap B # {}
<1> SUFFICES ASSUME A \cap B = {} PROVE FALSE
  OBVIOUS
<1>1. IsFiniteSet(A) /\ IsFiniteSet(B) /\ IsFiniteSet(Node)
  BY FS_Subset, NodeAssumption
<1>2. Cardinality(A \cup B) = Cardinality(A) + Cardinality(B) - Cardinality(A \cap B)
  BY <1>1, FS_Union
<1>3. Cardinality(A \cap B) = 0
  BY FS_EmptySet
<1>4. Cardinality(A \cup B) <= Cardinality(Node)
  BY <1>1, FS_Subset
<1>5. Cardinality(A) \in Nat /\ Cardinality(B) \in Nat /\ Cardinality(Node) \in Nat
  BY <1>1, FS_CardinalityType
<1>6. Cardinality(A) + Cardinality(B) <= Cardinality(Node)
  BY <1>2, <1>3, <1>4, <1>5, SMTT(30), SMTT(45)
<1>7. Cardinality(Node) < 2 * (Cardinality(Node) \div 2 + 1)
  BY <1>5
<1>8. Cardinality(Node) \div 2 \in Nat
  BY <1>5
<1> QED
  BY <1>5, <1>6, <1>7, <1>8, SMTT(30), SMTT(45) DEF votesNeeded

---------------------------------------------------------------------------
(* Election safety.  From here on the storage does not fail.               *)

\* A majority behind every winner leaves room for one winner per term.
LEMMA OneWinner ==
    ASSUME TypeOK, QuorumInv
    PROVE  ElectionSafety
<1> SUFFICES ASSUME NEW e \in elected, NEW f \in elected, e.term = f.term
             PROVE  e.node = f.node
  BY DEF ElectionSafety
<1>1. e.quorum \in SUBSET Node /\ f.quorum \in SUBSET Node /\ e.node \in Node
  BY DEF TypeOK
<1>2. PICK m : m \in e.quorum /\ m \in f.quorum
  BY <1>1, QuorumsMeet DEF QuorumInv
<1>3. <<m, e.node, f.term>> \in votes
  BY <1>2 DEF QuorumInv
<1> QED
  BY Zenon, <1>1, <1>2, <1>3 DEF QuorumInv

CoreInv == QuorumInv /\ VotesInv /\ CandidateInv /\ StableInv

\* Before the first election there is nothing to violate the invariant.
LEMMA ElectionInit == Init => ElectionInv
  BY DEF Init, ElectionInv, QuorumInv, VotesInv, CandidateInv, StableInv, CallsInv,
         Follower, Candidate, Leader

\* A step that does not touch elections keeps the core.
LEMMA CoreKept ==
    ASSUME CoreInv,
           UNCHANGED <<State, CurrentTerm, VotedFor, stable, votesReceived, voters,
                       votes, elected>>
    PROVE  CoreInv'
  BY DEF CoreInv, QuorumInv, VotesInv, CandidateInv, StableInv, Won, Decided

\* A node may forget its vote when its term grows, or when somebody else has
\* won the term in which it is a candidate (becomeFollower, HandleRequestVote,
\* HandleAppendEntries, HandleInstallSnapshot).
LEMMA CoreStepDown ==
    ASSUME TypeOK, CoreInv, NEW n \in Node, NEW t \in Nat,
           State' = [State EXCEPT ![n] = Follower],
           CurrentTerm' = [CurrentTerm EXCEPT ![n] = t],
           VotedFor' = [VotedFor EXCEPT ![n] = Nil],
           stable' = [stable EXCEPT ![n] = [term |-> t, votedFor |-> Nil]],
           UNCHANGED <<votesReceived, voters, votes, elected>>,
           \/ t > CurrentTerm[n]
           \/ /\ t = CurrentTerm[n]
              /\ State[n] # Follower
              /\ \E l \in Node \ {n} : Won(l, t)
    PROVE  CoreInv'
<1>1. CurrentTerm[n] \in Nat /\ CurrentTerm[n] <= t
  BY DEF TypeOK
<1>2. ASSUME NEW e \in elected, n \in e.quorum PROVE e.term < t
  <2>1. e.term \in Nat /\ e.node \in Node /\ e.term <= CurrentTerm[n]
    BY Zenon, <1>2 DEF TypeOK, CoreInv, QuorumInv
  <2>2. CASE t > CurrentTerm[n]
    BY <1>1, <2>1, <2>2, SMTT(30), SMTT(45)
  <2>3. CASE t = CurrentTerm[n] /\ e.term = t /\ State[n] # Follower
    <3>1. VotedFor[n] = n /\ VotedFor[n] = e.node
      BY Zenon, <1>2, <2>3 DEF CoreInv, CandidateInv, QuorumInv
    <3>2. PICK l \in Node \ {n} : Won(l, t)
      BY <2>3, <1>1, SMTT(30), SMTT(45)
    <3>3. ElectionSafety
      BY OneWinner, SMTT(30), SMTT(45) DEF CoreInv
    <3> QED
      BY <2>3, <3>1, <3>2, <3>3, SMTT(30), SMTT(45) DEF ElectionSafety, Won
  <2> QED
    BY <1>1, <2>1, <2>2, <2>3, SMTT(30), SMTT(45)
<1>3. QuorumInv'
  BY <1>1, <1>2, SMTT(30), SMTT(45) DEF TypeOK, CoreInv, QuorumInv
<1>4. VotesInv'
  <2> SUFFICES ASSUME NEW v \in votes
               PROVE  /\ CurrentTerm'[v[1]] >= v[3]
                      /\ ~Decided(v[3]) =>
                         /\ \A w \in votes : w[1] = v[1] /\ w[3] = v[3] => w[2] = v[2]
                         /\ CurrentTerm'[v[1]] = v[3] =>
                              /\ VotedFor'[v[1]] = v[2]
                              /\ State'[v[1]] = Follower \/ v[1] = v[2]
    BY SMTT(30), SMTT(45) DEF VotesInv, Decided
  <2>1. v[1] \in Node /\ v[2] \in Node /\ v[3] \in Nat /\ v[3] <= CurrentTerm[v[1]]
    BY DEF TypeOK, CoreInv, VotesInv
  <2>2. CASE v[1] # n
    BY Zenon, <2>1, <2>2 DEF TypeOK, CoreInv, VotesInv
  <2>3. CASE v[1] = n /\ v[3] < t
    BY SMTT(30), SMTT(45), <1>1, <2>1, <2>3 DEF TypeOK, CoreInv, VotesInv
  <2>4. CASE v[1] = n /\ v[3] = t
    <3>1. Decided(v[3])
      BY <1>1, <2>1, <2>4, SMTT(30), SMTT(45) DEF Won, Decided
    <3> QED
      BY SMTT(30), SMTT(45), <1>1, <2>1, <2>4, <3>1 DEF TypeOK
  <2> QED
    BY <1>1, <2>1, <2>2, <2>3, <2>4, SMTT(30), SMTT(45)
<1>5. CandidateInv'
  BY SMTT(30), SMTT(45) DEF TypeOK, CoreInv, CandidateInv, Won, Follower, Candidate, Leader
<1>6. StableInv'
  BY DEF TypeOK, CoreInv, StableInv
<1> QED
  BY <1>3, <1>4, <1>5, <1>6, SMTT(30), SMTT(45) DEF CoreInv

\* A new candidate has a term of its own and votes for itself in it
\* (becomeCandidate).
LEMMA CoreCandidate ==
    ASSUME SaveMayFail = FALSE, TypeOK, CoreInv, NEW n \in Node, becomeCandidate(n)
    PROVE  CoreInv'
<1> DEFINE t == CurrentTerm[n] + 1
<1>1. /\ State' = [State EXCEPT ![n] = Candidate]
      /\ CurrentTerm' = [CurrentTerm EXCEPT ![n] = t]
      /\ VotedFor' = [VotedFor EXCEPT ![n] = n]
      /\ stable' = [stable EXCEPT ![n] = [term |-> t, votedFor |-> n]]
  <2>1. SetRole(n, Candidate, t, n, {})
    BY ZenonT(30) DEF becomeCandidate
  <2> HIDE DEF t
  <2> QED
    BY ZenonT(60), <2>1 DEF SetRole, persistState
<1>2. /\ votesReceived' = [votesReceived EXCEPT ![n] = 1]
      /\ voters' = [voters EXCEPT ![n] = {n}]
      /\ votes' = votes \cup {<<n, n, t>>}
      /\ elected' = elected
  BY DEF becomeCandidate
<1>3. CurrentTerm[n] \in Nat /\ t \in Nat /\ t > CurrentTerm[n]
  BY DEF TypeOK
<1>4. \A e \in elected : n \in e.quorum => e.term < t
  <2>1. \A e \in elected : e.term \in Nat /\ (n \in e.quorum => e.term <= CurrentTerm[n])
    BY Zenon DEF TypeOK, CoreInv, QuorumInv
  <2> QED
    BY <1>3, <2>1
<1>5. \A v \in votes : v[1] = n => v[3] < t
  BY <1>3, SMTT(30), SMTT(45) DEF TypeOK, CoreInv, VotesInv
<1> HIDE DEF t
<1>6. QuorumInv'
  <2> SUFFICES ASSUME NEW e \in elected
               PROVE  /\ e.node \in e.quorum
                      /\ Cardinality(e.quorum) >= votesNeeded
                      /\ \A m \in e.quorum :
                           /\ <<m, e.node, e.term>> \in votes'
                           /\ \A c \in Node : <<m, c, e.term>> \in votes' => c = e.node
                           /\ CurrentTerm'[m] >= e.term
                           /\ CurrentTerm'[m] = e.term =>
                                /\ VotedFor'[m] = e.node
                                /\ State'[m] = Follower \/ m = e.node
    BY <1>2 DEF QuorumInv
  <2>1. /\ e.node \in e.quorum
        /\ Cardinality(e.quorum) >= votesNeeded
    BY DEF CoreInv, QuorumInv
  <2>2. ASSUME NEW m \in e.quorum, m # n
        PROVE  /\ <<m, e.node, e.term>> \in votes'
               /\ \A c \in Node : <<m, c, e.term>> \in votes' => c = e.node
               /\ CurrentTerm'[m] >= e.term
               /\ CurrentTerm'[m] = e.term =>
                    /\ VotedFor'[m] = e.node
                    /\ State'[m] = Follower \/ m = e.node
    BY ZenonT(30), <1>1, <1>2, <2>2 DEF TypeOK, CoreInv, QuorumInv
  <2>3. ASSUME n \in e.quorum
        PROVE  /\ <<n, e.node, e.term>> \in votes'
               /\ \A c \in Node : <<n, c, e.term>> \in votes' => c = e.node
               /\ CurrentTerm'[n] >= e.term
               /\ CurrentTerm'[n] # e.term
    BY SMTT(30), SMTT(45), <1>1, <1>2, <1>3, <1>4, <2>3 DEF TypeOK, CoreInv, QuorumInv
  <2> QED
    BY <2>1, <2>2, <2>3, SMTT(30), SMTT(45)
<1>7. VotesInv'
  <2> SUFFICES ASSUME NEW v \in votes'
               PROVE  /\ CurrentTerm'[v[1]] >= v[3]
                      /\ ~Decided(v[3]) =>
                         /\ \A w \in votes' : w[1] = v[1] /\ w[3] = v[3] => w[2] = v[2]
                         /\ CurrentTerm'[v[1]] = v[3] =>
                              /\ VotedFor'[v[1]] = v[2]
                              /\ State'[v[1]] = Follower \/ v[1] = v[2]
    BY <1>2, SMTT(30), SMTT(45) DEF VotesInv, Decided
  <2>1. CASE v \in votes
    BY SMTT(30), SMTT(45), <1>1, <1>2, <1>3, <1>5, <2>1 DEF TypeOK, CoreInv, VotesInv
  <2>2. CASE v = <<n, n, t>>
    BY SMTT(30), SMTT(45), <1>1, <1>2, <1>3, <1>5, <2>2 DEF TypeOK
  <2> QED
    BY <1>2, <2>1, <2>2, SMTT(30), SMTT(45)
<1>8. CandidateInv'
  <2>1. ~Won(n, t)
    BY <1>4, <1>3 DEF Won, TypeOK, CoreInv, QuorumInv
  <2>2. Cardinality({n}) = 1
    BY Zenon, FS_Singleton
  <2> QED
    BY SMTT(30), SMTT(45), <1>1, <1>2, <2>1, <2>2
       DEF TypeOK, CoreInv, CandidateInv, Won, Follower, Candidate, Leader
<1>9. StableInv'
  BY <1>1, <1>3, SMTT(30), SMTT(45) DEF TypeOK, CoreInv, StableInv
<1> QED
  BY <1>6, <1>7, <1>8, <1>9, SMTT(30), SMTT(45) DEF CoreInv

\* A vote: n gives it to c in term t, having voted for nobody else in t.
LEMMA CoreGrant ==
    ASSUME TypeOK, CoreInv, NEW n \in Node, NEW c \in Node \ {n}, NEW t \in Nat,
           t >= CurrentTerm[n],
           t = CurrentTerm[n] => VotedFor[n] \in {Nil, c},
           State' = [State EXCEPT ![n] = IF t > CurrentTerm[n] THEN Follower ELSE State[n]],
           CurrentTerm' = [CurrentTerm EXCEPT ![n] = t],
           VotedFor' = [VotedFor EXCEPT ![n] = c],
           stable' = [stable EXCEPT ![n] = [term |-> t, votedFor |-> c]],
           votes' = votes \cup {<<n, c, t>>},
           UNCHANGED <<votesReceived, voters, elected>>
    PROVE  CoreInv'
<1>1. CurrentTerm[n] \in Nat /\ CurrentTerm[n] <= t /\ Nil # n /\ Nil \notin Node
  BY NodeAssumption, SMTT(30), SMTT(45) DEF TypeOK
<1>2. t = CurrentTerm[n] => State[n] = Follower
  BY <1>1 DEF CoreInv, CandidateInv
<1>3. State' = [State EXCEPT ![n] = Follower]
  <2>1. (IF t > CurrentTerm[n] THEN Follower ELSE State[n]) = Follower
    BY <1>1, <1>2, SMTT(30), SMTT(45)
  <2> QED
    BY Zenon, <2>1
<1>4. ASSUME NEW e \in elected, n \in e.quorum
      PROVE  e.term <= t /\ (e.term = t => c = e.node)
  <2>1. e.term \in Nat /\ e.node \in Node /\ e.term <= CurrentTerm[n]
    BY Zenon, <1>4 DEF TypeOK, CoreInv, QuorumInv
  <2>2. CASE e.term = t
    <3>1. CurrentTerm[n] = e.term /\ CurrentTerm[n] = t
      BY <1>1, <2>1, <2>2
    <3>2. VotedFor[n] = e.node
      BY Zenon, <1>4, <3>1 DEF CoreInv, QuorumInv
    <3> QED
      BY <1>1, <2>1, <2>2, <3>1, <3>2, SMTT(30), SMTT(45)
  <2> QED
    BY <1>1, <2>1, <2>2
<1>5. ASSUME NEW v \in votes, v[1] = n, v[3] >= t
      PROVE  v[3] = t /\ (~Decided(t) => v[2] = c)
  <2>1. v[3] \in Nat /\ v[2] \in Node /\ v[3] <= CurrentTerm[n]
    BY <1>5, SMTT(30), SMTT(45) DEF TypeOK, CoreInv, VotesInv
  <2>2. v[3] = t /\ CurrentTerm[n] = t
    BY <1>1, <1>5, <2>1
  <2>3. ~Decided(t) => VotedFor[n] = v[2]
    BY ZenonT(30), <1>5, <2>2 DEF CoreInv, VotesInv
  <2> QED
    BY <1>1, <2>1, <2>2, <2>3, ZenonT(30)
<1>6. QuorumInv'
  <2> SUFFICES ASSUME NEW e \in elected
               PROVE  /\ e.node \in e.quorum
                      /\ Cardinality(e.quorum) >= votesNeeded
                      /\ \A m \in e.quorum :
                           /\ <<m, e.node, e.term>> \in votes'
                           /\ \A d \in Node : <<m, d, e.term>> \in votes' => d = e.node
                           /\ CurrentTerm'[m] >= e.term
                           /\ CurrentTerm'[m] = e.term =>
                                /\ VotedFor'[m] = e.node
                                /\ State'[m] = Follower \/ m = e.node
    BY DEF QuorumInv
  <2>1. /\ e.node \in e.quorum
        /\ Cardinality(e.quorum) >= votesNeeded
    BY SMTT(30), SMTT(45) DEF CoreInv, QuorumInv
  <2>2. ASSUME NEW m \in e.quorum, m # n
        PROVE  /\ <<m, e.node, e.term>> \in votes'
               /\ \A d \in Node : <<m, d, e.term>> \in votes' => d = e.node
               /\ CurrentTerm'[m] >= e.term
               /\ CurrentTerm'[m] = e.term =>
                    /\ VotedFor'[m] = e.node
                    /\ State'[m] = Follower \/ m = e.node
    BY SMTT(30), SMTT(45), <1>3, <2>2 DEF TypeOK, CoreInv, QuorumInv
  <2>3. ASSUME n \in e.quorum
        PROVE  /\ <<n, e.node, e.term>> \in votes'
               /\ \A d \in Node : <<n, d, e.term>> \in votes' => d = e.node
               /\ CurrentTerm'[n] >= e.term
               /\ CurrentTerm'[n] = e.term =>
                    /\ VotedFor'[n] = e.node
                    /\ State'[n] = Follower
    BY ZenonT(30), <1>3, <1>4, <2>3 DEF TypeOK, CoreInv, QuorumInv
  <2> QED
    BY <2>1, <2>2, <2>3, SMTT(30), SMTT(45)
<1>7. VotesInv'
  <2> SUFFICES ASSUME NEW v \in votes'
               PROVE  /\ CurrentTerm'[v[1]] >= v[3]
                      /\ ~Decided(v[3]) =>
                         /\ \A w \in votes' : w[1] = v[1] /\ w[3] = v[3] => w[2] = v[2]
                         /\ CurrentTerm'[v[1]] = v[3] =>
                              /\ VotedFor'[v[1]] = v[2]
                              /\ State'[v[1]] = Follower \/ v[1] = v[2]
    BY ZenonT(60) DEF VotesInv, Decided
  <2>1. CASE v \in votes /\ v[1] # n
    BY SMTT(30), SMTT(45), <1>3, <2>1 DEF TypeOK, CoreInv, VotesInv
  <2>2. CASE v \in votes /\ v[1] = n /\ v[3] >= t
    <3>1. v[3] = t /\ (~Decided(t) => v[2] = c)
      BY <1>5, <2>2, SMTT(30), SMTT(45)
    <3>2. \A w \in votes : ~Decided(t) /\ w[1] = n /\ w[3] = t => w[2] = c
      BY SMTT(30), SMTT(45), <1>5
    <3> QED
      BY SMTT(30), SMTT(45), <1>3, <2>2, <3>1, <3>2 DEF TypeOK
  <2>3. CASE v \in votes /\ v[1] = n /\ v[3] < t
    BY SMTT(30), SMTT(45), <1>1, <1>3, <2>3 DEF TypeOK, CoreInv, VotesInv
  <2>4. CASE v = <<n, c, t>>
    <3>1. \A w \in votes : ~Decided(t) /\ w[1] = n /\ w[3] = t => w[2] = c
      BY SMTT(30), SMTT(45), <1>5
    <3> QED
      BY SMTT(30), SMTT(45), <1>3, <2>4, <3>1 DEF TypeOK
  <2>5. v \in votes => v[3] \in Nat
    BY SMTT(30), SMTT(45) DEF TypeOK
  <2> QED
    BY SMTT(30), SMTT(45), <2>1, <2>2, <2>3, <2>4, <2>5
<1>8. CandidateInv'
  BY SMTT(30), SMTT(45), <1>3 DEF TypeOK, CoreInv, CandidateInv, Won, Follower, Candidate, Leader
<1>9. StableInv'
  BY Zenon DEF TypeOK, CoreInv, StableInv
<1> QED
  BY <1>6, <1>7, <1>8, <1>9, SMTT(30), SMTT(45) DEF CoreInv

\* A granted response adds a voter that was not counted yet.
LEMMA MoreVoters ==
    ASSUME TypeOK, ElectionInv, NEW c \in voteCalls, c.stage = "response", c.granted,
           State[c.from] = Candidate, CurrentTerm[c.from] = c.term
    PROVE  /\ Cardinality(voters[c.from] \cup {c.to}) = votesReceived[c.from] + 1
           /\ \A m \in voters[c.from] \cup {c.to} : <<m, c.from, c.term>> \in votes
<1>1. c.from \in Node /\ voters[c.from] \in SUBSET Node
  BY Zenon DEF TypeOK, CallOK
<1>2. c.to \notin voters[c.from] /\ <<c.to, c.from, c.term>> \in votes
  BY DEF ElectionInv, CallsInv
<1>3. votesReceived[c.from] = Cardinality(voters[c.from])
  BY <1>1 DEF ElectionInv, CandidateInv
<1>4. Cardinality(voters[c.from] \cup {c.to}) = Cardinality(voters[c.from]) + 1
  BY <1>1, <1>2, FS_Subset, FS_AddElement, NodeAssumption, SMTT(30), SMTT(45)
<1> QED
  BY Zenon, <1>1, <1>2, <1>3, <1>4 DEF ElectionInv, CandidateInv

\* A vote that is counted but does not decide keeps the core.
LEMMA CoreCount ==
    ASSUME TypeOK, ElectionInv, NEW c \in voteCalls, c.stage = "response", c.granted,
           State[c.from] = Candidate, CurrentTerm[c.from] = c.term,
           votesReceived' = [votesReceived EXCEPT ![c.from] = @ + 1],
           voters' = [voters EXCEPT ![c.from] = @ \cup {c.to}],
           UNCHANGED <<State, CurrentTerm, VotedFor, stable, votes, elected>>
    PROVE  CoreInv'
<1>1. c.from \in Node
  BY Zenon DEF TypeOK, CallOK
<1>2. QuorumInv' /\ VotesInv' /\ StableInv'
  BY ZenonT(90) DEF ElectionInv, QuorumInv, VotesInv, StableInv, Decided
<1>3. CandidateInv'
  <2>1. /\ Cardinality(voters[c.from] \cup {c.to}) = votesReceived[c.from] + 1
        /\ \A m \in voters[c.from] \cup {c.to} : <<m, c.from, c.term>> \in votes
    BY MoreVoters
  <2> QED
    BY SMTT(30), SMTT(45), <1>1, <2>1 DEF TypeOK, ElectionInv, CandidateInv, Won
<1> QED
  BY <1>2, <1>3 DEF CoreInv

\* The vote that completes a majority makes the only winner of the term
\* (becomeLeader).
LEMMA CoreWin ==
    ASSUME TypeOK, ElectionInv, NEW c \in voteCalls, c.stage = "response", c.granted,
           State[c.from] = Candidate, CurrentTerm[c.from] = c.term,
           votesReceived[c.from] + 1 >= votesNeeded,
           State' = [State EXCEPT ![c.from] = Leader],
           elected' = elected \cup {[node |-> c.from, term |-> CurrentTerm[c.from],
                                     quorum |-> voters[c.from] \cup {c.to}]},
           votesReceived' = [votesReceived EXCEPT ![c.from] = @ + 1],
           voters' = [voters EXCEPT ![c.from] = @ \cup {c.to}],
           UNCHANGED <<CurrentTerm, VotedFor, stable, votes>>
    PROVE  CoreInv'
<1> DEFINE n == c.from
           t == c.term
           Q == voters[n] \cup {c.to}
           win == [node |-> n, term |-> t, quorum |-> Q]
<1>1. n \in Node /\ c.to \in Node /\ t \in Nat /\ Q \in SUBSET Node /\ n \in Q
  BY ZenonT(30) DEF TypeOK, CallOK, ElectionInv, CandidateInv
<1>2. Cardinality(Q) >= votesNeeded /\ \A m \in Q : <<m, n, t>> \in votes
  BY Zenon, MoreVoters
<1>3. ~Decided(t)
  <2> SUFFICES ASSUME NEW f \in elected, f.term = t PROVE FALSE
    BY Zenon DEF Decided
  <2>1. f.quorum \in SUBSET Node
    BY ZenonT(60) DEF TypeOK
  <2>2. PICK m : m \in f.quorum /\ m \in Q
    BY SMTT(30), SMTT(45), <1>1, <1>2, <2>1, QuorumsMeet DEF ElectionInv, QuorumInv
  <2>3. n = f.node
    BY ZenonT(90), <1>1, <1>2, <2>2 DEF ElectionInv, QuorumInv
  <2> QED
    BY SMTT(30), SMTT(45), <1>1, <2>3 DEF ElectionInv, CandidateInv, Won
<1>4. \A m \in Q : /\ \A d \in Node : <<m, d, t>> \in votes => d = n
                   /\ CurrentTerm[m] >= t
                   /\ CurrentTerm[m] = t =>
                        VotedFor[m] = n /\ (State[m] = Follower \/ m = n)
  BY ZenonT(30), <1>2, <1>3 DEF ElectionInv, VotesInv
<1>5. elected' = elected \cup {win}
  OBVIOUS
<1>6. win.node = n /\ win.term = t /\ win.quorum = Q
  BY Zenon
<1>7. QuorumInv'
  <2>1. ASSUME NEW f \in elected
        PROVE  /\ f.node \in f.quorum
               /\ Cardinality(f.quorum) >= votesNeeded
               /\ \A m \in f.quorum :
                    /\ <<m, f.node, f.term>> \in votes
                    /\ \A d \in Node : <<m, d, f.term>> \in votes => d = f.node
                    /\ CurrentTerm[m] >= f.term
                    /\ CurrentTerm[m] = f.term =>
                         VotedFor[m] = f.node /\ (State'[m] = Follower \/ m = f.node)
    <3>1. f.term # t /\ f.quorum \in SUBSET Node
      BY Zenon, <1>3 DEF Decided, TypeOK
    <3> QED
      BY ZenonT(30), <1>1, <3>1 DEF TypeOK, ElectionInv, QuorumInv
  <2>2. \A m \in Q : State'[m] = State[m] \/ m = n
    BY Zenon, <1>1 DEF TypeOK
  <2> HIDE DEF win
  <2>3. ASSUME NEW f, f = win
        PROVE  /\ f.node \in f.quorum
               /\ Cardinality(f.quorum) >= votesNeeded
               /\ \A m \in f.quorum :
                    /\ <<m, f.node, f.term>> \in votes
                    /\ \A d \in Node : <<m, d, f.term>> \in votes => d = f.node
                    /\ CurrentTerm[m] >= f.term
                    /\ CurrentTerm[m] = f.term =>
                         VotedFor[m] = f.node /\ (State'[m] = Follower \/ m = f.node)
    <3>1. f.node = n /\ f.term = t /\ f.quorum = Q
      BY Zenon, <1>6, <2>3
    <3>2. \A m \in Q : CurrentTerm[m] = t => State'[m] = Follower \/ m = n
      BY Zenon, <1>4, <2>2
    <3> HIDE DEF n, t, Q
    <3> QED
      BY ZenonT(30), <1>1, <1>2, <1>4, <3>1, <3>2
  <2> QED
    BY ZenonT(30), <1>5, <2>1, <2>3 DEF QuorumInv
<1> HIDE DEF win
<1>8. VotesInv'
  <2> SUFFICES ASSUME NEW v \in votes, ~Decided(v[3])'
               PROVE  /\ \A w \in votes : w[1] = v[1] /\ w[3] = v[3] => w[2] = v[2]
                      /\ CurrentTerm[v[1]] = v[3] =>
                           VotedFor[v[1]] = v[2] /\ (State'[v[1]] = Follower \/ v[1] = v[2])
    BY Zenon DEF ElectionInv, VotesInv
  <2>1. ~Decided(v[3]) /\ v[3] # t
    BY ZenonT(30), <1>5, <1>6 DEF Decided
  <2>2. v[1] \in Node
    BY Zenon DEF TypeOK
  <2>3. CurrentTerm[v[1]] = v[3] => State'[v[1]] = State[v[1]]
    BY ZenonT(30), <1>1, <2>1, <2>2 DEF TypeOK
  <2> QED
    BY Zenon, <2>1, <2>3 DEF ElectionInv, VotesInv
<1>9. CandidateInv'
  <2>1. Won(n, t)'
    BY Zenon, <1>5, <1>6 DEF Won
  <2>2. \A m \in Node : m # n => (Won(m, CurrentTerm[m])' <=> Won(m, CurrentTerm[m]))
    BY Zenon, <1>5, <1>6 DEF Won
  <2>3. /\ State'[n] = Leader
        /\ \A m \in Node \ {n} : /\ State'[m] = State[m] /\ voters'[m] = voters[m]
                                /\ votesReceived'[m] = votesReceived[m]
    BY Zenon, <1>1 DEF TypeOK
  <2>4. Leader # Follower /\ Leader # Candidate /\ Candidate # Follower
    BY Zenon DEF Leader, Candidate, Follower
  <2>5. VotedFor[n] = n
    BY Zenon, <1>1, <2>4 DEF ElectionInv, CandidateInv
  <2>6. CurrentTerm'[n] = t /\ VotedFor'[n] = n
    BY Zenon, <2>5
  <2> HIDE DEF n, t
  <2>7. ASSUME NEW m \in Node, m # n
        PROVE  /\ State'[m] # Follower => VotedFor'[m] = m
               /\ State'[m] = Leader => Won(m, CurrentTerm[m])'
               /\ State'[m] = Candidate =>
                    /\ ~Won(m, CurrentTerm[m])'
                    /\ m \in voters'[m]
                    /\ votesReceived'[m] = Cardinality(voters'[m])
                    /\ \A k \in voters'[m] : <<k, m, CurrentTerm'[m]>> \in votes'
    BY ZenonT(60), <2>2, <2>3, <2>7 DEF ElectionInv, CandidateInv
  <2> QED
    BY ZenonT(60), <2>1, <2>3, <2>4, <2>6, <2>7 DEF CandidateInv
<1>10. StableInv'
  BY Zenon DEF ElectionInv, StableInv
<1> QED
  BY Zenon, <1>7, <1>8, <1>9, <1>10 DEF CoreInv

\* Terms that only grow, between a call's term and its candidate's.
LEMMA Squeeze == \A i, j, k \in Nat : i <= j /\ k >= j => i <= k /\ (k = i => j = i)
  BY SMTT(30), SMTT(45)

\* The calls of the next state are those of this one, moved on: each continues
\* one of them, no two the same, and a granted answer stands for a vote.
LEMMA CallsFollow ==
    ASSUME TypeOK, TypeOK', CallsInv,
           \A n \in Node :
              /\ CurrentTerm'[n] >= CurrentTerm[n]
              /\ State'[n] = Candidate =>
                   /\ State[n] = Candidate
                   /\ CurrentTerm'[n] = CurrentTerm[n]
                   /\ voters'[n] = voters[n],
           elected \subseteq elected',
           \A d \in voteCalls' :
              /\ \E c \in voteCalls : d.from = c.from /\ d.to = c.to /\ d.term = c.term
              /\ d.stage = "response" /\ d.granted => <<d.to, d.from, d.term>> \in votes'
              /\ \A f \in voteCalls' :
                   d.from = f.from /\ d.to = f.to /\ d.term = f.term => d = f,
           \A d \in replCalls' : \E c \in replCalls : d.from = c.from /\ d.term = c.term
    PROVE  CallsInv'
<1>1. \A d \in replCalls' : Won(d.from, d.term)'
  BY DEF CallsInv, Won
<1>2. ASSUME NEW d \in voteCalls'
      PROVE  /\ d.term <= CurrentTerm'[d.from]
             /\ State'[d.from] = Candidate /\ CurrentTerm'[d.from] = d.term
                  => d.to \notin voters'[d.from]
  <2>1. PICK c \in voteCalls : d.from = c.from /\ d.to = c.to /\ d.term = c.term
    BY ZenonT(30), <1>2
  <2>2. /\ c.from \in Node /\ c.term \in Nat
        /\ CurrentTerm[c.from] \in Nat /\ CurrentTerm'[c.from] \in Nat
    BY DEF TypeOK, CallOK
  <2>3. /\ c.term <= CurrentTerm[c.from]
        /\ State[c.from] = Candidate /\ CurrentTerm[c.from] = c.term
             => c.to \notin voters[c.from]
    BY Zenon DEF CallsInv
  <2>4. /\ CurrentTerm'[c.from] >= CurrentTerm[c.from]
        /\ State'[c.from] = Candidate
             => State[c.from] = Candidate /\ voters'[c.from] = voters[c.from]
    BY Zenon, <2>2
  <2>5. c.term <= CurrentTerm'[c.from] /\ (CurrentTerm'[c.from] = c.term => CurrentTerm[c.from] = c.term)
    <3> DEFINE i == c.term
               j == CurrentTerm[c.from]
               k == CurrentTerm'[c.from]
    <3>1. i \in Nat /\ j \in Nat /\ k \in Nat /\ i <= j /\ k >= j
      BY Zenon, <2>2, <2>3, <2>4
    <3>2. i <= k /\ (k = i => j = i)
      <4> HIDE DEF i, j, k
      <4> QED
        BY Zenon, <3>1, Squeeze
    <3> QED
      BY Zenon, <3>2
  <2>6. d.term <= CurrentTerm'[d.from]
    BY Zenon, <2>1, <2>5
  <2>7. ASSUME State'[d.from] = Candidate, CurrentTerm'[d.from] = d.term
        PROVE  d.to \notin voters'[d.from]
    <3>1. State'[c.from] = Candidate /\ CurrentTerm'[c.from] = c.term
      BY Zenon, <2>1, <2>7
    <3>2. c.to \notin voters'[c.from]
      BY Zenon, <2>3, <2>4, <2>5, <3>1
    <3> QED
      BY Zenon, <2>1, <3>2
  <2> QED
    BY Zenon, <2>6, <2>7
<1> QED
  BY ZenonT(60), <1>1, <1>2 DEF CallsInv

\* A step that starts no campaign, counts no vote and sends no vote request
\* keeps the invariant on calls.
LEMMA CallsKept ==
    ASSUME TypeOK, TypeOK', CallsInv,
           \A n \in Node :
              /\ CurrentTerm'[n] >= CurrentTerm[n]
              /\ State'[n] = Candidate =>
                   /\ State[n] = Candidate
                   /\ CurrentTerm'[n] = CurrentTerm[n]
                   /\ voters'[n] = voters[n],
           elected \subseteq elected',
           votes' = votes, voteCalls' \subseteq voteCalls,
           \A d \in replCalls' : \E c \in replCalls : d.from = c.from /\ d.term = c.term
    PROVE  CallsInv'
<1>1. \A d \in voteCalls' :
        /\ \E c \in voteCalls : d.from = c.from /\ d.to = c.to /\ d.term = c.term
        /\ d.stage = "response" /\ d.granted => <<d.to, d.from, d.term>> \in votes'
        /\ \A f \in voteCalls' :
             d.from = f.from /\ d.to = f.to /\ d.term = f.term => d = f
  BY Zenon DEF CallsInv
<1> QED
  BY Zenon, <1>1, CallsFollow

\* An answered vote request continues its call, and a granted answer stands for
\* a vote (HandleRequestVote).
LEMMA CallsAnswered ==
    ASSUME TypeOK, CallsInv, NEW c \in voteCalls, NEW g,
           g => <<c.to, c.from, c.term>> \in votes', votes \subseteq votes',
           voteCalls' = Answer(voteCalls, c,
             [stage |-> "response", from |-> c.from, to |-> c.to, term |-> c.term,
              respTerm |-> CurrentTerm[c.to], granted |-> g])
    PROVE  \A d \in voteCalls' :
        /\ \E b \in voteCalls : d.from = b.from /\ d.to = b.to /\ d.term = b.term
        /\ d.stage = "response" /\ d.granted => <<d.to, d.from, d.term>> \in votes'
        /\ \A f \in voteCalls' :
             d.from = f.from /\ d.to = f.to /\ d.term = f.term => d = f
<1> DEFINE resp == [stage |-> "response", from |-> c.from, to |-> c.to, term |-> c.term,
                    respTerm |-> CurrentTerm[c.to], granted |-> g]
<1>1. /\ resp.from = c.from /\ resp.to = c.to /\ resp.term = c.term
      /\ (resp.granted = g)
  OBVIOUS
<1>2. voteCalls' \subseteq (voteCalls \ {c}) \cup {resp}
  BY Zenon DEF Answer
<1> HIDE DEF resp
<1>3. \A d \in voteCalls \ {c} : ~(d.from = c.from /\ d.to = c.to /\ d.term = c.term)
  BY Zenon DEF CallsInv
<1>4. ASSUME NEW d \in voteCalls \ {c}
      PROVE  d.stage = "response" /\ d.granted => <<d.to, d.from, d.term>> \in votes'
  BY Zenon DEF CallsInv
<1>5. resp.granted => <<resp.to, resp.from, resp.term>> \in votes'
  BY Zenon, <1>1
<1>6. \A d, f \in voteCalls \ {c} :
         d.from = f.from /\ d.to = f.to /\ d.term = f.term => d = f
  BY Zenon DEF CallsInv
<1>7. \A d \in voteCalls' : \E b \in voteCalls :
         d.from = b.from /\ d.to = b.to /\ d.term = b.term
  BY <1>1, <1>2
<1>8. \A d \in voteCalls' :
         d.stage = "response" /\ d.granted => <<d.to, d.from, d.term>> \in votes'
  BY <1>2, <1>4, <1>5, ZenonT(30)
<1>9. \A d, f \in voteCalls' :
         d.from = f.from /\ d.to = f.to /\ d.term = f.term => d = f
  BY SMTT(30), SMTT(45), <1>1, <1>2, <1>3, <1>6
<1> QED
  BY ZenonT(30), <1>7, <1>8, <1>9

\* Losing a process keeps its calls apart.
LEMMA GoneApart ==
    ASSUME NEW n, NEW calls, NEW responses,
           {"request", "AppendEntries", "InstallSnapshot"} \cap responses = {},
           \A c \in calls : CallOK(c, responses),
           \A c, d \in calls : c.from = d.from /\ c.to = d.to /\ c.term = d.term => c = d
    PROVE  \A d, f \in Gone(n, calls) :
             d.from = f.from /\ d.to = f.to /\ d.term = f.term => d = f
<1>1. ASSUME NEW d \in Gone(n, calls)
      PROVE  \E c \in calls : /\ d.from = c.from /\ d.to = c.to /\ d.term = c.term
                              /\ d = (IF c.from = n THEN [c EXCEPT !.waiting = FALSE] ELSE c)
  <2>1. CASE d \in calls /\ d.from # n
    BY <2>1, Zenon
  <2>2. CASE ~(d \in calls /\ d.from # n)
    <3>1. PICK c \in calls : c.from = n /\ d = [c EXCEPT !.waiting = FALSE]
      BY <2>2 DEF Gone
    <3>2. {"stage", "from", "to", "term"} \subseteq DOMAIN c
      BY DEF CallOK
    <3>3. d.from = c.from /\ d.to = c.to /\ d.term = c.term
      BY <3>1, <3>2
    <3> QED
      BY <3>1, <3>3, Zenon
  <2> QED
    BY <2>1, <2>2
<1>2. ASSUME NEW d \in Gone(n, calls), NEW f \in Gone(n, calls),
             d.from = f.from, d.to = f.to, d.term = f.term
      PROVE  d = f
  <2>1. PICK c \in calls : /\ d.from = c.from /\ d.to = c.to /\ d.term = c.term
                           /\ d = (IF c.from = n THEN [c EXCEPT !.waiting = FALSE] ELSE c)
    BY <1>1, Zenon
  <2>2. PICK b \in calls : /\ f.from = b.from /\ f.to = b.to /\ f.term = b.term
                           /\ f = (IF b.from = n THEN [b EXCEPT !.waiting = FALSE] ELSE b)
    BY <1>1, Zenon
  <2>3. c = b
    BY <1>2, <2>1, <2>2, Zenon
  <2> QED
    BY <2>1, <2>2, <2>3, Zenon
<1> QED
  BY <1>2

============================================================================
