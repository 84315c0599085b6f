--------------------------- MODULE GatewayProofs ---------------------------
(***************************************************************************)
(* The gateway's types, credits and circuit breakers, proved for any       *)
(* number of requests and reloads, any prices and any settings.            *)
(***************************************************************************)
EXTENDS GatewaySafety, FiniteSetTheorems, TLAPS

-----------------------------------------------------------------------------
(* The circuit breaker.                                                    *)

SoundBreaker(b) == b \in BreakerType /\ (b.state = CircuitClosed => ~TripsOn(b.events))

\* A new breaker is closed, and an empty window trips nothing.
LEMMA NewBreaker == SoundBreaker(NewCircuitBreaker)
<1>1. <<>> \in Seq(BOOLEAN) /\ Len(<<>>) = 0
  OBVIOUS
<1> QED
  BY <1>1, BreakerAssumption
     DEF SoundBreaker, NewCircuitBreaker, BreakerType, TripsOn, CircuitClosed

\* Setting the state and both counters of a half-open breaker.
LEMMA ResetBreaker ==
    ASSUME NEW b \in BreakerType, NEW s \in {CircuitClosed, CircuitOpen, CircuitHalfOpen}
    PROVE  LET c == [b EXCEPT !.state = s, !.halfOpenInFlight = 0, !.halfOpenSuccess = 0]
           IN  c \in BreakerType /\ c.state = s /\ c.events = b.events
<1> DEFINE b1 == [b EXCEPT !.state = s]
           b2 == [b1 EXCEPT !.halfOpenInFlight = 0]
           b3 == [b2 EXCEPT !.halfOpenSuccess = 0]
<1>1. b1 \in BreakerType /\ b1.state = s /\ b1.events = b.events
  BY DEF BreakerType
<1>2. [b EXCEPT !.state = s, !.halfOpenInFlight = 0, !.halfOpenSuccess = 0] = b3
  OBVIOUS
<1> HIDE DEF b1
<1>3. b2 \in BreakerType /\ b2.state = s /\ b2.events = b.events
  BY <1>1, BreakerAssumption, SMTT(30), SMTT(45) DEF BreakerType
<1> HIDE DEF b2
<1>4. b3 \in BreakerType /\ b3.state = s /\ b3.events = b.events
  BY <1>3, BreakerAssumption, SMTT(30), SMTT(45) DEF BreakerType
<1> QED
  BY <1>2, <1>4

\* Allow lets no more trials in than there may be, and leaves the window alone.
LEMMA AllowSound ==
    ASSUME NEW b, SoundBreaker(b), NEW slept \in BOOLEAN
    PROVE  SoundBreaker(Allow(Awake(b, slept)))
<1> DEFINE a == Awake(b, slept)
<1>1. SoundBreaker(a)
  <2>1. SoundBreaker([b EXCEPT !.state = CircuitHalfOpen, !.halfOpenInFlight = 0,
                               !.halfOpenSuccess = 0])
    BY ResetBreaker, Zenon DEF SoundBreaker, CircuitClosed, CircuitHalfOpen
  <2> QED
    BY <2>1, Zenon DEF Awake
<1> HIDE DEF a
<1>2. SoundBreaker(Allow(a))
  BY <1>1, BreakerAssumption, SMTT(30), SMTT(45)
     DEF SoundBreaker, BreakerType, Allow, Admits, Admitted, CircuitClosed, CircuitHalfOpen
<1> QED
  BY <1>2 DEF a

\* Report ends a trial, drops the window of a breaker that recovers, and opens
\* one whose window has become bad enough.
LEMMA ReportSound ==
    ASSUME NEW b, SoundBreaker(b), NEW success \in BOOLEAN, NEW expired \in Expirable(b)
    PROVE  SoundBreaker(Report(b, success, expired))
<1>1. CASE b.state = CircuitHalfOpen
  <2> DEFINE fewer == [b EXCEPT !.halfOpenInFlight = IF @ > 0 THEN @ - 1 ELSE 0]
  <2>1. fewer \in BreakerType /\ fewer.state = CircuitHalfOpen
    BY <1>1, BreakerAssumption, SMTT(30), SMTT(45) DEF SoundBreaker, BreakerType
  <2> HIDE DEF fewer
  <2>2. SoundBreaker(tripOpenLocked(fewer))
    BY <2>1, ResetBreaker, Zenon DEF tripOpenLocked, SoundBreaker, CircuitClosed, CircuitOpen
  <2>4. SoundBreaker(Recovered(fewer))
    <3> DEFINE none == <<>>
               emptied == [fewer EXCEPT !.events = none]
    <3>0. none \in Seq(BOOLEAN)
      OBVIOUS
    <3> HIDE DEF none
    <3>1. emptied \in BreakerType /\ emptied.events = none
      BY <2>1, <3>0 DEF BreakerType
    <3> USE DEF none
    <3>2. Recovered(fewer) = [emptied EXCEPT !.state = CircuitClosed, !.halfOpenInFlight = 0,
                                             !.halfOpenSuccess = 0]
      BY <2>1, Zenon DEF Recovered, BreakerType
    <3> HIDE DEF emptied
    <3>3. Recovered(fewer) \in BreakerType /\ Recovered(fewer).events = <<>>
      BY <3>1, <3>2, ResetBreaker, Zenon
    <3> QED
      BY <3>3, BreakerAssumption DEF SoundBreaker, TripsOn
  <2>5. CASE ~(fewer.halfOpenSuccess + 1 >= HalfOpenRequests)
    <3>1. SoundBreaker([fewer EXCEPT !.halfOpenSuccess = @ + 1])
      BY <2>1, <2>5, BreakerAssumption, SMTT(30), SMTT(45)
         DEF SoundBreaker, BreakerType, CircuitClosed, CircuitHalfOpen
    <3> QED
      BY <1>1, <2>2, <2>5, <3>1 DEF Report, ReportHalfOpen, fewer
  <2> QED
    BY <1>1, <2>2, <2>4, <2>5 DEF Report, ReportHalfOpen, fewer
<1>2. CASE b.state = CircuitOpen
  BY <1>2 DEF Report, CircuitOpen, CircuitHalfOpen
<1>3. CASE b.state = CircuitClosed
  <2> DEFINE events == SubSeq(Append(b.events, success), expired + 1, Len(b.events) + 1)
             kept == [b EXCEPT !.events = events]
  <2>1. events \in Seq(BOOLEAN)
    <3>1. b.events \in Seq(BOOLEAN)
      BY DEF SoundBreaker, BreakerType
    <3> QED
      BY <3>1 DEF Expirable
  <2> HIDE DEF events
  <2>2. kept \in BreakerType /\ kept.state = CircuitClosed /\ kept.events = events
    BY <1>3, <2>1 DEF SoundBreaker, BreakerType
  <2> HIDE DEF kept
  <2>3. SoundBreaker(tripOpenLocked(kept))
    BY <2>2, ResetBreaker, Zenon DEF tripOpenLocked, SoundBreaker, CircuitClosed, CircuitOpen
  <2>4. ~TripsOn(events) => SoundBreaker(kept)
    BY <2>2 DEF SoundBreaker
  <2> QED
    BY <1>3, <2>3, <2>4
       DEF Report, ReportClosed, events, kept, CircuitClosed, CircuitOpen, CircuitHalfOpen
<1> QED
  BY <1>1, <1>2, <1>3 DEF SoundBreaker, BreakerType

-----------------------------------------------------------------------------
(* The audit logger.                                                       *)

Fits(l) == l \in LoggerType /\ Len(l.entries) <= BufferSize /\ Len(l.batch) <= BatchSize

\* Log never puts more in the channel than its buffer holds.
LEMMA QueuedFits ==
    ASSUME NEW l, Fits(l), NEW e \in Requests
    PROVE  Fits(Queued(l, e)) /\ Queued(l, e).started = l.started
<1>1. CASE Len(l.entries) < BufferSize
  <2> DEFINE es == Append(l.entries, e)
  <2>1. es \in Seq(Requests) /\ Len(es) = Len(l.entries) + 1
    BY DEF Fits, LoggerType
  <2>2. Queued(l, e) = [l EXCEPT !.entries = es]
    BY <1>1 DEF Queued
  <2> HIDE DEF es
  <2>3. Len(l.entries) \in Nat
    BY DEF Fits, LoggerType
  <2>4. /\ Queued(l, e) \in LoggerType /\ Queued(l, e).entries = es
        /\ Queued(l, e).batch = l.batch /\ Queued(l, e).started = l.started
    BY <2>1, <2>2, Zenon DEF Fits, LoggerType
  <2> QED
    BY <1>1, <2>1, <2>3, <2>4, LoggerAssumption DEF Fits
<1>2. CASE ~(Len(l.entries) < BufferSize)
  BY <1>2 DEF Queued, Fits, LoggerType
<1> QED
  BY <1>1, <1>2

\* A receive moves an entry to a batch that is not full.
LEMMA ReceivedFits ==
    ASSUME NEW l, Fits(l), l.entries # <<>>, ~Full(l)
    PROVE  Fits(Received(l)) /\ Received(l).started = l.started
<1> DEFINE es == Tail(l.entries)
           bs == Append(l.batch, Head(l.entries))
           l1 == [l EXCEPT !.entries = es]
           l2 == [l1 EXCEPT !.batch = bs]
<1>1. /\ es \in Seq(Requests) /\ Len(es) = Len(l.entries) - 1
      /\ bs \in Seq(Requests) /\ Len(bs) = Len(l.batch) + 1
      /\ Len(l.entries) \in Nat /\ Len(l.batch) \in Nat
  BY DEF Fits, LoggerType
<1>2. Received(l) = l2
  BY DEF Received
<1> HIDE DEF es, bs
<1>3. l1 \in LoggerType /\ l1.entries = es /\ l1.started = l.started
  BY <1>1, Zenon DEF Fits, LoggerType
<1> HIDE DEF l1
<1>4. l2 \in LoggerType /\ l2.entries = es /\ l2.batch = bs /\ l2.started = l.started
  BY <1>1, <1>3, SMTT(30), SMTT(45) DEF LoggerType
<1> QED
  BY <1>1, <1>2, <1>4, LoggerAssumption DEF Fits, Full

LEMMA FlushedFits ==
    ASSUME NEW l \in LoggerType, Len(l.entries) <= BufferSize
    PROVE  Fits(Flushed(l)) /\ Flushed(l).started = l.started
<1> DEFINE none == <<>>
<1>1. none \in Seq(Requests) /\ Len(none) = 0
  OBVIOUS
<1>2. Flushed(l) = [l EXCEPT !.batch = none]
  BY DEF Flushed
<1> HIDE DEF none
<1>3. /\ Flushed(l) \in LoggerType /\ Flushed(l).batch = none
      /\ Flushed(l).entries = l.entries /\ Flushed(l).started = l.started
  BY <1>1, <1>2, Zenon DEF LoggerType
<1> QED
  BY <1>1, <1>3, LoggerAssumption DEF Fits

-----------------------------------------------------------------------------
(* Types.                                                                  *)

\* A request that ends its proxying, or has called Log, is put in order.
LEMMA IdleType ==
    ASSUME NEW pc \in {"log", "deduct", "return", "done"}, NEW g \in Gen \cup {0}
    PROVE  Idle(pc, g) \in RequestType /\ Idle(pc, g).pc = pc /\ Idle(pc, g).gen = g
  BY GatewayAssumption DEF Idle, RequestType

\* An insert adds rows to natural numbers of rows.
LEMMA CountNat == ASSUME NEW es \in Seq(Requests), NEW r PROVE Count(es, r) \in Nat
<1>1. IsFiniteSet(DOMAIN es)
  BY FS_Interval
<1>2. IsFiniteSet({k \in DOMAIN es : es[k] = r})
  BY <1>1, FS_Subset
<1> QED
  BY <1>2, FS_CardinalityType DEF Count

LEMMA InsertedType ==
    ASSUME db \in DbType, NEW es \in Seq(Requests)
    PROVE  /\ Inserted(es) \in DbType /\ Inserted(es).writer = db.writer
           /\ Inserted(es).balance = db.balance /\ Inserted(es).consumed = db.consumed
           /\ \A r \in Requests : Inserted(es).audit[r] = db.audit[r] + Count(es, r)
<1> DEFINE rows == [r \in Requests |-> db.audit[r] + Count(es, r)]
<1>1. rows \in [Requests -> Nat]
  BY CountNat DEF DbType
<1>2. Inserted(es) = [db EXCEPT !.audit = rows]
  BY DEF Inserted
<1> HIDE DEF rows
<1>3. /\ Inserted(es) \in DbType /\ Inserted(es).writer = db.writer
      /\ Inserted(es).balance = db.balance /\ Inserted(es).consumed = db.consumed
      /\ Inserted(es).audit = rows
  BY <1>1, <1>2, Zenon DEF DbType
<1> QED
  BY <1>3 DEF rows

LEMMA WriterType ==
    ASSUME db \in DbType, NEW w \in Requests \cup {NoOne}
    PROVE  LET d == [db EXCEPT !.writer = w]
           IN  /\ d \in DbType /\ d.writer = w
               /\ d.balance = db.balance /\ d.consumed = db.consumed /\ d.audit = db.audit
  BY DEF DbType

\* Commit: the lock is free, the cost is gone from the balance, and there is a
\* consume row of the request.
Charged(r) == [db EXCEPT !.writer = NoOne, !.balance = @ - Cost, !.consumed[r] = @ + 1]
LEMMA ChargedType ==
    ASSUME db \in DbType, NEW r \in Requests
    PROVE  /\ Charged(r) \in DbType /\ Charged(r).writer = NoOne
           /\ Charged(r).balance = db.balance - Cost
           /\ Charged(r).consumed = [db.consumed EXCEPT ![r] = @ + 1]
           /\ Charged(r).audit = db.audit
<1> DEFINE rows == [db.consumed EXCEPT ![r] = @ + 1]
           d1 == [db EXCEPT !.writer = NoOne]
           d2 == [d1 EXCEPT !.balance = db.balance - Cost]
           d3 == [d2 EXCEPT !.consumed = rows]
<1>1. rows \in [Requests -> Nat]
  BY DEF DbType
<1>2. Charged(r) = d3
  BY DEF Charged, DbType
<1> HIDE DEF rows
<1>3. /\ d1 \in DbType /\ d1.writer = NoOne /\ d1.audit = db.audit
  BY DEF DbType
<1> HIDE DEF d1
<1>4. d2 \in DbType /\ d2.writer = NoOne /\ d2.audit = db.audit /\ d2.balance = db.balance - Cost
  BY <1>3, GatewayAssumption DEF DbType
<1> HIDE DEF d2
<1>5. /\ d3 \in DbType /\ d3.writer = NoOne /\ d3.audit = db.audit
      /\ d3.balance = db.balance - Cost /\ d3.consumed = rows
  BY <1>1, <1>4 DEF DbType
<1> QED
  BY <1>2, <1>5 DEF rows

RequestPcs == {"new", "pipeline", "auth", "proxy", "deduct", "commit", "log", "return", "done"}
Moved(r, label, g) ==
    /\ req' \in [Requests -> RequestType]
    /\ req'[r].pc = label /\ req'[r].gen = g
    /\ \A q \in Requests \ {r} : req'[q] = req[q]

\* A request that moves on keeps its generation, and is the only one to move.
LEMMA GotoMoves ==
    ASSUME req \in [Requests -> RequestType], NEW r \in Requests, NEW label \in RequestPcs,
           Goto(r, label)
    PROVE  Moved(r, label, G(r))
<1> DEFINE w == [req[r] EXCEPT !.pc = label]
<1>1. w \in RequestType /\ w.pc = label /\ w.gen = G(r)
  BY DEF RequestPcs, RequestType, G
<1>2. req' = [req EXCEPT ![r] = w]
  BY DEF Goto
<1> HIDE DEF w
<1> QED
  BY <1>1, <1>2 DEF Moved

LEMMA IdleMoves ==
    ASSUME req \in [Requests -> RequestType], NEW r \in Requests,
           NEW label \in {"log", "deduct", "return", "done"}, NEW g \in Gen \cup {0},
           req' = [req EXCEPT ![r] = Idle(label, g)]
    PROVE  Moved(r, label, g)
<1> DEFINE w == Idle(label, g)
<1>1. w \in RequestType /\ w.pc = label /\ w.gen = g
  BY IdleType
<1> HIDE DEF w
<1> QED
  BY <1>1 DEF Moved, w

\* After an attempt the request tries again, is charged or is over.
LEMMA AfterAttemptType ==
    ASSUME NEW q \in RequestType, q.pc = "proxy", q.gen \in Gen, NEW outcome
    PROVE  LET w == AfterAttempt(q, outcome)
           IN  w \in RequestType /\ w.gen = q.gen /\ w.pc \in {"proxy", "deduct", "log"}
<1>1. MaxAttempts \in Nat \ {0}
  BY GatewayAssumption
<1>2. CASE q.attempt = MaxAttempts \/ outcome \notin {"error", "retryable"}
  BY <1>2, IdleType DEF AfterAttempt
<1>3. CASE q.attempt # MaxAttempts /\ outcome \in {"error", "retryable"}
  <2>1. AfterAttempt(q, outcome) = [q EXCEPT !.attempt = @ + 1]
    BY <1>3 DEF AfterAttempt
  <2>2. q.attempt + 1 \in 1 .. MaxAttempts
    BY <1>1, <1>3 DEF RequestType
  <2> QED
    BY <2>1, <2>2 DEF RequestType
<1> QED
  BY <1>2, <1>3

\* What the steps before a charge have in common: they touch the request and
\* its breaker alone.
Proceeds(r) ==
    /\ req[r].pc \in {"new", "pipeline", "auth", "proxy", "deduct"}
    /\ \E label \in {"pipeline", "auth", "proxy", "deduct", "log"}, g \in Gen : Moved(r, label, g)
    /\ \/ UNCHANGED cb
       \/ \E b : cb' = [cb EXCEPT ![G(r)] = b] /\ (SoundBreaker(cb[G(r)]) => SoundBreaker(b))
    /\ UNCHANGED <<lg, db, failed, life>>

LEMMA RequestProceeds ==
    ASSUME TypeOK, LifeInv, NEW r \in Requests, Request(r)
    PROVE  \/ Proceeds(r) \/ UpdateCreditBalanceTx(r) \/ Commit(r) \/ Log(r) \/ Return(r)
<1> DEFINE early == {"new", "pipeline", "auth", "proxy", "deduct"}
           labels == {"pipeline", "auth", "proxy", "deduct", "log"}
<1>0. /\ req \in [Requests -> RequestType] /\ gw.gen \in Gen
      /\ req[r].pc \in early \ {"new"} => G(r) \in Gen
      /\ labels \subseteq RequestPcs
  BY DEF TypeOK, GatewayType, LifeInv, G, RequestPcs
<1>1. CASE Arrive(r)
  <2> DEFINE w == [req[r] EXCEPT !.pc = "pipeline", !.gen = gw.gen]
  <2>1. w \in RequestType /\ w.pc = "pipeline" /\ w.gen = gw.gen
    BY <1>0, Zenon DEF RequestType
  <2>2. req' = [req EXCEPT ![r] = w]
    BY <1>1, Zenon DEF Arrive
  <2> HIDE DEF w
  <2>3. Moved(r, "pipeline", gw.gen)
    BY <1>0, <2>1, <2>2 DEF Moved
  <2> QED
    BY <1>0, <1>1, <2>3 DEF Arrive, Proceeds
<1>2. CASE Blocked(r)
  BY <1>0, <1>2, GotoMoves DEF Blocked, Proceeds
<1>3. CASE PipelineExecute(r)
  <2>1. PICK slept \in BOOLEAN :
            /\ cb' = [cb EXCEPT ![G(r)] = Allow(Awake(cb[G(r)], slept))]
            /\ Goto(r, IF Admits(Awake(cb[G(r)], slept)) THEN "auth" ELSE "log")
    BY <1>3, Zenon DEF PipelineExecute
  <2>2. Moved(r, "auth", G(r)) \/ Moved(r, "log", G(r))
    BY <1>0, <2>1, GotoMoves
  <2>3. SoundBreaker(cb[G(r)]) => SoundBreaker(Allow(Awake(cb[G(r)], slept)))
    BY AllowSound
  <2> QED
    BY <1>0, <1>3, <2>1, <2>2, <2>3, Zenon DEF PipelineExecute, Proceeds
<1>4. CASE PreCheck(r)
  <2>1. PICK label \in {"proxy", "log"}, d \in BOOLEAN :
            req' = [req EXCEPT ![r].pc = label, ![r].deduct = d]
    BY <1>4, Zenon DEF PreCheck
  <2> DEFINE w == [req[r] EXCEPT !.pc = label, !.deduct = d]
  <2>2. w \in RequestType /\ w.pc = label /\ w.gen = G(r)
    BY <1>0, Zenon DEF RequestType, G
  <2>3. req' = [req EXCEPT ![r] = w]
    BY <2>1, Zenon
  <2> HIDE DEF w
  <2>4. Moved(r, label, G(r))
    BY <1>0, <2>2, <2>3 DEF Moved
  <2> QED
    BY <1>0, <1>4, <2>4 DEF PreCheck, Proceeds
<1>5. CASE NoTarget(r)
  BY <1>0, <1>5, IdleMoves, Zenon DEF NoTarget, Proceeds
<1>6. CASE Attempt(r)
  <2>1. PICK outcome \in {"error", "retryable", "response", "write_error"},
             expired \in Expirable(cb[G(r)]) :
            /\ cb' = [cb EXCEPT ![G(r)] = Report(cb[G(r)], Succeeds(outcome), expired)]
            /\ req' = [req EXCEPT ![r] = AfterAttempt(req[r], outcome)]
    BY <1>6, Zenon DEF Attempt
  <2> DEFINE w == AfterAttempt(req[r], outcome)
  <2>2. w \in RequestType /\ w.gen = G(r) /\ w.pc \in {"proxy", "deduct", "log"}
    BY <1>0, <1>6, AfterAttemptType DEF Attempt, G
  <2>3. req' = [req EXCEPT ![r] = w]
    BY <2>1
  <2> HIDE DEF w
  <2>4. Moved(r, w.pc, G(r))
    BY <1>0, <2>2, <2>3 DEF Moved
  <2>5. Succeeds(outcome) \in BOOLEAN
    BY DEF Succeeds
  <2>6. SoundBreaker(cb[G(r)]) => SoundBreaker(Report(cb[G(r)], Succeeds(outcome), expired))
    BY <2>5, ReportSound
  <2> QED
    BY <1>0, <1>6, <2>1, <2>2, <2>4, <2>6, ZenonT(30) DEF Attempt, Proceeds
<1>7. CASE DeductFails(r)
  BY <1>0, <1>7, GotoMoves, SMTT(30), SMTT(45) DEF DeductFails, Proceeds
<1> QED
  BY <1>1, <1>2, <1>3, <1>4, <1>5, <1>6, <1>7, SMTT(30), SMTT(45) DEF Request

-----------------------------------------------------------------------------
(* Credits.                                                                *)

\* Steps that leave balance, rows and write lock alone.
LEMMA CreditsKept ==
    ASSUME TypeOK, CreditInv, NEW r \in Requests, NEW label, NEW g, Moved(r, label, g),
           db'.balance = db.balance, db'.consumed = db.consumed, db'.writer = db.writer,
           label # "commit", label = "return" => db.writer = r,
           db.consumed[r] = 1 => label \in {"log", "return", "done"}
    PROVE  CreditInv'
  BY DEF CreditInv, CreditsConserved, Moved

\* The UPDATE finds the lock free, takes it, and matches a row only if the
\* balance covers the cost.
LEMMA CreditsUpdate ==
    ASSUME TypeOK, CreditInv, NEW r \in Requests, UpdateCreditBalanceTx(r)
    PROVE  CreditInv'
<1>1. /\ db'.balance = db.balance /\ db'.consumed = db.consumed /\ db'.writer = r
      /\ db.writer = NoOne
  BY WriterType DEF UpdateCreditBalanceTx, TypeOK
<1>2. \/ Moved(r, "log", G(r))
      \/ Moved(r, "commit", G(r)) /\ db.balance >= Cost
  BY GotoMoves DEF UpdateCreditBalanceTx, Covers, TypeOK, RequestPcs
<1>3. \A q \in Requests : req[q].pc \notin {"commit", "return"}
  BY <1>1, GatewayAssumption DEF CreditInv
<1>4. req[r].pc = "deduct"
  BY DEF UpdateCreditBalanceTx
<1> QED
  BY <1>1, <1>2, <1>3, <1>4 DEF CreditInv, CreditsConserved, Moved

\* The charge: the request that commits holds the lock, so the balance is the
\* one its UPDATE saw.
LEMMA CreditsCommit ==
    ASSUME TypeOK, CreditInv, NEW r \in Requests, Commit(r)
    PROVE  CreditInv'
<1>1. Moved(r, "log", G(r)) /\ req[r].pc = "commit"
  BY GotoMoves DEF Commit, TypeOK, RequestPcs
<1>2. /\ db.writer = r /\ db.balance >= Cost /\ db.consumed[r] = 0
      /\ \A q \in Requests \ {r} : req[q].pc \notin {"commit", "return"}
  <2>1. db.consumed[r] \in Nat
    BY DEF TypeOK, DbType
  <2> QED
    BY <1>1, <2>1 DEF CreditInv, CreditsConserved
<1>3. CASE db' = [db EXCEPT !.writer = NoOne]
  <2>1. db'.balance = db.balance /\ db'.consumed = db.consumed
    BY <1>3, WriterType DEF TypeOK
  <2> QED
    BY <1>1, <1>2, <2>1 DEF CreditInv, CreditsConserved, Moved
<1>4. CASE db' = Charged(r)
  <2> DEFINE paid == {q \in Requests : db.consumed[q] = 1}
  <2>1. /\ db'.balance = db.balance - Cost
        /\ db'.consumed = [db.consumed EXCEPT ![r] = @ + 1]
    BY <1>4, ChargedType, Zenon DEF TypeOK
  <2>2. db'.consumed[r] = 1 /\ \A q \in Requests \ {r} : db'.consumed[q] = db.consumed[q]
    BY <1>2, <2>1 DEF TypeOK, DbType
  <2>3. {q \in Requests : db'.consumed[q] = 1} = paid \cup {r} /\ r \notin paid
    BY <1>2, <2>2
  <2>4. IsFiniteSet(paid)
    BY GatewayAssumption, FS_Subset
  <2>5. Cardinality(paid \cup {r}) = Cardinality(paid) + 1 /\ Cardinality(paid) \in Nat
    BY <2>3, <2>4, FS_AddElement, FS_CardinalityType, Zenon
  <2>6. db.balance \in Int /\ Cost \in Nat /\ Credits \in Nat
    BY GatewayAssumption DEF TypeOK, DbType
  <2>7. db.balance + Cost * Cardinality(paid) = Credits
    BY DEF CreditInv, CreditsConserved
  <2> HIDE DEF paid
  <2>8. db'.balance + Cost * Cardinality(paid \cup {r}) = Credits /\ db'.balance >= 0
    BY <1>2, <2>1, <2>5, <2>6, <2>7, SMTT(30), SMTT(45)
  <2>9. CreditsConserved'
    <3>1. \A q \in Requests : db'.consumed[q] <= 1
      BY <2>2, SMTT(30), SMTT(45) DEF CreditInv, CreditsConserved
    <3> QED
      BY <2>3, <2>8, <3>1, Zenon DEF CreditsConserved
  <2> QED
    BY <1>1, <1>2, <2>2, <2>9 DEF CreditInv, Moved
<1>5. CASE db' = db
  BY <1>1, <1>2, <1>5 DEF CreditInv, CreditsConserved, Moved
<1> QED
  BY <1>3, <1>4, <1>5 DEF Commit, Charged

LEMMA CreditsReturn ==
    ASSUME TypeOK, CreditInv, NEW r \in Requests, Return(r)
    PROVE  CreditInv'
<1>1. Moved(r, "done", G(r)) /\ req[r].pc = "return"
  BY GotoMoves DEF Return, TypeOK, RequestPcs
<1>2. db'.balance = db.balance /\ db'.consumed = db.consumed
  BY WriterType, SMTT(30), SMTT(45) DEF Return, TypeOK
<1>3. \A q \in Requests \ {r} : req[q].pc \notin {"commit", "return"}
  BY <1>1 DEF CreditInv
<1> QED
  BY <1>1, <1>2, <1>3, SMTT(30), SMTT(45) DEF CreditInv, CreditsConserved, Moved

-----------------------------------------------------------------------------
(* The invariant of this module, step by step.                             *)

SafeInv == TypeOK /\ LifeInv /\ ClosedBelowThreshold /\ CreditInv

LEMMA LoggersFit == ASSUME TypeOK PROVE \A g \in Gen : Fits(lg[g])
  BY DEF TypeOK, Fits

LEMMA SetLogger ==
    ASSUME TypeOK, NEW g, NEW l, Fits(l), lg' = [lg EXCEPT ![g] = l]
    PROVE  /\ lg' \in [Gen -> LoggerType]
           /\ \A h \in Gen : Len(lg'[h].entries) <= BufferSize /\ Len(lg'[h].batch) <= BatchSize
<1>1. lg \in [Gen -> LoggerType] /\ \A h \in Gen : Fits(lg[h])
  BY LoggersFit DEF TypeOK
<1>2. \A h \in Gen : Fits(lg'[h])
  BY <1>1
<1> QED
  BY <1>1, <1>2, Zenon DEF Fits

\* A step of a request: the invariant follows from what happens to the request,
\* its breaker, its logger and the database.
LEMMA RequestSafe ==
    ASSUME SafeInv, NEW r \in Requests, NEW label, NEW g \in Gen \cup {0}, Moved(r, label, g),
           label \in {"return", "done"} \/ g \in Gen,
           \/ UNCHANGED cb
           \/ \E b : cb' = [cb EXCEPT ![G(r)] = b] /\ (SoundBreaker(cb[G(r)]) => SoundBreaker(b)),
           UNCHANGED lg \/ \E h, l : Fits(l) /\ lg' = [lg EXCEPT ![h] = l],
           db' \in DbType, failed' \subseteq Requests, late' \subseteq Requests, CreditInv',
           UNCHANGED <<gw, store, routine, closed, adm, sd, panicked, hurried>>
    PROVE  SafeInv'
<1>1. cb' \in [Gen -> BreakerType] /\ ClosedBelowThreshold'
  <2>1. cb \in [Gen -> BreakerType] /\ \A h \in Gen : SoundBreaker(cb[h])
    BY DEF SafeInv, TypeOK, ClosedBelowThreshold, SoundBreaker
  <2>2. \A h \in Gen : SoundBreaker(cb'[h])
    BY <2>1, SMTT(30), SMTT(45)
  <2> QED
    BY <2>1, <2>2, SMTT(30), SMTT(45) DEF SoundBreaker, ClosedBelowThreshold
<1>2. /\ lg' \in [Gen -> LoggerType]
      /\ \A h \in Gen : Len(lg'[h].entries) <= BufferSize /\ Len(lg'[h].batch) <= BatchSize
  BY SetLogger, SMTT(30), SMTT(45) DEF SafeInv, TypeOK
<1>3. TypeOK'
  BY <1>1, <1>2, SMTT(30), SMTT(45) DEF SafeInv, TypeOK, Moved
<1>4. LifeInv'
  BY DEF SafeInv, LifeInv, Moved
<1> QED
  BY <1>1, <1>3, <1>4, SMTT(30), SMTT(45) DEF SafeInv

LEMMA RequestStep ==
    ASSUME SafeInv, NEW r \in Requests, Request(r)
    PROVE  SafeInv'
<1>0. /\ req \in [Requests -> RequestType] /\ db \in DbType /\ failed \subseteq Requests
      /\ late \subseteq Requests /\ TypeOK /\ LifeInv /\ CreditInv
  BY DEF SafeInv, TypeOK
<1>1. req[r].pc \in RequestPcs \ {"new", "return", "done"} => G(r) \in Gen
  BY DEF SafeInv, LifeInv, G, RequestPcs
<1>2. CASE Proceeds(r)
  <2>1. PICK label \in {"pipeline", "auth", "proxy", "deduct", "log"}, g \in Gen :
            Moved(r, label, g)
    BY <1>2, ZenonT(30) DEF Proceeds
  <2>2. CreditInv'
    BY <1>0, <1>2, <2>1, CreditsKept, SMTT(30), SMTT(45) DEF Proceeds, CreditInv
  <2> QED
    BY <1>0, <1>2, <2>1, <2>2, RequestSafe, Zenon DEF Proceeds, life
<1>3. CASE UpdateCreditBalanceTx(r)
  <2>1. PICK label \in {"commit", "log"} : Moved(r, label, G(r))
    BY <1>0, <1>3, GotoMoves DEF UpdateCreditBalanceTx, RequestPcs
  <2>2. db' \in DbType
    BY <1>0, <1>3, WriterType, Zenon DEF UpdateCreditBalanceTx
  <2> QED
    BY <1>0, <1>1, <1>3, <2>1, <2>2, CreditsUpdate, RequestSafe, SMTT(30), SMTT(45)
       DEF UpdateCreditBalanceTx, life, RequestPcs
<1>4. CASE Commit(r)
  <2>1. Moved(r, "log", G(r))
    BY <1>0, <1>4, GotoMoves DEF Commit, RequestPcs
  <2>2. db' \in DbType
    <3>1. db' = [db EXCEPT !.writer = NoOne] \/ db' = Charged(r) \/ db' = db
      BY <1>4 DEF Commit, Charged
    <3>2. [db EXCEPT !.writer = NoOne] \in DbType
      BY <1>0, WriterType
    <3>3. Charged(r) \in DbType
      BY <1>0, ChargedType, Zenon
    <3> QED
      BY <1>0, <3>1, <3>2, <3>3, Zenon
  <2> QED
    BY <1>0, <1>1, <1>4, <2>1, <2>2, CreditsCommit, RequestSafe, Zenon DEF Commit, life, RequestPcs
<1>5. CASE Log(r)
  <2>1. PICK label \in {"return", "done"} :
            /\ Moved(r, label, 0)
            /\ label = "return" => db.writer = r
    BY <1>0, <1>5, IdleMoves, Zenon DEF Log
  <2>2. /\ db' \in DbType /\ db'.balance = db.balance
        /\ db'.consumed = db.consumed /\ db'.writer = db.writer
    <3>1. db' = db \/ db' = Inserted(<<r>>)
      BY <1>5 DEF Log
    <3>2. <<r>> \in Seq(Requests)
      OBVIOUS
    <3>3. /\ Inserted(<<r>>) \in DbType /\ Inserted(<<r>>).balance = db.balance
          /\ Inserted(<<r>>).consumed = db.consumed /\ Inserted(<<r>>).writer = db.writer
      BY <1>0, <3>2, InsertedType, Zenon
    <3> QED
      BY <1>0, <3>1, <3>3, Zenon
  <2>3. CreditInv'
    BY <1>0, <2>1, <2>2, CreditsKept
  <2>4. UNCHANGED lg \/ \E h, l : Fits(l) /\ lg' = [lg EXCEPT ![h] = l]
    BY <1>0, <1>1, <1>5, LoggersFit, QueuedFits, Zenon DEF Log, RequestPcs
  <2>5. failed' \subseteq Requests /\ late' \subseteq Requests
    BY <1>0, <1>5 DEF Log
  <2> QED
    BY <1>0, <1>5, <2>1, <2>2, <2>3, <2>4, <2>5, RequestSafe, Zenon DEF Log
<1>6. CASE Return(r)
  <2>1. Moved(r, "done", G(r))
    BY <1>0, <1>6, GotoMoves DEF Return, RequestPcs
  <2>2. db' \in DbType
    BY <1>0, <1>6, WriterType DEF Return
  <2>3. G(r) \in Gen \cup {0}
    BY <1>0 DEF G, RequestType
  <2> QED
    BY <1>0, <1>6, <2>1, <2>2, <2>3, CreditsReturn, RequestSafe, SMTT(30), SMTT(45) DEF Return, life
<1> QED
  BY <1>0, <1>2, <1>3, <1>4, <1>5, <1>6, RequestProceeds, ZenonT(30)

-----------------------------------------------------------------------------
(* The audit goroutines and the invariant of GatewayProofs.                *)

RoutinePcs == {"none", "spawned", "loop", "drain", "final", "exit", "exited"}
RoutineMoved(i, label) ==
    /\ routine' \in [Calls -> RoutineType]
    /\ routine'[i].pc = label /\ routine'[i].gen = routine[i].gen
    /\ \A j \in Calls \ {i} : routine'[j] = routine[j]

LEMMA MovesRoutine ==
    ASSUME TypeOK, NEW i \in Calls, NEW label \in RoutinePcs, Moves(i, label)
    PROVE  RoutineMoved(i, label)
<1> DEFINE w == [routine[i] EXCEPT !.pc = label]
<1>1. routine \in [Calls -> RoutineType]
  BY DEF TypeOK
<1>2. w \in RoutineType /\ w.pc = label /\ w.gen = routine[i].gen
  BY <1>1 DEF RoutineType, RoutinePcs
<1>3. routine' = [routine EXCEPT ![i] = w]
  BY DEF Moves
<1> HIDE DEF w
<1> QED
  BY <1>1, <1>2, <1>3 DEF RoutineMoved

\* Steps of a goroutine: it moves or stays, its logger changes, rows are added.
LEMMA RoutineSafe ==
    ASSUME SafeInv, NEW i \in Calls, routine[i].pc # "none",
           UNCHANGED routine \/ \E label \in RoutinePcs \ {"none"} : RoutineMoved(i, label),
           UNCHANGED lg \/ \E h, l : Fits(l) /\ lg' = [lg EXCEPT ![h] = l],
           db' \in DbType, db'.balance = db.balance, db'.consumed = db.consumed,
           db'.writer = db.writer, failed' \subseteq Requests, closed' \subseteq Calls,
           panicked' \in BOOLEAN, UNCHANGED <<requests, admins>>
    PROVE  SafeInv'
<1>1. UNCHANGED <<cb, req, late, gw, store, adm, sd, hurried>>
  BY SMTT(30), SMTT(45) DEF requests, admins
<1>2. /\ lg' \in [Gen -> LoggerType]
      /\ \A h \in Gen : Len(lg'[h].entries) <= BufferSize /\ Len(lg'[h].batch) <= BatchSize
  BY SetLogger, SMTT(30), SMTT(45) DEF SafeInv, TypeOK
<1>3. /\ routine' \in [Calls -> RoutineType]
      /\ \A a \in Calls : routine'[a].pc = "none" <=> routine[a].pc = "none"
  BY DEF RoutineMoved, SafeInv, TypeOK
<1>4. TypeOK'
  BY <1>1, <1>2, <1>3, Zenon DEF SafeInv, TypeOK
<1>5. LifeInv'
  BY <1>1, <1>3, Zenon DEF SafeInv, LifeInv, Calls
<1>6. CreditInv'
  BY <1>1, ZenonT(30) DEF SafeInv, CreditInv, CreditsConserved
<1>7. ClosedBelowThreshold'
  BY <1>1, ZenonT(60) DEF SafeInv, ClosedBelowThreshold
<1> QED
  BY <1>4, <1>5, <1>6, <1>7, SMTT(30), SMTT(45) DEF SafeInv

\* flush adds rows, or reports the batch as failed; the batch is empty then.
LEMMA FlushSafe ==
    ASSUME SafeInv, NEW i \in Calls, Flush(i)
    PROVE  /\ Fits(Flushed(L(i))) /\ lg' = [lg EXCEPT ![routine[i].gen] = Flushed(L(i))]
           /\ db' \in DbType /\ db'.balance = db.balance /\ db'.consumed = db.consumed
           /\ db'.writer = db.writer /\ failed' \subseteq Requests
<1> DEFINE l == L(i)
<1>1. /\ db \in DbType /\ failed \subseteq Requests /\ routine[i].gen \in Gen
      /\ l \in LoggerType /\ Len(l.entries) <= BufferSize
  BY DEF SafeInv, TypeOK, RoutineType, L
<1>0. lg' = [lg EXCEPT ![routine[i].gen] = Flushed(l)]
  BY DEF Flush, L
<1>2. l.batch \in Seq(Requests)
  BY <1>1 DEF LoggerType
<1>3. {l.batch[k] : k \in DOMAIN l.batch} \subseteq Requests
  BY <1>2
<1> DEFINE d == Inserted(l.batch)
<1>4. /\ d \in DbType /\ d.balance = db.balance /\ d.consumed = db.consumed
      /\ d.writer = db.writer
  BY <1>1, <1>2, InsertedType, Zenon
<1>5. \/ db' = d /\ UNCHANGED failed
      \/ failed' = failed \cup {l.batch[k] : k \in DOMAIN l.batch} /\ UNCHANGED db
  BY DEF Flush
<1> HIDE DEF d, l
<1> QED
  BY <1>0, <1>1, <1>3, <1>4, <1>5, FlushedFits, SMTT(30), SMTT(45) DEF l

LEMMA FlushingSafe ==
    ASSUME SafeInv, NEW i \in Calls, routine[i].pc # "none",
           Flush(i),
           UNCHANGED routine \/ \E label \in RoutinePcs \ {"none"} : RoutineMoved(i, label),
           UNCHANGED <<closed, panicked, requests, admins>>
    PROVE  SafeInv'
<1>1. closed' \subseteq Calls /\ panicked' \in BOOLEAN
  BY DEF SafeInv, TypeOK
<1>2. \E h, m : Fits(m) /\ lg' = [lg EXCEPT ![h] = m]
  BY FlushSafe, Zenon
<1>3. /\ db' \in DbType /\ db'.balance = db.balance /\ db'.consumed = db.consumed
      /\ db'.writer = db.writer /\ failed' \subseteq Requests
  BY FlushSafe
<1> QED
  BY <1>1, <1>2, <1>3, RoutineSafe, ZenonT(60)

LEMMA AuditSafe ==
    ASSUME SafeInv, NEW i \in Calls, AuditStep(i)
    PROVE  SafeInv'
<1>0. /\ TypeOK /\ routine[i].gen \in Gen /\ Fits(L(i)) /\ L(i) \in LoggerType
      /\ Len(L(i).entries) <= BufferSize
      /\ db \in DbType /\ failed \subseteq Requests /\ closed \subseteq Calls
      /\ panicked \in BOOLEAN /\ gw.auditDone \in Calls
  BY DEF SafeInv, TypeOK, GatewayType, RoutineType, Fits, L
<1>1. CASE StartLogger(i)
  <2> DEFINE l == [L(i) EXCEPT !.started = TRUE]
  <2>1. Fits(l) /\ lg' = [lg EXCEPT ![routine[i].gen] = l]
    BY <1>0, <1>1, Zenon DEF StartLogger, Fits, LoggerType, L
  <2>2. \E label \in RoutinePcs \ {"none"} : RoutineMoved(i, label)
    BY <1>0, <1>1, MovesRoutine, SMTT(30), SMTT(45) DEF StartLogger, RoutinePcs
  <2> QED
    BY <1>0, <1>1, <2>1, <2>2, RoutineSafe, Zenon DEF StartLogger, RoutineAt
<1>2. CASE Receive(i)
  <2>1. L(i).entries # <<>> /\ ~Full(L(i)) /\ routine[i].pc # "none"
    BY <1>2, Zenon DEF Receive, RoutineAt
  <2>2. Fits(Received(L(i)))
    BY <1>0, <2>1, ReceivedFits, Zenon
  <2>3. lg' = [lg EXCEPT ![routine[i].gen] = Received(L(i))]
    BY <1>2 DEF Receive, L
  <2> QED
    BY <1>0, <1>2, <2>1, <2>2, <2>3, RoutineSafe, ZenonT(30) DEF Receive
<1>3. CASE Tick(i) \/ FlushFull(i)
  <2>1. routine[i].pc # "none" /\ Flush(i) /\ UNCHANGED <<routine, closed, panicked, requests, admins>>
    BY <1>3, Zenon DEF Tick, FlushFull, RoutineAt
  <2> QED
    BY <2>1, FlushingSafe, Zenon
<1>4. CASE ContextDone(i)
  <2>1. RoutineMoved(i, "drain")
    BY <1>0, <1>4, MovesRoutine, Zenon DEF ContextDone, RoutinePcs
  <2> QED
    BY <1>0, <1>4, <2>1, RoutineSafe DEF ContextDone, RoutineAt, RoutinePcs
<1>5. CASE Drained(i)
  <2>1. RoutineMoved(i, "final")
    BY <1>0, <1>5, MovesRoutine, Zenon DEF Drained, RoutinePcs
  <2> QED
    BY <1>0, <1>5, <2>1, RoutineSafe DEF Drained, RoutineAt, RoutinePcs
<1>7. CASE FinalFlush(i)
  <2>1. RoutineMoved(i, "exit")
    BY <1>0, <1>7, MovesRoutine, Zenon DEF FinalFlush, RoutinePcs
  <2> QED
    BY <1>0, <1>7, <2>1, FlushingSafe, Zenon DEF FinalFlush, RoutineAt, RoutinePcs
<1>6. CASE CloseDone(i)
  <2>1. RoutineMoved(i, "exited")
    BY <1>0, <1>6, MovesRoutine, Zenon DEF CloseDone, RoutinePcs
  <2>2. closed' \subseteq Calls /\ panicked' \in BOOLEAN
    BY <1>0, <1>6 DEF CloseDone
  <2> QED
    BY <1>0, <1>6, <2>1, <2>2, RoutineSafe, Zenon DEF CloseDone, RoutineAt, RoutinePcs
<1> QED
  BY <1>1, <1>2, <1>3, <1>4, <1>5, <1>6, <1>7, SMTT(30), SMTT(45) DEF AuditStep
============================================================================
