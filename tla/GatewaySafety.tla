--------------------------- MODULE GatewaySafety ---------------------------
(* What the gateway promises about credits, the audit log, the breaker and *)
(* the goroutines.                                                         *)
EXTENDS Gateway, Functions

(* The types of the structures.                                            *)
GatewayType == [gen : Gen, auditCancel : Calls, auditDone : Calls]
BreakerType ==
    [state : {CircuitClosed, CircuitOpen, CircuitHalfOpen}, events : Seq(BOOLEAN),
     halfOpenInFlight : 0 .. HalfOpenRequests, halfOpenSuccess : 0 .. HalfOpenRequests - 1]
LoggerType ==
    [started : BOOLEAN, entries : Seq(Requests), batch : Seq(Requests), dropped : SUBSET Requests]
RoutineType ==
    [pc : {"none", "spawned", "loop", "drain", "final", "exit", "exited"}, gen : Gen, cancelled : BOOLEAN]
ReloadType == [pc : {"idle", "wait", "close", "done"}, done : Calls, gen : Gen \cup {0}]
ShutdownType == [pc : {"up", "cancelled", "draining", "down"}, done : Calls, gen : Gen \cup {0}]
RequestType ==
    [pc : {"new", "pipeline", "auth", "proxy", "deduct", "commit", "log", "return", "done"},
     gen : Gen \cup {0}, deduct : BOOLEAN, attempt : 1 .. MaxAttempts]
DbType ==
    [balance : Int, writer : Requests \cup {NoOne},
     consumed : [Requests -> Nat], audit : [Requests -> Nat]]

\* Types; a half-open breaker has neither more trials in flight than Allow
\* admits nor enough successes to be closed (Report), a channel no more entries
\* than its buffer and a batch no more than a full one (Log, Start).
TypeOK ==
    /\ gw \in GatewayType
    /\ store \in [Gen -> {"none", "open", "closed"}]
    /\ cb \in [Gen -> BreakerType]
    /\ lg \in [Gen -> LoggerType]
    /\ \A g \in Gen : Len(lg[g].entries) <= BufferSize /\ Len(lg[g].batch) <= BatchSize
    /\ routine \in [Calls -> RoutineType]
    /\ closed \subseteq Calls
    /\ adm \in [Admin -> ReloadType]
    /\ sd \in ShutdownType
    /\ req \in [Requests -> RequestType]
    /\ db \in DbType
    /\ failed \subseteq Requests /\ late \subseteq Requests
    /\ panicked \in BOOLEAN /\ hurried \in BOOLEAN

\* However the PreChecks and Deducts of concurrent requests interleave, over a
\* Reload too, the balance is what was there less the consume rows, never
\* negative, and no request has two rows (UpdateCreditBalanceTx, Deduct).
CreditsConserved ==
    /\ db.balance >= 0
    /\ \A r \in Requests : db.consumed[r] <= 1
    /\ db.balance + Cost * Cardinality({r \in Requests : db.consumed[r] = 1}) = Credits

\* The entry of a request that is over is in exactly one place: written once,
\* waiting in one channel or batch, counted as dropped or reported as failed
\* (Logger.Log, flush).
Line(g) == lg[g].batch \o lg[g].entries
Waiting(r) == {p \in Gen \X (1 .. BufferSize + BatchSize) : p[2] \in DOMAIN Line(p[1]) /\ Line(p[1])[p[2]] = r}
DroppedBy(r) == {g \in Gen : r \in lg[g].dropped}
Places(r) ==
    db.audit[r] + Cardinality(Waiting(r)) + Cardinality(DroppedBy(r)) + Cardinality({r} \cap failed)

AuditedOnce ==
    \A r \in Requests : Places(r) = IF req[r].pc \in {"return", "done"} THEN 1 ELSE 0

\* A closed breaker's window does not justify opening it: Report trips it with
\* the event that makes it so, and a breaker that recovers starts anew.
ClosedBelowThreshold ==
    \A g \in Gen : cb[g].state = CircuitClosed => ~TripsOn(cb[g].events)

\* As long as no wait timed out and calls did not overlap, a goroutine that
\* may still flush has an open store, and no channel is closed twice: Reload
\* and Shutdown close a store after its goroutine has finished.
OrderlyHandover ==
    ~hurried =>
      /\ ~panicked
      /\ \A i \in Calls : RoutineAt(i, {"spawned", "loop", "drain", "final"}) =>
           store[routine[i].gen] = "open"

\* The goroutine of Start leaves behind only what came too late for it: of the
\* entries put in the channel before its drain found it empty all have been
\* written or have failed to be, but for the batch of its last flush, and only
\* those that came during that flush, with its retries and sleeps, or after the
\* goroutine had ended stay in the channel for good.
StrandedAreLate ==
    \A g \in Gen : lg[g].started /\ ~Receiving(g) =>
      /\ Range(lg[g].entries) \subseteq late
      /\ lg[g].batch # <<>> => \E i \in Calls : RoutineAt(i, {"final"}) /\ routine[i].gen = g

\* "Wait for the old audit goroutine to finish before reusing the field": then
\* every goroutine closes the channel that was made for it, and no channel is
\* closed twice, which would end the process (Reload, Start).
ChannelsClosedOnce == ~panicked

-----------------------------------------------------------------------------
(* Why the invariants hold: what every step keeps.                         *)

(* Generations and goroutines are the calls of Reload that got so far.     *)
LifeInv ==
    /\ gw.gen = Cardinality({a \in Admin : adm[a].pc # "idle"}) + 1
    /\ \A a \in Admin : routine[a].pc = "none" <=> adm[a].pc \in {"idle", "wait"}
    /\ \A r \in Requests : req[r].pc \in {"new", "return", "done"} \/ req[r].gen \in Gen

(* Who is about to commit holds the write lock, and saw a balance that     *)
(* covers the cost; nobody is charged before.                              *)
CreditInv ==
    /\ CreditsConserved
    /\ \A r \in Requests :
         /\ req[r].pc = "commit" => db.writer = r /\ db.balance >= Cost
         /\ req[r].pc = "return" => db.writer = r
         /\ db.consumed[r] = 1 => req[r].pc \in {"log", "return", "done"}

(* An entry has at most one place of each kind, is in places of one kind   *)
(* only, and has one from the moment its request has called Log.           *)
Over(r) == req[r].pc \in {"return", "done"}
Waits(r) == \E g \in Gen : \E k \in DOMAIN Line(g) : Line(g)[k] = r
Dropped(r) == \E g \in Gen : r \in lg[g].dropped
Accounted(r) ==
    /\ \A g, h \in Gen : \A k \in DOMAIN Line(g), m \in DOMAIN Line(h) :
         Line(g)[k] = r /\ Line(h)[m] = r => g = h /\ k = m
    /\ \A g, h \in Gen : r \in lg[g].dropped /\ r \in lg[h].dropped => g = h
    /\ db.audit[r] \in {0, 1}
    /\ Over(r) <=> db.audit[r] = 1 \/ r \in failed \/ Waits(r) \/ Dropped(r)
    /\ db.audit[r] = 1 => r \notin failed /\ ~Waits(r) /\ ~Dropped(r)
    /\ r \in failed => ~Waits(r) /\ ~Dropped(r)
    /\ Waits(r) => ~Dropped(r)
AuditInv == \A r \in Requests : Accounted(r)

(* A logger is started once, by one goroutine, which empties it.           *)
StartedInv ==
    /\ StrandedAreLate
    /\ \A g \in Gen : ~lg[g].started => lg[g].batch = <<>> /\ lg[g].entries = <<>>
    /\ \A i, j \in Calls :
         RoutineAt(i, {"loop", "drain", "final"}) =>
           /\ lg[routine[i].gen].started
           /\ RoutineAt(j, {"loop", "drain", "final"}) /\ routine[i].gen = routine[j].gen => i = j

(* While nothing was hurried there is one goroutine at a time, the one     *)
(* that auditDone was made for; it has the store of the current generation,*)
(* or during a Reload that of the one before, which is still open.         *)
HandoverInv ==
    ~hurried =>
      /\ ~panicked
      /\ \A i \in Calls \ {gw.auditDone} : RoutineAt(i, {"none", "exited"})
      /\ \A i \in closed : RoutineAt(i, {"exited"})
      /\ \A a, b \in Admin : Busy(a) => (Busy(b) => a = b) /\ sd.pc \in {"up", "cancelled"}
      /\ \A a \in Admin : Busy(a) => adm[a].gen \in Gen /\ adm[a].gen < gw.gen
      /\ \A a \in Admin : AdmAt(a, "wait") =>
           /\ adm[a].done = gw.auditDone
           /\ store[adm[a].gen] = "open" /\ routine[gw.auditDone].gen = adm[a].gen
      /\ (\A a \in Admin : ~AdmAt(a, "wait")) => routine[gw.auditDone].gen = gw.gen
      /\ sd.pc \in {"draining", "down"} => sd.done = gw.auditDone /\ sd.gen = gw.gen
      /\ IF sd.pc = "down" THEN RoutineAt(gw.auditDone, {"exited"}) ELSE store[gw.gen] = "open"
============================================================================
