------------------------------ MODULE Gateway ------------------------------
(***************************************************************************)
(* The gateway process: requests (ServeHTTP) that pass the circuit         *)
(* breaker, billing and the proxy and leave an audit entry; the goroutines *)
(* that write the entries; Reload and Shutdown.  A generation is what one  *)
(* configuration brings: its store, pipelines (with their breaker),        *)
(* billing engine and audit logger.  A request keeps the generation it saw *)
(* when it arrived.  The generations have one database file, so one write  *)
(* lock and one balance.                                                   *)
(***************************************************************************)
EXTENDS CircuitBreaker, AuditLogger, FiniteSets

CONSTANTS
    Requests, Admin,      \* requests and calls of Reload, each made once
    Credits, Cost,        \* the consumer's first balance, the cost of a request
    ZeroBalanceAction,    \* of a consumer without credits: "reject", "allow_with_flag"
    MaxAttempts,          \* attempts of the retry policy; 1 without one
    START                 \* the call of Start, and the goroutine it spawns

NoOne == "no one"         \* holds the write lock when no request does

ASSUME GatewayAssumption ==
    /\ START \notin Admin /\ IsFiniteSet(Admin)
    /\ IsFiniteSet(Requests) /\ NoOne \notin Requests
    /\ Credits \in Nat /\ Cost \in Nat \ {0} /\ MaxAttempts \in Nat \ {0}
    /\ ZeroBalanceAction \in {"reject", "allow_with_flag"}

VARIABLES
    gw,        \* g.mu's fields: the generation, the owners of auditCancel and auditDone
    store,     \* per generation: not there yet, open, closed
    cb, lg,    \* per generation: breaker and audit logger
    routine,   \* audit goroutines, by the call that spawned them
    closed,    \* the auditDone channels that were closed, by the call that made them
    adm,       \* calls of Reload
    sd,        \* Shutdown
    req,       \* requests
    db,        \* the database: balance, write lock, rows per request
    failed,    \* entries whose insert failed, which the log file alone shows
    panicked,  \* a closed channel was closed again: the process is gone
    late,      \* ghost: entries put in a channel that nobody receives from any more
    hurried    \* ghost: a wait for a goroutine timed out, or calls overlapped

vars == <<gw, store, cb, lg, routine, closed, adm, sd, req, db, failed, panicked, late, hurried>>
life == <<gw, store, routine, closed, adm, sd, panicked, late, hurried>>

Gen == 1 .. Cardinality(Admin) + 1
Calls == Admin \cup {START}
Idle(pc, gen) == [pc |-> pc, gen |-> gen, deduct |-> FALSE, attempt |-> 1]

(* Just after Start has spawned the first audit goroutine.                 *)
Init ==
    /\ gw = [gen |-> 1, auditCancel |-> START, auditDone |-> START]
    /\ store = [g \in Gen |-> IF g = 1 THEN "open" ELSE "none"]
    /\ cb = [g \in Gen |-> NewCircuitBreaker] /\ lg = [g \in Gen |-> NewLogger]
    /\ routine = [i \in Calls |-> [pc |-> IF i = START THEN "spawned" ELSE "none",
                                   gen |-> 1, cancelled |-> FALSE]]
    /\ closed = {}
    /\ adm = [a \in Admin |-> [pc |-> "idle", done |-> START, gen |-> 0]]
    /\ sd = [pc |-> "up", done |-> START, gen |-> 0]
    /\ req = [r \in Requests |-> Idle("new", 0)]
    /\ db = [balance |-> Credits, writer |-> NoOne, consumed |-> [r \in Requests |-> 0],
             audit |-> [r \in Requests |-> 0]]
    /\ failed = {} /\ panicked = FALSE /\ late = {} /\ hurried = FALSE

Goto(r, label) == req' = [req EXCEPT ![r].pc = label]
G(r) == req[r].gen

-----------------------------------------------------------------------------
(* ServeHTTP up to the proxy chain.                                        *)

(* A connection that server.Shutdown found open may still bring a request. *)
Arrive(r) ==
    /\ req[r].pc = "new" /\ sd.pc # "down"
    /\ req' = [req EXCEPT ![r].pc = "pipeline", ![r].gen = gw.gen]
    /\ UNCHANGED <<cb, lg, db, failed, life>>

(* No route, or a plugin or the authentication chain turns it away before  *)
(* or, with the breaker already asked, after Allow.                        *)
Blocked(r) ==
    /\ req[r].pc \in {"pipeline", "auth"}
    /\ Goto(r, "log")
    /\ UNCHANGED <<cb, lg, db, failed, life>>

PipelineExecute(r) ==
    /\ req[r].pc = "pipeline"
    /\ \E slept \in BOOLEAN :
         LET b == Awake(cb[G(r)], slept) IN
         /\ cb' = [cb EXCEPT ![G(r)] = Allow(b)]
         /\ Goto(r, IF Admits(b) THEN "auth" ELSE "log")
    /\ UNCHANGED <<lg, db, failed, life>>

(* What PreCheck reads may be out of date when Deduct uses it.  A test key *)
(* or a free route skips the reading.                                      *)
PreCheck(r) ==
    /\ req[r].pc = "auth"
    /\ \E free \in BOOLEAN :
         LET read == ~free /\ store[G(r)] = "open"
             enough == db.balance >= Cost
             passes == free \/ (read /\ (enough \/ ZeroBalanceAction = "allow_with_flag")) IN
         req' = [req EXCEPT ![r].pc = IF passes THEN "proxy" ELSE "log",
                            ![r].deduct = read /\ enough]
    /\ UNCHANGED <<cb, lg, db, failed, life>>

-----------------------------------------------------------------------------
(* executeProxyChain.                                                      *)

(* No pool, no healthy target, or a client gone during the backoff: the    *)
(* plugins' AfterProxy does not run.                                       *)
NoTarget(r) ==
    /\ req[r].pc = "proxy"
    /\ req' = [req EXCEPT ![r] = Idle("log", G(r))]
    /\ UNCHANGED <<cb, lg, db, failed, life>>

(* proxyForward and proxyRetry: every attempt reports to the breaker; a    *)
(* retryable status counts as a success there, and is served as it is when *)
(* the attempts are used up.                                               *)
Succeeds(outcome) == outcome \in {"retryable", "response"}
AfterAttempt(q, outcome) ==
    LET last == q.attempt = MaxAttempts
        again == ~last /\ outcome \in {"error", "retryable"}
        served == outcome = "response" \/ (last /\ outcome = "retryable") IN
    IF again THEN [q EXCEPT !.attempt = @ + 1]
    ELSE Idle(IF served /\ q.deduct THEN "deduct" ELSE "log", q.gen)

Attempt(r) ==
    /\ req[r].pc = "proxy"
    /\ \E outcome \in {"error", "retryable", "response", "write_error"},
          expired \in Expirable(cb[G(r)]) :
         /\ cb' = [cb EXCEPT ![G(r)] = Report(@, Succeeds(outcome), expired)]
         /\ req' = [req EXCEPT ![r] = AfterAttempt(@, outcome)]
    /\ UNCHANGED <<lg, db, failed, life>>

-----------------------------------------------------------------------------
(* applyBillingPostProxy and Deduct.                                       *)

(* UPDATE ... WHERE credit_balance + ? >= 0, and the same without its      *)
(* second condition.                                                       *)
Covers_always(balance) == TRUE
Covers(balance) == balance >= Cost

(* The UPDATE takes the write lock even when it matches no row; the        *)
(* transaction then stays open until the request is over.                  *)
UpdateCreditBalanceTx(r) ==
    /\ req[r].pc = "deduct"
    /\ store[G(r)] = "open" /\ db.writer = NoOne
    /\ db' = [db EXCEPT !.writer = r]
    /\ Goto(r, IF Covers(db.balance) THEN "commit" ELSE "log")
    /\ UNCHANGED <<cb, lg, failed, life>>

(* The store is closed, the client is gone, or three attempts found the    *)
(* database locked: the request was served and is not charged.             *)
DeductFails(r) ==
    /\ req[r].pc = "deduct"
    /\ Goto(r, "log")
    /\ UNCHANGED <<cb, lg, db, failed, life>>

(* CreateTx and Commit.  The open transaction outlives a Close of the      *)
(* store; that of a client that is gone was rolled back, and is done; that *)
(* of a row that could not be inserted stays open, like the one above.     *)
Commit(r) ==
    /\ req[r].pc = "commit"
    /\ db' \in {[db EXCEPT !.writer = NoOne, !.balance = @ - Cost, !.consumed[r] = @ + 1],
                [db EXCEPT !.writer = NoOne],
                db}
    /\ Goto(r, "log")
    /\ UNCHANGED <<cb, lg, failed, life>>

-----------------------------------------------------------------------------
(* The deferred calls of ServeHTTP.                                        *)

Count(es, r) == Cardinality({k \in DOMAIN es : es[k] = r})
Receiving(g) == \E i \in Calls : routine[i].gen = g /\ routine[i].pc \in {"loop", "drain"}
Inserted(es) == [db EXCEPT !.audit = [r \in Requests |-> @[r] + Count(es, r)]]
CanInsert(g) == store[g] = "open" /\ db.writer = NoOne

(* Logger.Log; before Start has set the flag the entry is inserted by the  *)
(* request itself.                                                         *)
Log(r) ==
    /\ req[r].pc = "log"
    /\ IF lg[G(r)].started
       THEN lg' = [lg EXCEPT ![G(r)] = Queued(@, r)] /\ UNCHANGED <<db, failed>>
       ELSE /\ IF CanInsert(G(r)) THEN db' = Inserted(<<r>>) /\ UNCHANGED failed
               ELSE failed' = failed \cup {r} /\ UNCHANGED db
            /\ UNCHANGED lg
    /\ late' = IF lg[G(r)].started /\ ~Receiving(G(r)) THEN late \cup {r} ELSE late
    /\ req' = [req EXCEPT ![r] = Idle(IF db.writer = r THEN "return" ELSE "done", 0)]
    /\ UNCHANGED <<gw, store, cb, routine, closed, adm, sd, panicked, hurried>>

(* The handler has returned; the end of the request's context rolls back   *)
(* the transaction it left open.                                           *)
Return(r) ==
    /\ req[r].pc = "return"
    /\ db' = [db EXCEPT !.writer = NoOne]
    /\ Goto(r, "done")
    /\ UNCHANGED <<cb, lg, failed, life>>

-----------------------------------------------------------------------------
(* The audit goroutines.                                                   *)

requests == <<cb, req, late>>
admins == <<gw, store, adm, sd, hurried>>

RoutineAt(i, pcs) == routine[i].pc \in pcs
Moves(i, label) == routine' = [routine EXCEPT ![i].pc = label]
L(i) == lg[routine[i].gen]

(* flush: one transaction for the batch; when the store is closed or three *)
(* attempts find the database locked, the batch is gone.                   *)
Flush(i) ==
    LET batch == L(i).batch IN
    /\ lg' = [lg EXCEPT ![routine[i].gen] = Flushed(@)]
    /\ IF CanInsert(routine[i].gen) THEN db' = Inserted(batch) /\ UNCHANGED failed
       ELSE failed' = failed \cup {batch[k] : k \in DOMAIN batch} /\ UNCHANGED db

(* A second Start of a logger returns at once.                             *)
StartLogger(i) ==
    /\ RoutineAt(i, {"spawned"})
    /\ lg' = [lg EXCEPT ![routine[i].gen].started = TRUE]
    /\ Moves(i, IF L(i).started THEN "exit" ELSE "loop")
    /\ UNCHANGED <<closed, db, failed, panicked, requests, admins>>

(* A receive from the channel, in the loop or while draining, and the      *)
(* flush that the entry which fills the batch brings about.                *)
Receive(i) ==
    /\ RoutineAt(i, {"loop", "drain"}) /\ ~Full(L(i))
    /\ L(i).entries # <<>>
    /\ lg' = [lg EXCEPT ![routine[i].gen] = Received(@)]
    /\ UNCHANGED <<routine, closed, db, failed, panicked, requests, admins>>

FlushFull(i) ==
    /\ RoutineAt(i, {"loop", "drain"}) /\ Full(L(i))
    /\ Flush(i)
    /\ UNCHANGED <<routine, closed, panicked, requests, admins>>

Tick(i) ==
    /\ RoutineAt(i, {"loop"}) /\ ~Full(L(i))
    /\ L(i).batch # <<>>
    /\ Flush(i)
    /\ UNCHANGED <<routine, closed, panicked, requests, admins>>

ContextDone_atOnce(i) ==
    /\ RoutineAt(i, {"loop"}) /\ ~Full(L(i)) /\ routine[i].cancelled
    /\ Moves(i, "final")
    /\ UNCHANGED <<lg, closed, db, failed, panicked, requests, admins>>
ContextDone(i) ==
    /\ RoutineAt(i, {"loop"}) /\ ~Full(L(i)) /\ routine[i].cancelled
    /\ Moves(i, "drain")
    /\ UNCHANGED <<lg, closed, db, failed, panicked, requests, admins>>

(* The channel was seen empty; what it is sent during the last flush stays *)
(* there.                                                                  *)
Drained(i) ==
    /\ RoutineAt(i, {"drain"}) /\ ~Full(L(i))
    /\ L(i).entries = <<>>
    /\ Moves(i, "final")
    /\ UNCHANGED <<lg, closed, db, failed, panicked, requests, admins>>

FinalFlush(i) ==
    /\ RoutineAt(i, {"final"})
    /\ Flush(i)
    /\ Moves(i, "exit")
    /\ UNCHANGED <<closed, panicked, requests, admins>>

(* close(g.auditDone): the channel the field holds now.                    *)
CloseDone(i) ==
    /\ RoutineAt(i, {"exit"})
    /\ Moves(i, "exited")
    /\ panicked' = (gw.auditDone \in closed)
    /\ closed' = closed \cup {gw.auditDone}
    /\ UNCHANGED <<lg, db, failed, requests, admins>>

AuditStep(i) ==
    \/ StartLogger(i) \/ Receive(i) \/ FlushFull(i) \/ Tick(i)
    \/ ContextDone(i) \/ Drained(i) \/ FinalFlush(i) \/ CloseDone(i)

-----------------------------------------------------------------------------
(* Reload, on the admin API.                                               *)

others == <<cb, req, db, failed, panicked, late>>

AdmAt(a, pc) == adm[a].pc = pc
Busy(a) == adm[a].pc \notin {"idle", "done"}

(* Reload up to its Unlock: the new generation is there for new requests,  *)
(* the goroutine that auditCancel belongs to is told to finish.  The admin *)
(* API takes the call during Shutdown too.                                 *)
ReloadSwap(a) ==
    /\ AdmAt(a, "idle")
    /\ hurried' = (hurried \/ sd.pc \in {"draining", "down"} \/ \E b \in Admin : Busy(b))
    /\ gw' = [gw EXCEPT !.gen = @ + 1]
    /\ store' = [store EXCEPT ![gw.gen + 1] = "open"]
    /\ routine' = [routine EXCEPT ![gw.auditCancel].cancelled = TRUE]
    /\ adm' = [adm EXCEPT ![a].pc = "wait", ![a].done = gw.auditDone, ![a].gen = gw.gen]
    /\ UNCHANGED <<lg, closed, sd, others>>

(* From the end of the wait, by the channel or by the timer, to the last   *)
(* Unlock: a new goroutine for the logger of the generation that is        *)
(* current by now.                                                         *)
ReloadSpawn_atOnce(a) ==
    /\ AdmAt(a, "wait")
    /\ gw' = [gw EXCEPT !.auditCancel = a, !.auditDone = a]
    /\ routine' = [routine EXCEPT ![a] = [pc |-> "spawned", gen |-> gw.gen,
                                          cancelled |-> sd.pc # "up"]]
    /\ adm' = [adm EXCEPT ![a].pc = "close"]
    /\ UNCHANGED <<store, lg, closed, sd, hurried, others>>
ReloadSpawn(a) ==
    /\ AdmAt(a, "wait")
    /\ hurried' = (hurried \/ adm[a].done \notin closed)
    /\ gw' = [gw EXCEPT !.auditCancel = a, !.auditDone = a]
    /\ routine' = [routine EXCEPT ![a] = [pc |-> "spawned", gen |-> gw.gen,
                                          cancelled |-> sd.pc # "up"]]
    /\ adm' = [adm EXCEPT ![a].pc = "close"]
    /\ UNCHANGED <<store, lg, closed, sd, others>>

CloseOldStore(a) ==
    /\ AdmAt(a, "close")
    /\ store' = [store EXCEPT ![adm[a].gen] = "closed"]
    /\ adm' = [adm EXCEPT ![a].pc = "done"]
    /\ UNCHANGED <<gw, lg, routine, closed, sd, hurried, others>>

-----------------------------------------------------------------------------
(* The end of the run context, which every audit context comes from, and   *)
(* then Shutdown.                                                          *)

ContextEnds ==
    /\ sd.pc = "up"
    /\ sd' = [sd EXCEPT !.pc = "cancelled"]
    /\ routine' = [i \in Calls |-> [routine[i] EXCEPT !.cancelled = TRUE]]
    /\ UNCHANGED <<gw, store, lg, closed, adm, hurried, others>>

ShutdownBegin ==
    /\ sd.pc = "cancelled"
    /\ sd' = [pc |-> "draining", done |-> gw.auditDone, gen |-> gw.gen]
    /\ hurried' = (hurried \/ \E a \in Admin : Busy(a))
    /\ UNCHANGED <<gw, store, lg, routine, closed, adm, others>>

(* server.Shutdown has returned, with no request active or by its timeout; *)
(* then the wait for the audit goroutine ends, or times out.               *)
ShutdownEnd ==
    /\ sd.pc = "draining"
    /\ store' = [store EXCEPT ![sd.gen] = "closed"]
    /\ sd' = [sd EXCEPT !.pc = "down"]
    /\ hurried' = (hurried \/ sd.done \notin closed)
    /\ UNCHANGED <<gw, lg, routine, closed, adm, others>>

-----------------------------------------------------------------------------
Request(r) ==
    \/ Arrive(r) \/ Blocked(r) \/ PipelineExecute(r) \/ PreCheck(r) \/ NoTarget(r) \/ Attempt(r)
    \/ UpdateCreditBalanceTx(r) \/ DeductFails(r) \/ Commit(r) \/ Log(r) \/ Return(r)

Reload(a) == ReloadSwap(a) \/ ReloadSpawn(a) \/ CloseOldStore(a)

Next ==
    /\ ~panicked
    /\ \/ \E r \in Requests : Request(r)
       \/ \E i \in Calls : AuditStep(i)
       \/ \E a \in Admin : Reload(a)
       \/ ContextEnds \/ ShutdownBegin \/ ShutdownEnd

Spec == Init /\ [][Next]_vars
============================================================================
