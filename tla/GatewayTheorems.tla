-------------------------- MODULE GatewayTheorems --------------------------
(***************************************************************************)
(* Reload and Shutdown keep the invariant of GatewayProofs too, so types,  *)
(* credits and breakers are right for any number of requests and reloads;  *)
(* one goroutine at a time has the current store, and each empties the     *)
(* logger it started.                                                      *)
(***************************************************************************)
EXTENDS GatewayProofs

-----------------------------------------------------------------------------
(* Reload and Shutdown.                                                    *)

Started == {a \in Admin : adm[a].pc # "idle"}

\* There is a generation for every call of Reload.
LEMMA Generations ==
    ASSUME TypeOK, LifeInv, NEW a \in Admin, adm[a].pc = "idle"
    PROVE  /\ gw.gen + 1 \in Gen /\ gw.gen \in Nat
           /\ Cardinality(Started \cup {a}) = Cardinality(Started) + 1
<1>1. IsFiniteSet(Admin) /\ Started \cup {a} \subseteq Admin /\ a \notin Started
  BY GatewayAssumption DEF Started
<1>2. IsFiniteSet(Started) /\ IsFiniteSet(Started \cup {a})
  BY <1>1, FS_Subset
<1>3. Cardinality(Started \cup {a}) = Cardinality(Started) + 1
  BY <1>1, <1>2, FS_AddElement
<1>4. Cardinality(Started \cup {a}) <= Cardinality(Admin)
  BY <1>1, FS_Subset
<1>5. Cardinality(Started) \in Nat /\ Cardinality(Admin) \in Nat
  BY <1>1, <1>2, FS_CardinalityType, SMTT(30), SMTT(45)
<1>6. gw.gen = Cardinality(Started) + 1
  BY DEF LifeInv, Started
<1> QED
  BY <1>3, <1>4, <1>5, <1>6 DEF Gen

\* A step of a reload: where it is then, and with which channel and generation.
AdmMoved(a, label, done, g) ==
    /\ adm' \in [Admin -> ReloadType]
    /\ adm'[a].pc = label /\ adm'[a].done = done /\ adm'[a].gen = g
    /\ \A b \in Admin \ {a} : adm'[b] = adm[b]

LEMMA SwapMoves ==
    ASSUME TypeOK, NEW a \in Admin, ReloadSwap(a)
    PROVE  AdmMoved(a, "wait", gw.auditDone, gw.gen)
<1> DEFINE w1 == [adm[a] EXCEPT !.pc = "wait"]
           w2 == [w1 EXCEPT !.done = gw.auditDone]
           w3 == [w2 EXCEPT !.gen = gw.gen]
<1>0. adm \in [Admin -> ReloadType] /\ gw.gen \in Gen /\ gw.auditDone \in Calls
  BY DEF TypeOK, GatewayType
<1>1. adm' = [adm EXCEPT ![a] = w3]
  BY Zenon DEF ReloadSwap
<1>2. w1 \in ReloadType /\ w1.pc = "wait"
  BY <1>0 DEF ReloadType
<1> HIDE DEF w1
<1>3. w2 \in ReloadType /\ w2.pc = "wait" /\ w2.done = gw.auditDone
  BY <1>0, <1>2 DEF ReloadType
<1> HIDE DEF w2
<1>4. w3 \in ReloadType /\ w3.pc = "wait" /\ w3.done = gw.auditDone /\ w3.gen = gw.gen
  BY <1>0, <1>3 DEF ReloadType
<1> HIDE DEF w3
<1> QED
  BY <1>0, <1>1, <1>4 DEF AdmMoved

LEMMA AdmGoes ==
    ASSUME TypeOK, NEW a \in Admin, NEW label \in {"close", "done"},
           adm' = [adm EXCEPT ![a].pc = label]
    PROVE  AdmMoved(a, label, adm[a].done, adm[a].gen)
<1> DEFINE w == [adm[a] EXCEPT !.pc = label]
<1>0. adm \in [Admin -> ReloadType]
  BY DEF TypeOK
<1>1. w \in ReloadType /\ w.pc = label /\ w.done = adm[a].done /\ w.gen = adm[a].gen
  BY <1>0 DEF ReloadType
<1> HIDE DEF w
<1> QED
  BY <1>0, <1>1 DEF AdmMoved, w

\* Reload and Shutdown touch neither requests nor the database.
LEMMA LifeSafe ==
    ASSUME SafeInv, gw' \in GatewayType, store' \in [Gen -> {"none", "open", "closed"}],
           routine' \in [Calls -> RoutineType], adm' \in [Admin -> ReloadType],
           sd' \in ShutdownType, hurried' \in BOOLEAN,
           gw'.gen = Cardinality(Started') + 1,
           \A a \in Admin : routine'[a].pc = "none" <=> adm'[a].pc \in {"idle", "wait"},
           UNCHANGED <<lg, closed, others>>
    PROVE  SafeInv'
<1>1. UNCHANGED <<cb, req, db, failed, panicked, late, lg, closed>>
  BY DEF others
<1>2. TypeOK'
  BY <1>1 DEF SafeInv, TypeOK
<1>3. LifeInv'
  BY <1>1, SMTT(30), SMTT(45) DEF SafeInv, LifeInv, Started
<1>4. CreditInv'
  BY <1>1, SMTT(30), SMTT(45) DEF SafeInv, CreditInv, CreditsConserved
<1> QED
  BY <1>1, <1>2, <1>3, <1>4 DEF SafeInv, ClosedBelowThreshold

\* Reload up to its Unlock: the next generation is there.
LEMMA SwapSafe ==
    ASSUME SafeInv, NEW a \in Admin, ReloadSwap(a)
    PROVE  SafeInv' /\ gw'.gen = gw.gen + 1 /\ gw'.auditDone = gw.auditDone
<1>0. /\ TypeOK /\ LifeInv /\ gw \in GatewayType /\ adm[a].pc = "idle"
      /\ store \in [Gen -> {"none", "open", "closed"}] /\ routine \in [Calls -> RoutineType]
      /\ hurried \in BOOLEAN /\ gw.gen = Cardinality(Started) + 1
  BY DEF SafeInv, TypeOK, LifeInv, ReloadSwap, AdmAt, Started
<1>1. AdmMoved(a, "wait", gw.auditDone, gw.gen)
  BY <1>0, SwapMoves
<1>2. gw.gen + 1 \in Gen /\ Cardinality(Started \cup {a}) = Cardinality(Started) + 1
  BY <1>0, Generations
<1>3. Started' = Started \cup {a}
  BY <1>1 DEF AdmMoved, Started
<1>4. gw' \in GatewayType /\ gw'.gen = gw.gen + 1 /\ gw'.auditDone = gw.auditDone
  BY <1>0, <1>2 DEF GatewayType, ReloadSwap
<1>5. /\ routine' \in [Calls -> RoutineType]
      /\ \A i \in Calls : routine'[i].pc = routine[i].pc
  BY <1>0, ZenonT(60) DEF RoutineType, ReloadSwap
<1>6. \A b \in Admin : routine'[b].pc = "none" <=> adm'[b].pc \in {"idle", "wait"}
  BY <1>0, <1>1, <1>5 DEF LifeInv, AdmMoved, Calls
<1>7. store' \in [Gen -> {"none", "open", "closed"}] /\ hurried' \in BOOLEAN
  BY <1>0, Zenon DEF ReloadSwap
<1>8. adm' \in [Admin -> ReloadType] /\ sd' \in ShutdownType
  BY <1>1 DEF AdmMoved, SafeInv, TypeOK, ReloadSwap
<1>9. gw'.gen = Cardinality(Started') + 1
  BY <1>0, <1>2, <1>3, <1>4, SMTT(30), SMTT(45)
<1> QED
  BY <1>4, <1>5, <1>6, <1>7, <1>8, <1>9, LifeSafe, SMTT(30), SMTT(45) DEF ReloadSwap

\* The end of Reload: a goroutine of its own for the generation current by now.
Spawned(a) ==
    /\ routine' \in [Calls -> RoutineType]
    /\ routine'[a].pc = "spawned" /\ routine'[a].gen = gw.gen
    /\ \A i \in Calls \ {a} : routine'[i] = routine[i]
    /\ gw'.gen = gw.gen /\ gw'.auditDone = a

LEMMA SpawnSafe ==
    ASSUME SafeInv, NEW a \in Admin, ReloadSpawn(a)
    PROVE  SafeInv' /\ Spawned(a)
<1>0. /\ TypeOK /\ LifeInv /\ gw \in GatewayType /\ adm[a].pc = "wait" /\ a \in Calls
      /\ store \in [Gen -> {"none", "open", "closed"}] /\ routine \in [Calls -> RoutineType]
      /\ hurried \in BOOLEAN /\ gw.gen = Cardinality(Started) + 1 /\ sd \in ShutdownType
  BY DEF SafeInv, TypeOK, LifeInv, ReloadSpawn, AdmAt, Started, Calls
<1>1. AdmMoved(a, "close", adm[a].done, adm[a].gen)
  BY <1>0, AdmGoes, Zenon DEF ReloadSpawn
<1>2. Started' = Started
  BY <1>0, <1>1 DEF AdmMoved, Started
<1> DEFINE gw1 == [gw EXCEPT !.auditCancel = a]
           w == [pc |-> "spawned", gen |-> gw.gen, cancelled |-> sd.pc # "up"]
<1>3. gw1 \in GatewayType /\ gw1.gen = gw.gen
  BY <1>0 DEF GatewayType
<1>4. gw' = [gw1 EXCEPT !.auditDone = a]
  BY DEF ReloadSpawn
<1> HIDE DEF gw1
<1>5. gw' \in GatewayType /\ gw'.gen = gw.gen /\ gw'.auditDone = a
  BY <1>0, <1>3, <1>4, SMTT(30), SMTT(45) DEF GatewayType
<1>6. w \in RoutineType /\ w.pc = "spawned" /\ w.gen = gw.gen
  BY <1>0 DEF RoutineType, GatewayType
<1>7. routine' = [routine EXCEPT ![a] = w]
  BY DEF ReloadSpawn
<1> HIDE DEF w
<1>8. Spawned(a)
  BY <1>0, <1>5, <1>6, <1>7, SMTT(30), SMTT(45) DEF Spawned
<1>9. \A b \in Admin : routine'[b].pc = "none" <=> adm'[b].pc \in {"idle", "wait"}
  BY <1>0, <1>1, <1>8, SMTT(30), SMTT(45) DEF LifeInv, AdmMoved, Calls, Spawned
<1>10. /\ adm' \in [Admin -> ReloadType] /\ sd' \in ShutdownType /\ hurried' \in BOOLEAN
       /\ store' \in [Gen -> {"none", "open", "closed"}]
       /\ gw'.gen = Cardinality(Started') + 1
  BY <1>0, <1>1, <1>2, <1>5, SMTT(30), SMTT(45) DEF AdmMoved, ReloadSpawn
<1> QED
  BY <1>5, <1>8, <1>9, <1>10, LifeSafe, SMTT(30), SMTT(45) DEF ReloadSpawn, Spawned

LEMMA CloseSafe ==
    ASSUME SafeInv, NEW a \in Admin, CloseOldStore(a)
    PROVE  SafeInv' /\ AdmMoved(a, "done", adm[a].done, adm[a].gen)
<1>0. /\ TypeOK /\ LifeInv /\ gw \in GatewayType /\ adm[a].pc = "close"
      /\ store \in [Gen -> {"none", "open", "closed"}] /\ routine \in [Calls -> RoutineType]
      /\ hurried \in BOOLEAN /\ gw.gen = Cardinality(Started) + 1 /\ sd \in ShutdownType
  BY DEF SafeInv, TypeOK, LifeInv, CloseOldStore, AdmAt, Started
<1>1. AdmMoved(a, "done", adm[a].done, adm[a].gen)
  BY <1>0, AdmGoes, Zenon DEF CloseOldStore
<1>2. Started' = Started
  BY <1>0, <1>1 DEF AdmMoved, Started
<1>3. \A b \in Admin : routine'[b].pc = "none" <=> adm'[b].pc \in {"idle", "wait"}
  BY <1>0, <1>1 DEF LifeInv, AdmMoved, CloseOldStore
<1> QED
  BY <1>0, <1>1, <1>2, <1>3, LifeSafe, Zenon DEF AdmMoved, CloseOldStore

\* The end of the run context cancels every goroutine; none moves.
LEMMA ShutdownSafe ==
    ASSUME SafeInv, ContextEnds \/ ShutdownBegin \/ ShutdownEnd
    PROVE  /\ SafeInv'
           /\ \A i \in Calls : routine'[i].pc = routine[i].pc /\ routine'[i].gen = routine[i].gen
<1>0. /\ TypeOK /\ LifeInv /\ gw \in GatewayType /\ sd \in ShutdownType /\ hurried \in BOOLEAN
      /\ store \in [Gen -> {"none", "open", "closed"}] /\ routine \in [Calls -> RoutineType]
  BY DEF SafeInv, TypeOK
<1>1. /\ routine' \in [Calls -> RoutineType]
      /\ \A i \in Calls : routine'[i].pc = routine[i].pc /\ routine'[i].gen = routine[i].gen
  <2>1. CASE ShutdownBegin \/ ShutdownEnd
    BY <1>0, <2>1, SMTT(30), SMTT(45) DEF ShutdownBegin, ShutdownEnd
  <2>2. CASE ContextEnds
    <3> DEFINE w(i) == [routine[i] EXCEPT !.cancelled = TRUE]
    <3>1. \A i \in Calls : w(i) \in RoutineType /\ w(i).pc = routine[i].pc /\ w(i).gen = routine[i].gen
      BY <1>0, Zenon DEF RoutineType
    <3>2. routine' = [i \in Calls |-> w(i)]
      BY <2>2 DEF ContextEnds
    <3> HIDE DEF w
    <3> QED
      BY <3>1, <3>2
  <2> QED
    BY <2>1, <2>2
<1>2. sd' \in ShutdownType /\ store' \in [Gen -> {"none", "open", "closed"}]
  BY <1>0 DEF ContextEnds, ShutdownBegin, ShutdownEnd, ShutdownType, GatewayType
<1>3. UNCHANGED <<gw, lg, closed, adm, others>> /\ hurried' \in BOOLEAN /\ Started' = Started
  BY <1>0, Zenon DEF ContextEnds, ShutdownBegin, ShutdownEnd, Started
<1>4. \A b \in Admin : routine'[b].pc = "none" <=> adm'[b].pc \in {"idle", "wait"}
  BY <1>0, <1>1, <1>3, SMTT(30), SMTT(45) DEF LifeInv, Calls
<1>5. gw'.gen = Cardinality(Started') + 1 /\ adm' \in [Admin -> ReloadType]
  BY <1>0, <1>3 DEF LifeInv, Started, TypeOK
<1> QED
  BY <1>0, <1>1, <1>2, <1>3, <1>4, <1>5, LifeSafe, ZenonT(30)

-----------------------------------------------------------------------------
(* What holds in every behaviour.                                          *)

LEMMA InitSafe == ASSUME Init PROVE SafeInv
<1>1. 1 \in Gen /\ Gen \subseteq Nat \ {0}
  BY GatewayAssumption, FS_CardinalityType, SMTT(30), SMTT(45) DEF Gen
<1>2. cb \in [Gen -> BreakerType] /\ ClosedBelowThreshold
  BY NewBreaker, SMTT(30), SMTT(45) DEF Init, ClosedBelowThreshold, SoundBreaker
<1>3. /\ lg \in [Gen -> LoggerType]
      /\ \A g \in Gen : Len(lg[g].entries) <= BufferSize /\ Len(lg[g].batch) <= BatchSize
  BY LoggerAssumption DEF Init, NewLogger, LoggerType
<1>4. /\ gw \in GatewayType /\ store \in [Gen -> {"none", "open", "closed"}]
      /\ closed \subseteq Calls /\ adm \in [Admin -> ReloadType] /\ sd \in ShutdownType
      /\ failed \subseteq Requests /\ late \subseteq Requests
      /\ panicked \in BOOLEAN /\ hurried \in BOOLEAN
  BY <1>1, Zenon DEF Init, GatewayType, Calls, ReloadType, ShutdownType
<1>5. routine \in [Calls -> RoutineType]
  BY <1>1, SMTT(30), SMTT(45) DEF Init, RoutineType
<1>6. req \in [Requests -> RequestType]
  BY GatewayAssumption, SMTT(30), SMTT(45) DEF Init, Idle, RequestType
<1>7. db \in DbType
  BY GatewayAssumption DEF Init, DbType
<1>8. TypeOK
  BY <1>2, <1>3, <1>4, <1>5, <1>6, <1>7, ZenonT(30) DEF TypeOK
<1>9. LifeInv
  <2>1. Started = {} /\ gw.gen = 1
    BY DEF Init, Started
  <2>2. Cardinality({}) = 0
    BY FS_EmptySet
  <2>3. gw.gen = Cardinality(Started) + 1
    BY <2>1, <2>2, SMTT(30), SMTT(45)
  <2> QED
    BY <2>3, GatewayAssumption, SMTT(30), SMTT(45) DEF Init, LifeInv, Calls, Idle, Started
<1>10. CreditInv
  <2> DEFINE charged == {r \in Requests : db.consumed[r] = 1}
  <2>1. charged = {} /\ Cardinality({}) = 0
    BY FS_EmptySet DEF Init
  <2>2. Cardinality(charged) = 0 /\ db.balance = Credits /\ \A r \in Requests : db.consumed[r] = 0
    BY <2>1, Zenon DEF Init
  <2> HIDE DEF charged
  <2>3. db.balance >= 0 /\ db.balance + Cost * Cardinality(charged) = Credits
    BY <2>2, GatewayAssumption, SMTT(30), SMTT(45)
  <2>4. CreditsConserved
    BY <2>2, <2>3, SMTT(30), SMTT(45) DEF CreditsConserved, charged
  <2> QED
    BY <2>4, SMTT(30), SMTT(45) DEF Init, CreditInv, Idle
<1> QED
  BY <1>2, <1>8, <1>9, <1>10 DEF SafeInv

LEMMA StepSafe == ASSUME SafeInv, [Next]_vars PROVE SafeInv'
<1>1. ASSUME NEW r \in Requests, Request(r) PROVE SafeInv'
  BY <1>1, RequestStep, SMTT(30), SMTT(45)
<1>2. ASSUME NEW i \in Calls, AuditStep(i) PROVE SafeInv'
  BY <1>2, AuditSafe
<1>3. ASSUME NEW a \in Admin, Reload(a) PROVE SafeInv'
  BY <1>3, SwapSafe, SpawnSafe, CloseSafe, ZenonT(30) DEF Reload
<1>4. CASE UNCHANGED vars
  BY <1>4, ZenonT(30) DEF vars, SafeInv, TypeOK, LifeInv, ClosedBelowThreshold, CreditInv, CreditsConserved
<1> QED
  BY <1>1, <1>2, <1>3, <1>4, ShutdownSafe, SMTT(30), SMTT(45) DEF Next

\* The types hold, and with them the bounds on the half-open trials of a
\* breaker (Allow, Report), on a logger's channel and on its batch (Log,
\* Start), for any number of requests and of reloads.
THEOREM GatewayTyped == Spec => []TypeOK
<1>1. Spec => []SafeInv
  BY InitSafe, StepSafe, PTL DEF Spec
<1>2. SafeInv => TypeOK
  BY Zenon DEF SafeInv
<1> QED
  BY <1>1, <1>2, PTL

\* However many requests are charged at once, and over reloads, no credit is
\* lost, invented or taken twice, and the balance is never negative
\* (UpdateCreditBalanceTx, Deduct).
THEOREM CreditsStay == Spec => []CreditsConserved
<1>1. Spec => []SafeInv
  BY InitSafe, StepSafe, PTL DEF Spec
<1>2. SafeInv => CreditsConserved
  BY Zenon DEF SafeInv, CreditInv
<1> QED
  BY <1>1, <1>2, PTL

\* No breaker stays closed on a window that calls for opening it, whatever
\* the window, the thresholds and the order of Allow and Report.
THEOREM BreakersTrip == Spec => []ClosedBelowThreshold
<1>1. Spec => []SafeInv
  BY InitSafe, StepSafe, PTL DEF Spec
<1>2. SafeInv => ClosedBelowThreshold
  BY Zenon DEF SafeInv
<1> QED
  BY <1>1, <1>2, PTL

-----------------------------------------------------------------------------
(* One goroutine at a time.                                                *)

\* Which goroutines an audit step may move, and what else of the life of the
\* process it changes.
LEMMA AuditMoves ==
    ASSUME TypeOK, NEW i \in Calls, AuditStep(i)
    PROVE  /\ routine[i].pc \notin {"none", "exited"}
           /\ UNCHANGED admins
           /\ \/ /\ UNCHANGED routine \/ \E label \in RoutinePcs : RoutineMoved(i, label)
                 /\ UNCHANGED <<closed, panicked>>
              \/ CloseDone(i) /\ RoutineMoved(i, "exited")
<1>1. CASE StartLogger(i)
  BY <1>1, MovesRoutine, SMTT(30), SMTT(45) DEF StartLogger, RoutinePcs, RoutineAt
<1>2. CASE Receive(i)
  BY <1>2, ZenonT(30) DEF Receive, RoutineAt
<1>3. CASE Tick(i) \/ FlushFull(i)
  BY <1>3 DEF Tick, FlushFull, RoutineAt
<1>4. CASE ContextDone(i)
  BY <1>4, MovesRoutine, SMTT(30), SMTT(45) DEF ContextDone, RoutinePcs, RoutineAt
<1>5. CASE Drained(i)
  BY <1>5, MovesRoutine DEF Drained, RoutinePcs, RoutineAt
<1>6. CASE CloseDone(i)
  BY <1>6, MovesRoutine, Zenon DEF CloseDone, RoutinePcs, RoutineAt
<1>7. CASE FinalFlush(i)
  BY <1>7, MovesRoutine DEF FinalFlush, RoutinePcs, RoutineAt
<1> QED
  BY <1>1, <1>2, <1>3, <1>4, <1>5, <1>6, <1>7, ZenonT(30) DEF AuditStep

\* The goroutine that moves is the one auditDone belongs to, so the channel it
\* closes is its own.
LEMMA AuditHandover ==
    ASSUME SafeInv, HandoverInv, NEW i \in Calls, AuditStep(i)
    PROVE  HandoverInv'
<1> SUFFICES ASSUME ~hurried' PROVE HandoverInv'
  BY DEF HandoverInv
<1>0. TypeOK /\ gw.auditDone \in Calls /\ closed \subseteq Calls
  BY DEF SafeInv, TypeOK, GatewayType
<1>1. UNCHANGED <<gw, store, adm, sd, hurried>>
  BY <1>0, AuditMoves, ZenonT(30) DEF admins
<1>2. i = gw.auditDone /\ i \notin closed
  BY <1>0, <1>1, AuditMoves, ZenonT(30) DEF HandoverInv, RoutineAt
<1>3. /\ routine'[i].gen = routine[i].gen /\ \A j \in Calls \ {i} : routine'[j] = routine[j]
  BY <1>0, AuditMoves, ZenonT(30) DEF RoutineMoved
<1>4. ~panicked' /\ \A j \in closed' : routine'[j].pc = "exited"
  <2>1. CASE UNCHANGED <<closed, panicked>>
    BY <1>0, <1>1, <1>2, <1>3, <2>1, SMTT(30), SMTT(45) DEF HandoverInv, RoutineAt
  <2>2. CASE CloseDone(i) /\ RoutineMoved(i, "exited")
    BY <1>0, <1>1, <1>2, <1>3, <2>2, ZenonT(30) DEF HandoverInv, RoutineAt, CloseDone, RoutineMoved
  <2> QED
    BY <1>0, <2>1, <2>2, AuditMoves, SMTT(30), SMTT(45)
<1>5. sd.pc # "down" /\ store[gw.gen] = "open"
  BY <1>0, <1>1, <1>2, AuditMoves, SMTT(30), SMTT(45) DEF HandoverInv, RoutineAt
<1> QED
  BY <1>1, <1>2, <1>3, <1>4, <1>5, ZenonT(30) DEF HandoverInv, RoutineAt, Busy, AdmAt

LEMMA ReloadHandover ==
    ASSUME SafeInv, HandoverInv, NEW a \in Admin, Reload(a)
    PROVE  HandoverInv'
<1> SUFFICES ASSUME ~hurried' PROVE HandoverInv'
  BY ZenonT(60) DEF HandoverInv
<1>0. /\ TypeOK /\ LifeInv /\ gw.auditDone \in Calls /\ closed \subseteq Calls /\ gw.gen \in Gen
      /\ a \in Calls /\ Gen \subseteq Nat /\ store \in [Gen -> {"none", "open", "closed"}]
      /\ routine \in [Calls -> RoutineType] /\ sd.pc \in {"up", "cancelled", "draining", "down"}
  BY GatewayAssumption, FS_CardinalityType, SMTT(30), SMTT(45)
     DEF SafeInv, TypeOK, GatewayType, Calls, Gen, ShutdownType
<1>1. CASE ReloadSwap(a)
  <2>1. ~hurried /\ sd.pc \in {"up", "cancelled"} /\ \A b \in Admin : ~Busy(b)
    BY <1>0, <1>1, Zenon DEF ReloadSwap
  <2>2. /\ gw'.gen = gw.gen + 1 /\ gw'.auditDone = gw.auditDone /\ gw.gen + 1 \in Gen
    BY <1>0, <1>1, SwapSafe, Generations, Zenon DEF ReloadSwap, AdmAt
  <2>3. AdmMoved(a, "wait", gw.auditDone, gw.gen)
    BY <1>0, <1>1, SwapMoves, SMTT(30), SMTT(45)
  <2>4. \A i \in Calls : routine'[i].pc = routine[i].pc /\ routine'[i].gen = routine[i].gen
    BY <1>0, <1>1 DEF ReloadSwap, RoutineType
  <2>5. /\ UNCHANGED <<sd, closed, panicked>>
        /\ store' = [store EXCEPT ![gw.gen + 1] = "open"]
    BY <1>1, ZenonT(60) DEF ReloadSwap, others
  <2>6. store'[gw.gen] = "open" /\ store'[gw.gen + 1] = "open" /\ routine[gw.auditDone].gen = gw.gen
    BY <1>0, <2>1, <2>2, <2>5, SMTT(30), SMTT(45) DEF HandoverInv, AdmAt, Busy
  <2>7. \A b \in Admin : Busy(b)' <=> b = a
    BY <2>1, <2>3, Zenon DEF AdmMoved, Busy
  <2>8. /\ \A i \in Calls \ {gw'.auditDone} : RoutineAt(i, {"none", "exited"})'
        /\ \A i \in closed' : RoutineAt(i, {"exited"})'
    BY <1>0, <2>1, <2>2, <2>4, <2>5, ZenonT(30) DEF HandoverInv, RoutineAt
  <2>9. /\ adm'[a].gen = gw.gen /\ adm'[a].done = gw'.auditDone /\ adm'[a].pc = "wait"
        /\ gw.gen < gw'.gen /\ routine'[gw'.auditDone].gen = gw.gen
    <3>1. gw.gen \in Nat
      BY <1>0, Zenon
    <3>2. routine'[gw.auditDone].gen = gw.gen
      BY <1>0, <2>4, <2>6, SMTT(30), SMTT(45)
    <3> QED
      BY <2>2, <2>3, <3>1, <3>2, SMTT(30), SMTT(45) DEF AdmMoved
  <2>10. \A b \in Admin : AdmAt(b, "wait")' <=> b = a
    BY <2>7, <2>9, ZenonT(60) DEF AdmAt, Busy
  <2> QED
    BY <1>0, <2>1, <2>2, <2>5, <2>6, <2>7, <2>8, <2>9, <2>10, ZenonT(30) DEF HandoverInv
<1>2. CASE ReloadSpawn(a)
  <2>1. ~hurried /\ adm[a].done \in closed /\ AdmAt(a, "wait") /\ Busy(a)
    BY <1>2, Zenon DEF ReloadSpawn, AdmAt, Busy
  <2>2. Spawned(a) /\ UNCHANGED <<store, closed, sd, panicked>>
    BY <1>2, SpawnSafe, Zenon DEF ReloadSpawn, others
  <2>3. AdmMoved(a, "close", adm[a].done, adm[a].gen)
    BY <1>0, <1>2, AdmGoes, ZenonT(30) DEF ReloadSpawn
  <2>4. routine[gw.auditDone].pc = "exited" /\ a \notin closed
    BY <1>0, <2>1, Zenon DEF HandoverInv, LifeInv, RoutineAt, AdmAt
  <2>5. \A b \in Admin : (Busy(b)' <=> b = a) /\ (Busy(b) <=> b = a)
    BY <2>1, <2>3, Zenon DEF AdmMoved, Busy, HandoverInv
  <2>6. \A i \in Calls \ {a} : routine'[i].pc \in {"none", "exited"}
    BY <1>0, <2>1, <2>2, <2>4, ZenonT(30) DEF HandoverInv, Spawned, RoutineAt
  <2>7. \A i \in closed' : routine'[i].pc = "exited"
    <3>1. closed' = closed /\ a \notin closed
      BY <2>2, <2>4, Zenon
    <3>2. \A i \in closed : i \in Calls /\ routine[i].pc = "exited"
      BY <1>0, <2>1, Zenon DEF HandoverInv, RoutineAt, TypeOK
    <3> QED
      BY <2>2, <3>1, <3>2, Zenon DEF Spawned
  <2>8. sd.pc \in {"up", "cancelled"} /\ store[gw.gen] = "open" /\ ~panicked /\ adm[a].gen \in Gen /\ adm[a].gen < gw.gen
    BY <2>1, Zenon DEF HandoverInv
  <2>9. \A b \in Admin : ~AdmAt(b, "wait")'
    BY <2>3, <2>5, Zenon DEF AdmMoved, AdmAt, Busy
  <2>10. /\ adm'[a].gen \in Gen /\ adm'[a].gen < gw'.gen
         /\ routine'[gw'.auditDone].gen = gw'.gen /\ store'[gw'.gen] = "open"
    BY <2>2, <2>3, <2>8, Zenon DEF AdmMoved, Spawned
  <2>11. \A i \in Calls \ {gw'.auditDone} : routine'[i].pc \in {"none", "exited"}
    BY <2>2, <2>6, Zenon DEF Spawned
  <2>12. sd'.pc \in {"up", "cancelled"} /\ ~panicked'
    BY <2>2, <2>8, Zenon
  <2> QED
    BY <2>5, <2>7, <2>9, <2>10, <2>11, <2>12, ZenonT(30) DEF HandoverInv, RoutineAt
<1>3. CASE CloseOldStore(a)
  <2>1. ~hurried /\ AdmAt(a, "close") /\ Busy(a) /\ UNCHANGED <<gw, routine, closed, sd, panicked>>
    BY <1>3 DEF CloseOldStore, AdmAt, Busy, others
  <2>2. AdmMoved(a, "done", adm[a].done, adm[a].gen)
    BY <1>0, <1>3, AdmGoes, ZenonT(30) DEF CloseOldStore
  <2>3. \A b \in Admin : ~Busy(b)' /\ (Busy(b) <=> b = a)
    BY <2>1, <2>2, ZenonT(30) DEF AdmMoved, Busy, HandoverInv
  <2>4. sd.pc \in {"up", "cancelled"} /\ store[gw.gen] = "open" /\ adm[a].gen < gw.gen
    BY <2>1, ZenonT(30) DEF HandoverInv
  <2>5. store'[gw.gen] = "open"
    BY <1>0, <1>3, <2>4, SMTT(30), SMTT(45) DEF CloseOldStore
  <2>6. \A b \in Admin : ~AdmAt(b, "wait") /\ ~AdmAt(b, "wait")'
    BY <2>1, <2>3 DEF AdmAt, Busy
  <2> QED
    BY <2>1, <2>3, <2>4, <2>5, <2>6, Zenon DEF HandoverInv, RoutineAt
<1> QED
  BY <1>1, <1>2, <1>3, Zenon DEF Reload

LEMMA ShutdownHandover ==
    ASSUME SafeInv, HandoverInv, ContextEnds \/ ShutdownBegin \/ ShutdownEnd
    PROVE  HandoverInv'
<1> SUFFICES ASSUME ~hurried' PROVE HandoverInv'
  BY DEF HandoverInv
<1>0. /\ gw.auditDone \in Calls /\ closed \subseteq Calls
      /\ \A i \in Calls : routine'[i].pc = routine[i].pc /\ routine'[i].gen = routine[i].gen
  BY ShutdownSafe DEF SafeInv, TypeOK, GatewayType
<1>1. ~hurried /\ UNCHANGED <<gw, closed, adm, panicked>>
  <2>1. CASE ContextEnds
    BY <2>1, Zenon DEF ContextEnds, others
  <2>2. CASE ShutdownBegin \/ ShutdownEnd
    BY <2>2, Zenon DEF ShutdownBegin, ShutdownEnd, others
  <2> QED
    BY <2>1, <2>2, Zenon
<1>2. CASE ShutdownBegin
  <2>1. \A b \in Admin : ~Busy(b) /\ ~AdmAt(b, "wait")
    BY <1>2, Zenon DEF ShutdownBegin, Busy, AdmAt
  <2>2. sd'.pc = "draining" /\ sd'.done = gw.auditDone /\ sd'.gen = gw.gen
    BY <1>2 DEF ShutdownBegin
  <2>3. UNCHANGED store /\ sd.pc = "cancelled"
    BY <1>2, Zenon DEF ShutdownBegin
  <2> QED
    BY <1>0, <1>1, <2>1, <2>2, <2>3, ZenonT(30) DEF HandoverInv, RoutineAt, Busy, AdmAt
<1>3. CASE ShutdownEnd
  <2>1. /\ sd.pc = "draining" /\ sd'.pc = "down" /\ sd'.done = sd.done /\ sd'.gen = sd.gen
        /\ sd.done \in closed
    BY <1>3, ZenonT(30) DEF ShutdownEnd, SafeInv, TypeOK, ShutdownType
  <2>2. \A b \in Admin : ~Busy(b) /\ ~AdmAt(b, "wait")
    BY <1>1, <2>1, Zenon DEF HandoverInv, Busy, AdmAt
  <2>3. routine[gw.auditDone].pc = "exited"
    BY <1>1, <2>1, Zenon DEF HandoverInv, RoutineAt
  <2> QED
    BY <1>0, <1>1, <2>1, <2>2, <2>3, ZenonT(30) DEF HandoverInv, RoutineAt, Busy, AdmAt
<1>4. CASE ContextEnds
  <2>1. sd.pc = "up" /\ sd'.pc = "cancelled" /\ UNCHANGED store
    BY <1>4, ZenonT(30) DEF ContextEnds, SafeInv, TypeOK, ShutdownType
  <2> QED
    BY <1>0, <1>1, <2>1, ZenonT(30) DEF HandoverInv, RoutineAt, Busy, AdmAt
<1> QED
  BY <1>2, <1>3, <1>4, ZenonT(30)

LEMMA RequestHandover ==
    ASSUME HandoverInv, UNCHANGED <<gw, store, routine, closed, adm, sd, panicked, hurried>>
    PROVE  HandoverInv'
  BY ZenonT(30) DEF HandoverInv, RoutineAt, Busy, AdmAt

LEMMA RequestsApart ==
    ASSUME NEW r \in Requests, Request(r)
    PROVE  UNCHANGED <<gw, store, routine, closed, adm, sd, panicked, hurried>>
  BY ZenonT(30) DEF Request, Arrive, Blocked, PipelineExecute, PreCheck, NoTarget, Attempt,
         UpdateCreditBalanceTx, DeductFails, Commit, Log, Return, life

LEMMA StepHandover == ASSUME SafeInv, HandoverInv, [Next]_vars PROVE HandoverInv'
<1>1. ASSUME NEW r \in Requests, Request(r) PROVE HandoverInv'
  BY <1>1, RequestsApart, RequestHandover
<1>2. CASE UNCHANGED vars
  BY <1>2, RequestHandover, ZenonT(30) DEF vars
<1> QED
  BY <1>1, <1>2, AuditHandover, ReloadHandover, ShutdownHandover, Zenon DEF Next

LEMMA InitHandover == ASSUME Init PROVE HandoverInv
<1>1. 1 \in Gen
  BY GatewayAssumption, FS_CardinalityType DEF Gen
<1> QED
  BY <1>1, GatewayAssumption, SMTT(30), SMTT(45) DEF Init, HandoverInv, RoutineAt, Busy, AdmAt, Calls

\* When every wait of Reload and Shutdown ended because the goroutine had
\* finished, and no two calls overlapped, each audit goroutine has an open
\* store for as long as it may flush, and closes a channel that is open
\* (Reload, Start, Shutdown).
THEOREM HandoverIsOrderly == Spec => []OrderlyHandover
<1>1. SafeInv /\ HandoverInv => OrderlyHandover
  <2> SUFFICES ASSUME SafeInv, HandoverInv, ~hurried, NEW i \in Calls,
                      RoutineAt(i, {"spawned", "loop", "drain", "final"})
               PROVE  store[routine[i].gen] = "open"
    BY DEF OrderlyHandover, HandoverInv
  <2>1. i = gw.auditDone /\ sd.pc # "down"
    BY DEF HandoverInv, RoutineAt
  <2> QED
    BY <2>1, ZenonT(30) DEF HandoverInv
<1>2. Init => SafeInv /\ HandoverInv
  BY InitSafe, InitHandover
<1>3. SafeInv /\ HandoverInv /\ [Next]_vars => (SafeInv /\ HandoverInv)'
  BY StepSafe, StepHandover, Zenon
<1> QED
  BY <1>1, <1>2, <1>3, PTL DEF Spec

-----------------------------------------------------------------------------
(* A goroutine empties the logger it started.                              *)

\* The goroutines that receive, and those in their last flush, stay the same.
RunsSame ==
    \A i \in Calls :
      /\ routine'[i].pc \in {"loop", "drain"} <=> routine[i].pc \in {"loop", "drain"}
      /\ routine'[i].pc = "final" <=> routine[i].pc = "final"
      /\ routine[i].pc \in {"loop", "drain", "final"} => routine'[i].gen = routine[i].gen
Finishing(g) == \E i \in Calls : RoutineAt(i, {"final"}) /\ routine[i].gen = g

\* A started logger that some goroutine receives from may change as it likes;
\* otherwise only late entries come.
LoggerMoves(g) ==
    /\ lg[g].started /\ lg'[g].started
    /\ Receiving(g) \/ (lg'[g].batch = lg[g].batch
                        /\ (Range(lg[g].entries) \subseteq late => Range(lg'[g].entries) \subseteq late'))

LEMMA StartedKept ==
    ASSUME TypeOK, StartedInv, RunsSame, late \subseteq late',
           \A g \in Gen : lg'[g] = lg[g] \/ LoggerMoves(g)
    PROVE  StartedInv'
<1>1. \A g \in Gen : (Receiving(g)' <=> Receiving(g)) /\ (Finishing(g) => Finishing(g)')
  BY DEF Receiving, RunsSame, Finishing, RoutineAt
<1>2. \A g \in Gen : lg'[g].started <=> lg[g].started
  BY DEF LoggerMoves
<1>3. StrandedAreLate'
  <2> SUFFICES ASSUME NEW g \in Gen, lg'[g].started, ~Receiving(g)
               PROVE  /\ Range(lg'[g].entries) \subseteq late'
                      /\ lg'[g].batch # <<>> => Finishing(g)'
    BY <1>1, SMTT(30), SMTT(45) DEF StrandedAreLate, Finishing
  <2>1. (lg[g].batch # <<>> => Finishing(g)') /\ Range(lg[g].entries) \subseteq late
    BY <1>1, <1>2, Zenon DEF StartedInv, StrandedAreLate, Finishing
  <2>2. lg'[g] = lg[g] \/ LoggerMoves(g)
    OBVIOUS
  <2> QED
    BY <2>1, <2>2 DEF LoggerMoves
<1>4. \A g \in Gen : ~lg'[g].started => lg'[g].batch = <<>> /\ lg'[g].entries = <<>>
  BY SMTT(30), SMTT(45) DEF StartedInv, LoggerMoves
<1>5. \A i, j \in Calls :
         RoutineAt(i, {"loop", "drain", "final"})' =>
           /\ lg'[routine'[i].gen].started
           /\ RoutineAt(j, {"loop", "drain", "final"})' /\ routine'[i].gen = routine'[j].gen => i = j
  <2>1. \A i \in Calls : routine[i].gen \in Gen
    BY DEF TypeOK, RoutineType
  <2> QED
    BY <1>2, <2>1 DEF StartedInv, RoutineAt, RunsSame
<1> QED
  BY <1>3, <1>4, <1>5, ZenonT(30) DEF StartedInv

\* Log: the entry is late when nobody receives from the logger.
LEMMA LogStarted ==
    ASSUME SafeInv, StartedInv, NEW r \in Requests, Log(r)
    PROVE  StartedInv'
<1>0. TypeOK /\ G(r) \in Gen /\ lg \in [Gen -> LoggerType] /\ late \subseteq late' /\ RunsSame
  BY DEF SafeInv, TypeOK, LifeInv, Log, G, RunsSame
<1>1. CASE ~lg[G(r)].started
  <2>1. UNCHANGED lg
    BY <1>1 DEF Log
  <2> QED
    BY <1>0, <2>1, StartedKept, SMTT(30), SMTT(45)
<1>2. CASE lg[G(r)].started
  <2> DEFINE l == Queued(lg[G(r)], r)
  <2>1. lg' = [lg EXCEPT ![G(r)] = l] /\ (~Receiving(G(r)) => late' = late \cup {r})
    BY <1>2 DEF Log
  <2>2. /\ l.started = lg[G(r)].started /\ l.batch = lg[G(r)].batch
        /\ Range(l.entries) \subseteq Range(lg[G(r)].entries) \cup {r}
    <3>1. lg[G(r)].entries \in Seq(Requests) /\ lg[G(r)] \in LoggerType
      BY <1>0, ZenonT(30) DEF LoggerType
    <3>2. Range(Append(lg[G(r)].entries, r)) \subseteq Range(lg[G(r)].entries) \cup {r}
      BY <3>1 DEF Range
    <3> DEFINE es == Append(lg[G(r)].entries, r)
    <3>3. l = [lg[G(r)] EXCEPT !.entries = es] \/ l = [lg[G(r)] EXCEPT !.dropped = @ \cup {r}]
      BY DEF Queued
    <3> HIDE DEF es
    <3> QED
      BY <3>1, <3>2, <3>3, ZenonT(30) DEF LoggerType, es
  <2> HIDE DEF l
  <2>3. LoggerMoves(G(r)) /\ \A g \in Gen \ {G(r)} : lg'[g] = lg[g]
    BY <1>0, <1>2, <2>1, <2>2, Zenon DEF LoggerMoves
  <2> QED
    BY <1>0, <2>3, StartedKept, ZenonT(30)
<1> QED
  BY <1>1, <1>2, ZenonT(30)

\* The steps of a goroutine: the first Start of a logger runs it, the end of
\* the drain leaves the channel empty and the last flush the batch.
LEMMA AuditStarted ==
    ASSUME SafeInv, StartedInv, NEW i \in Calls, AuditStep(i)
    PROVE  StartedInv'
<1> DEFINE g == routine[i].gen
<1>0. /\ TypeOK /\ g \in Gen /\ lg \in [Gen -> LoggerType] /\ routine \in [Calls -> RoutineType]
      /\ L(i) = lg[g] /\ late' = late
  BY DEF SafeInv, TypeOK, RoutineType, L, AuditStep, StartLogger, Receive, FlushFull, Tick,
         ContextDone, Drained, FinalFlush, CloseDone, requests
<1>s. \A l \in LoggerType : /\ [l EXCEPT !.started = TRUE].batch = l.batch
                            /\ [l EXCEPT !.started = TRUE].entries = l.entries
                            /\ [l EXCEPT !.started = TRUE].started
                            /\ Received(l).started = l.started
                            /\ Flushed(l).started = l.started /\ Flushed(l).batch = <<>>
                            /\ Flushed(l).entries = l.entries
  BY DEF LoggerType, Received, Flushed
<1> HIDE DEF g
<1>1. CASE StartLogger(i) /\ lg[g].started
  <2>1. RoutineMoved(i, "exit") /\ routine[i].pc = "spawned"
    BY <1>0, <1>1, MovesRoutine, ZenonT(30) DEF StartLogger, RoutinePcs, RoutineAt
  <2>2. RunsSame
    BY <2>1 DEF RoutineMoved, RunsSame
  <2>3. \A h \in Gen : lg'[h] = lg[h] \/ LoggerMoves(h)
    BY <1>0, <1>1, <1>s, SMTT(30), SMTT(45) DEF StartLogger, LoggerMoves, g
  <2> QED
    BY <1>0, <2>2, <2>3, StartedKept
<1>2. CASE StartLogger(i) /\ ~lg[g].started
  <2>1. RoutineMoved(i, "loop") /\ routine[i].pc = "spawned"
    BY <1>0, <1>2, MovesRoutine DEF StartLogger, RoutinePcs, RoutineAt
  <2>2. lg' = [lg EXCEPT ![g] = [lg[g] EXCEPT !.started = TRUE]]
    BY <1>0, <1>2 DEF StartLogger, g
  <2>3. \A j \in Calls : routine[j].pc \in {"loop", "drain", "final"} => routine[j].gen # g
    BY <1>2 DEF StartedInv, RoutineAt
  <2>4. /\ \A h \in Gen \ {g} : (Receiving(h)' <=> Receiving(h)) /\ lg'[h] = lg[h]
        /\ \A h \in {g} : Receiving(h)' /\ lg'[h].started
    <3>1. routine'[i].gen = g /\ routine'[i].pc = "loop" /\ \A j \in Calls \ {i} : routine'[j] = routine[j]
      BY <2>1, Zenon DEF RoutineMoved, g
    <3>2. \A h \in Gen \ {g} : Receiving(h)' <=> Receiving(h)
      BY <1>0, <2>1, <3>1, Zenon DEF Receiving, g
    <3>3. \A h \in {g} : Receiving(h)'
      BY <3>1 DEF Receiving
    <3>4. lg'[g].started /\ \A h \in Gen \ {g} : lg'[h] = lg[h]
      BY <1>0, <1>s, <2>2, ZenonT(30)
    <3> QED
      BY <3>2, <3>3, <3>4, Zenon
  <2>5. \A j \in Calls : RoutineAt(j, {"loop", "drain", "final"})' <=>
                            j = i \/ RoutineAt(j, {"loop", "drain", "final"})
    BY <2>1 DEF RoutineMoved, RoutineAt
  <2>6. \A j \in Calls : routine'[j].gen = routine[j].gen /\ routine[j].gen \in Gen
    BY <1>0, <2>1, Zenon DEF RoutineMoved, RoutineType
  <2>7. StrandedAreLate'
    <3> SUFFICES ASSUME NEW h \in Gen, lg'[h].started, ~Receiving(h)'
                 PROVE  Range(lg'[h].entries) \subseteq late' /\ (lg'[h].batch # <<>> => Finishing(h)')
      BY DEF StrandedAreLate, Finishing
    <3>1. h # g /\ ~Receiving(h) /\ lg'[h] = lg[h] /\ lg[h].started
      BY <2>4, Zenon
    <3>2. Range(lg[h].entries) \subseteq late /\ (lg[h].batch # <<>> => Finishing(h))
      BY <3>1, Zenon DEF StartedInv, StrandedAreLate, Finishing
    <3>3. Finishing(h) => Finishing(h)'
      BY <2>1, Zenon DEF Finishing, RoutineAt, RoutineMoved
    <3> QED
      BY <1>0, <3>1, <3>2, <3>3, ZenonT(30)
  <2>8. \A h \in Gen : ~lg'[h].started => lg'[h].batch = <<>> /\ lg'[h].entries = <<>>
    BY <2>4, Zenon DEF StartedInv
  <2>9. \A j, k \in Calls :
         RoutineAt(j, {"loop", "drain", "final"})' =>
           /\ lg'[routine'[j].gen].started
           /\ RoutineAt(k, {"loop", "drain", "final"})' /\ routine'[j].gen = routine'[k].gen => j = k
    BY <2>3, <2>4, <2>5, <2>6, SMTT(30), SMTT(45) DEF StartedInv, RoutineAt, g
  <2> QED
    BY <2>7, <2>8, <2>9 DEF StartedInv
<1>3. CASE Receive(i) \/ FlushFull(i) \/ Tick(i)
  <2>1. UNCHANGED routine /\ Receiving(g) /\ lg[g].started
    BY <1>3 DEF Receive, FlushFull, Tick, Receiving, RoutineAt, StartedInv, g
  <2>2. \E l : lg' = [lg EXCEPT ![g] = l] /\ l.started = lg[g].started
    <3>1. lg[g] \in LoggerType
      BY <1>0, Zenon
    <3>2. \/ lg' = [lg EXCEPT ![g] = Received(lg[g])] \/ lg' = [lg EXCEPT ![g] = Flushed(lg[g])]
      BY <1>0, <1>3, Zenon DEF Receive, FlushFull, Tick, Flush, g
    <3> QED
      BY <1>s, <3>1, <3>2
  <2>3. LoggerMoves(g) /\ \A h \in Gen \ {g} : lg'[h] = lg[h]
    BY <1>0, <2>1, <2>2, Zenon DEF LoggerMoves
  <2> QED
    BY <1>0, <2>1, <2>3, StartedKept, Zenon DEF RunsSame
<1>4. CASE ContextDone(i) \/ CloseDone(i)
  <2>1. /\ \/ RoutineMoved(i, "drain") /\ routine[i].pc = "loop"
           \/ RoutineMoved(i, "exited") /\ routine[i].pc = "exit"
        /\ UNCHANGED lg
    BY <1>0, <1>4, MovesRoutine, Zenon DEF ContextDone, CloseDone, RoutinePcs, RoutineAt
  <2>2. RunsSame
    BY <2>1, Zenon DEF RoutineMoved, RunsSame
  <2> QED
    BY <1>0, <2>1, <2>2, StartedKept, Zenon
<1>5. CASE Drained(i) \/ FinalFlush(i)
  <2>1. \/ /\ RoutineMoved(i, "final") /\ routine[i].pc = "drain"
           /\ lg[g].entries = <<>> /\ UNCHANGED lg
        \/ /\ RoutineMoved(i, "exit") /\ routine[i].pc = "final"
           /\ lg' = [lg EXCEPT ![g] = Flushed(lg[g])]
    BY <1>0, <1>5, MovesRoutine, Zenon DEF Drained, FinalFlush, Flush, RoutinePcs, RoutineAt, g
  <2>2. /\ \A h \in Gen \ {g} : lg'[h] = lg[h]
        /\ lg'[g].started = lg[g].started /\ lg'[g].entries = lg[g].entries /\ lg[g].started
    <3>1. lg[g] \in LoggerType
      BY <1>0, Zenon
    <3>2. Flushed(lg[g]).started = lg[g].started /\ Flushed(lg[g]).entries = lg[g].entries
      BY <1>s, <3>1, Zenon
    <3>3. lg[g].started
      BY <2>1, Zenon DEF StartedInv, RoutineAt, g
    <3>4. UNCHANGED lg \/ lg' = [lg EXCEPT ![g] = Flushed(lg[g])]
      BY <2>1, Zenon
    <3>5. (lg'[g] = lg[g] \/ lg'[g] = Flushed(lg[g])) /\ \A h \in Gen \ {g} : lg'[h] = lg[h]
      BY <1>0, <3>4, Zenon
    <3> QED
      BY <3>2, <3>3, <3>5, Zenon
  <2>3. \A h \in Gen \ {g} : (Receiving(h)' <=> Receiving(h)) /\ (Finishing(h) => Finishing(h)')
    BY <2>1, Zenon DEF Receiving, Finishing, RoutineAt, RoutineMoved, g
  <2>4. \A h \in {g} : lg'[h].batch # <<>> => Finishing(h)'
    <3>1. CASE RoutineMoved(i, "final")
      BY <3>1, Zenon DEF Finishing, RoutineAt, RoutineMoved, g
    <3>2. CASE lg' = [lg EXCEPT ![g] = Flushed(lg[g])]
      BY <1>0, <1>s, <3>2, Zenon
    <3> QED
      BY <2>1, <3>1, <3>2, Zenon
  <2>5. Range(lg'[g].entries) \subseteq late'
    <3>1. CASE lg[g].entries = <<>>
      BY <2>2, <3>1, SMTT(30), SMTT(45) DEF Range
    <3>2. CASE routine[i].pc = "final"
      <4>1. ~Receiving(g)
        BY <3>2, Zenon DEF Receiving, StartedInv, RoutineAt, g
      <4> QED
        BY <1>0, <2>2, <4>1, Zenon DEF StartedInv, StrandedAreLate
    <3> QED
      BY <2>1, <3>1, <3>2, Zenon
  <2>6. StrandedAreLate'
    <3> SUFFICES ASSUME NEW h \in Gen, lg'[h].started, ~Receiving(h)'
                 PROVE  Range(lg'[h].entries) \subseteq late' /\ (lg'[h].batch # <<>> => Finishing(h)')
      BY DEF StrandedAreLate, Finishing
    <3>1. CASE h = g
      BY <2>4, <2>5, <3>1, Zenon
    <3>2. CASE h # g
      <4>1. ~Receiving(h) /\ lg'[h] = lg[h]
        BY <2>2, <2>3, <3>2, Zenon
      <4>2. Range(lg[h].entries) \subseteq late /\ (lg[h].batch # <<>> => Finishing(h))
        BY <4>1, Zenon DEF StartedInv, StrandedAreLate, Finishing
      <4> QED
        BY <1>0, <2>3, <3>2, <4>1, <4>2, Zenon
    <3> QED
      BY <3>1, <3>2, Zenon
  <2>7. \A j \in Calls :
           /\ RoutineAt(j, {"loop", "drain", "final"})' => RoutineAt(j, {"loop", "drain", "final"})
           /\ routine'[j].gen = routine[j].gen /\ routine[j].gen \in Gen
    BY <1>0, <2>1, Zenon DEF RoutineMoved, RoutineAt, RoutineType
  <2>8. \A h \in Gen : lg'[h].started = lg[h].started
    BY <2>2, Zenon
  <2>9. \A h \in Gen : ~lg'[h].started => lg'[h].batch = <<>> /\ lg'[h].entries = <<>>
    BY <2>2, Zenon DEF StartedInv
  <2> QED
    BY <2>6, <2>7, <2>8, <2>9, ZenonT(30) DEF StartedInv
<1> QED
  BY <1>1, <1>2, <1>3, <1>4, <1>5, ZenonT(30) DEF AuditStep

\* Reload and Shutdown neither start nor end a run.
LEMMA LifeStarted ==
    ASSUME SafeInv, StartedInv,
           ContextEnds \/ ShutdownBegin \/ ShutdownEnd \/ \E a \in Admin : Reload(a)
    PROVE  StartedInv'
<1>0. TypeOK /\ LifeInv /\ routine \in [Calls -> RoutineType]
  BY Zenon DEF SafeInv, TypeOK
<1>1. UNCHANGED <<lg, late>>
  BY Zenon DEF ContextEnds, ShutdownBegin, ShutdownEnd, Reload, ReloadSwap, ReloadSpawn, CloseOldStore, others
<1>2. RunsSame
  <2>1. CASE ContextEnds \/ ShutdownBegin \/ ShutdownEnd
    BY <2>1, ShutdownSafe DEF RunsSame
  <2>2. ASSUME NEW a \in Admin, ReloadSwap(a) PROVE RunsSame
    BY <1>0, <2>2, Zenon DEF ReloadSwap, RunsSame, RoutineType
  <2>3. ASSUME NEW a \in Admin, ReloadSpawn(a) PROVE RunsSame
    BY <1>0, <2>3, SpawnSafe, Zenon DEF ReloadSpawn, RunsSame, Spawned, LifeInv, AdmAt, Calls
  <2>4. ASSUME NEW a \in Admin, CloseOldStore(a) PROVE RunsSame
    BY <2>4 DEF CloseOldStore, RunsSame
  <2> QED
    BY <2>1, <2>2, <2>3, <2>4, ZenonT(30) DEF Reload
<1> QED
  BY <1>0, <1>1, <1>2, StartedKept, Zenon

LEMMA StepStarted == ASSUME SafeInv, StartedInv, [Next]_vars PROVE StartedInv'
<1>0. TypeOK
  BY DEF SafeInv
<1>1. ASSUME NEW r \in Requests, Request(r), ~Log(r) PROVE StartedInv'
  <2>1. UNCHANGED <<lg, late, routine>>
    BY <1>1, ZenonT(30) DEF Request, Arrive, Blocked, PipelineExecute, PreCheck, NoTarget, Attempt,
                UpdateCreditBalanceTx, DeductFails, Commit, Return, life
  <2> QED
    BY <1>0, <2>1, StartedKept, ZenonT(30) DEF RunsSame
<1>2. CASE UNCHANGED vars
  BY <1>0, <1>2, StartedKept DEF vars, RunsSame
<1> QED
  BY <1>1, <1>2, LogStarted, AuditStarted, LifeStarted, ZenonT(30) DEF Next

\* Once the goroutine of a logger's Start has seen the channel empty and left
\* its drain, what stays there is only what was sent later, during its last
\* flush or after its end, and its batch is gone with that flush, for any
\* number of requests and reloads and whether or not the waits timed out
\* (Logger.Start).
THEOREM StrandedEntriesAreLate == Spec => []StrandedAreLate
<1>1. Init => StartedInv
  <2>1. Init => \A g \in Gen : lg[g] = NewLogger
    BY DEF Init
  <2>2. ~NewLogger.started /\ NewLogger.batch = <<>> /\ NewLogger.entries = <<>>
    BY ZenonT(30) DEF NewLogger
  <2>3. Init => \A i \in Calls : ~RoutineAt(i, {"loop", "drain", "final"})
    BY DEF Init, RoutineAt
  <2> QED
    BY <2>1, <2>2, <2>3, ZenonT(30) DEF StartedInv, StrandedAreLate
<1>2. SafeInv /\ StartedInv /\ [Next]_vars => (SafeInv /\ StartedInv)'
  BY StepSafe, StepStarted
<1>3. Init => SafeInv
  BY InitSafe
<1>4. StartedInv => StrandedAreLate
  BY DEF StartedInv
<1> QED
  BY <1>1, <1>2, <1>3, <1>4, PTL DEF Spec
============================================================================
