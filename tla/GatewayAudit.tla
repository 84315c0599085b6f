--------------------------- MODULE GatewayAudit ----------------------------
(***************************************************************************)
(* No audit entry is lost or written twice: an entry moves from Log to the *)
(* channel, the batch and the table, and is in one place at every step.    *)
(***************************************************************************)
EXTENDS GatewayTheorems

\* Positions in what waits in a batch and behind it in a channel.
LEMMA CatAt ==
    ASSUME NEW b \in Seq(Requests), NEW e \in Seq(Requests)
    PROVE  /\ DOMAIN (b \o e) = 1 .. Len(b) + Len(e)
           /\ DOMAIN b = 1 .. Len(b) /\ DOMAIN e = 1 .. Len(e)
           /\ Len(b) \in Nat /\ Len(e) \in Nat
           /\ \A k \in 1 .. Len(b) : (b \o e)[k] = b[k]
           /\ \A k \in 1 .. Len(e) : (b \o e)[Len(b) + k] = e[k]
  OBVIOUS

LEMMA LinePositions == ASSUME TypeOK PROVE \A g \in Gen : DOMAIN Line(g) \subseteq Nat
<1> SUFFICES ASSUME NEW g \in Gen PROVE DOMAIN Line(g) \subseteq Nat
  OBVIOUS
<1> DEFINE b == lg[g].batch
           e == lg[g].entries
<1>1. b \in Seq(Requests) /\ e \in Seq(Requests) /\ Line(g) = b \o e
  BY DEF TypeOK, LoggerType, Line
<1> HIDE DEF b, e
<1>2. DOMAIN (b \o e) = 1 .. Len(b) + Len(e) /\ Len(b) \in Nat /\ Len(e) \in Nat
  BY <1>1, CatAt
<1> QED
  BY <1>1, <1>2

\* A receive moves the boundary between batch and channel only.
LEMMA CatReceive ==
    ASSUME NEW b \in Seq(Requests), NEW e \in Seq(Requests), e # <<>>
    PROVE  Append(b, Head(e)) \o Tail(e) = b \o e
  BY SMTT(30), SMTT(45)

LEMMA CatAppend ==
    ASSUME NEW b \in Seq(Requests), NEW e \in Seq(Requests), NEW x \in Requests
    PROVE  b \o Append(e, x) = Append(b \o e, x)
  OBVIOUS

\* How many rows an insert adds for a request that is in it at most once.
LEMMA CountOne ==
    ASSUME NEW es \in Seq(Requests), NEW r,
           \A k, m \in DOMAIN es : es[k] = r /\ es[m] = r => k = m
    PROVE  Count(es, r) = IF \E k \in DOMAIN es : es[k] = r THEN 1 ELSE 0
<1> DEFINE at == {k \in DOMAIN es : es[k] = r}
<1>1. CASE \E k \in DOMAIN es : es[k] = r
  <2>1. PICK k \in DOMAIN es : es[k] = r
    BY <1>1
  <2>2. at = {k}
    BY <2>1
  <2>3. Cardinality({k}) = 1
    BY FS_Singleton, Zenon
  <2> QED
    BY <1>1, <2>2, <2>3, Zenon DEF Count
<1>2. CASE ~\E k \in DOMAIN es : es[k] = r
  <2>1. at = {}
    BY <1>2, SMTT(30), SMTT(45)
  <2> QED
    BY <1>2, <2>1, FS_EmptySet, Zenon DEF Count
<1> QED
  BY <1>1, <1>2

\* What stands in a logger's line after a step.
Then(g) == lg'[g].batch \o lg'[g].entries
WaitsThen(r) == \E g \in Gen : \E k \in DOMAIN Then(g) : Then(g)[k] = r

\* An entry is where it was, or nearer to its insert.
Stays(r) ==
    /\ \E s \in [Gen -> Nat] : \A g \in Gen : \A k \in DOMAIN Then(g) :
         Then(g)[k] = r => k \in Nat /\ k + s[g] \in DOMAIN Line(g) /\ Line(g)[k + s[g]] = r
    /\ Waits(r) => WaitsThen(r)
    /\ \A g \in Gen : r \in lg'[g].dropped <=> r \in lg[g].dropped
    /\ db'.audit[r] = db.audit[r]
    /\ r \in failed' <=> r \in failed
    /\ Over(r)' <=> Over(r)

LEMMA StaysAccounted ==
    ASSUME NEW r \in Requests, Accounted(r), Stays(r)
    PROVE  Accounted(r)'
<1>0. \A g \in Gen : Then(g) = Line(g)'
  BY DEF Then, Line
<1>1. PICK s \in [Gen -> Nat] : \A g \in Gen : \A k \in DOMAIN Then(g) :
         Then(g)[k] = r => k \in Nat /\ k + s[g] \in DOMAIN Line(g) /\ Line(g)[k + s[g]] = r
  BY DEF Stays
<1>2. \A g, h \in Gen : \A k \in DOMAIN Then(g), m \in DOMAIN Then(h) :
         Then(g)[k] = r /\ Then(h)[m] = r => g = h /\ k = m
  <2> SUFFICES ASSUME NEW g \in Gen, NEW h \in Gen, NEW k \in DOMAIN Then(g),
                      NEW m \in DOMAIN Then(h), Then(g)[k] = r, Then(h)[m] = r
               PROVE  g = h /\ k = m
    OBVIOUS
  <2>1. g = h /\ k + s[g] = m + s[h]
    BY <1>1 DEF Accounted
  <2>2. k \in Nat /\ m \in Nat /\ s[g] \in Nat
    BY <1>1, SMTT(30), SMTT(45)
  <2> QED
    BY <2>1, <2>2
<1>3. WaitsThen(r) <=> Waits(r)
  BY <1>1 DEF Stays, Waits, WaitsThen
<1>4. Waits(r)' <=> WaitsThen(r)
  BY <1>0 DEF Waits, WaitsThen
<1>5. Dropped(r)' <=> Dropped(r)
  BY SMTT(30), SMTT(45) DEF Stays, Dropped
<1>6. \A g, h \in Gen : r \in lg'[g].dropped /\ r \in lg'[h].dropped => g = h
  BY DEF Stays, Accounted
<1>7. \A g, h \in Gen : \A k \in DOMAIN Line(g)', m \in DOMAIN Line(h)' :
         Line(g)'[k] = r /\ Line(h)'[m] = r => g = h /\ k = m
  BY <1>0, <1>2, SMTT(30), SMTT(45)
<1> QED
  BY <1>3, <1>4, <1>5, <1>6, <1>7, SMTT(30), SMTT(45) DEF Stays, Accounted

\* No entry moves when the loggers' lines stay as they are.
LEMMA QuietStays ==
    ASSUME TypeOK, NEW r \in Requests, \A g \in Gen : Then(g) = Line(g),
           \A g \in Gen : r \in lg'[g].dropped <=> r \in lg[g].dropped,
           db'.audit[r] = db.audit[r], r \in failed' <=> r \in failed, Over(r)' <=> Over(r)
    PROVE  Stays(r)
<1> DEFINE s == [g \in Gen |-> 0]
<1>1. s \in [Gen -> Nat]
  OBVIOUS
<1>2. \A g \in Gen : DOMAIN Then(g) \subseteq Nat
  BY LinePositions
<1>3. \A g \in Gen : \A k \in DOMAIN Then(g) :
         Then(g)[k] = r => k \in Nat /\ k + s[g] \in DOMAIN Line(g) /\ Line(g)[k + s[g]] = r
  BY <1>2
<1> HIDE DEF s
<1>4. Waits(r) => WaitsThen(r)
  BY DEF Waits, WaitsThen
<1> QED
  BY <1>1, <1>3, <1>4, SMTT(30), SMTT(45) DEF Stays

LEMMA AllStay ==
    ASSUME TypeOK, AuditInv, db'.audit = db.audit, UNCHANGED failed,
           \A g \in Gen : Then(g) = Line(g) /\ lg'[g].dropped = lg[g].dropped,
           \A r \in Requests : Over(r)' <=> Over(r)
    PROVE  AuditInv'
<1>1. \A r \in Requests : Stays(r)
  BY QuietStays, SMTT(30), SMTT(45)
<1> QED
  BY <1>1, StaysAccounted, SMTT(30), SMTT(45) DEF AuditInv

\* flush: an entry of the batch has its row, or has failed; the others are
\* that much nearer.
LEMMA FlushAccounts ==
    ASSUME TypeOK, AuditInv, NEW i \in Calls, Flush(i), UNCHANGED req
    PROVE  AuditInv'
<1> DEFINE g == routine[i].gen
           l == lg[g]
           b == l.batch
           e == l.entries
           n == Len(b)
           InBatch(r) == \E k \in DOMAIN b : b[k] = r
<1>0. /\ g \in Gen /\ lg \in [Gen -> LoggerType] /\ db \in DbType /\ b \in Seq(Requests)
      /\ e \in Seq(Requests) /\ Line(g) = b \o e
      /\ \A h \in Gen : lg[h].batch \in Seq(Requests) /\ lg[h].entries \in Seq(Requests)
  BY SMTT(30), SMTT(45) DEF TypeOK, LoggerType, RoutineType, Line
<1> HIDE DEF b, e
<1>1. /\ DOMAIN Line(g) = 1 .. n + Len(e) /\ DOMAIN b = 1 .. n /\ DOMAIN e = 1 .. Len(e)
      /\ n \in Nat /\ Len(e) \in Nat
      /\ \A k \in 1 .. n : Line(g)[k] = b[k]
      /\ \A k \in 1 .. Len(e) : Line(g)[n + k] = e[k]
  <2>1. Line(g) = b \o e /\ b \in Seq(Requests) /\ e \in Seq(Requests)
    BY <1>0, Zenon
  <2> HIDE DEF g
  <2> QED
    BY <2>1, CatAt
<1>2. /\ Then(g) = e /\ lg'[g].dropped = lg[g].dropped
      /\ \A h \in Gen \ {g} : lg'[h] = lg[h] /\ Then(h) = Line(h)
  <2>1. lg' = [lg EXCEPT ![g] = Flushed(l)]
    BY DEF Flush
  <2>2. Flushed(l).batch = <<>> /\ Flushed(l).entries = e /\ Flushed(l).dropped = l.dropped
    BY <1>0 DEF Flushed, LoggerType, e
  <2>3. <<>> \o e = e
    BY <1>0, SMTT(30), SMTT(45)
  <2> QED
    BY <1>0, <2>1, <2>2, <2>3, Zenon DEF Then, Line
<1>3. \A h \in Gen \ {g} : DOMAIN Line(h) \subseteq Nat
  BY LinePositions
<1>4. \/ /\ \A r \in Requests : db'.audit[r] = db.audit[r] + Count(b, r)
         /\ failed' = failed
      \/ db' = db /\ failed' = failed \cup {b[k] : k \in DOMAIN b}
  BY <1>0, InsertedType, ZenonT(60) DEF Flush, b, L
<1>5. \A r \in Requests : (Over(r)' <=> Over(r)) /\ db.audit[r] \in Nat
  BY <1>0 DEF Over, DbType
<1> HIDE DEF g, n
<1>6. ASSUME NEW r \in Requests PROVE Count(b, r) = IF InBatch(r) THEN 1 ELSE 0
  <2>1. Accounted(r)
    BY DEF AuditInv
  <2>2. \A k, m \in DOMAIN b : b[k] = r /\ b[m] = r => k = m
    <3> SUFFICES ASSUME NEW k \in DOMAIN b, NEW m \in DOMAIN b, b[k] = r, b[m] = r PROVE k = m
      OBVIOUS
    <3>1. /\ k \in DOMAIN Line(g) /\ m \in DOMAIN Line(g)
          /\ Line(g)[k] = r /\ Line(g)[m] = r
      BY <1>1, SMTT(30), SMTT(45)
    <3> QED
      BY <1>0, <2>1, <3>1, Zenon DEF Accounted
  <2> QED
    BY <1>0, <2>2, CountOne, Zenon
<1>7. ASSUME NEW r \in Requests, InBatch(r) PROVE Accounted(r)'
  <2>0. Accounted(r) /\ Count(b, r) = 1
    BY <1>6, <1>7, SMTT(30), SMTT(45) DEF AuditInv
  <2>1. PICK k \in 1 .. n : Line(g)[k] = r /\ k \in DOMAIN Line(g)
    BY <1>1, <1>7, SMTT(30), SMTT(45)
  <2>2. Waits(r)
    BY <1>0, <2>1, SMTT(30), SMTT(45) DEF Waits
  <2>3. db.audit[r] = 0 /\ r \notin failed /\ ~Dropped(r) /\ Over(r)
    BY <2>0, <2>2, SMTT(30), SMTT(45) DEF Accounted
  <2>4. \A h \in Gen : \A m \in DOMAIN Then(h) : Then(h)[m] # r
    <3> SUFFICES ASSUME NEW h \in Gen, NEW m \in DOMAIN Then(h), Then(h)[m] = r PROVE FALSE
      BY Zenon
    <3>1. CASE h # g
      <4>1. Then(h) = Line(h)
        BY <1>2, <3>1, Zenon
      <4> QED
        BY <1>0, <2>0, <2>1, <3>1, <4>1, Zenon DEF Accounted
    <3>2. CASE h = g
      <4>1. n + m \in DOMAIN Line(g) /\ Line(g)[n + m] = r /\ n + m # k
        BY <1>1, <1>2, <3>2
      <4> QED
        BY <1>0, <2>0, <2>1, <4>1, ZenonT(90) DEF Accounted
    <3> QED
      BY <3>1, <3>2, Zenon
  <2>5. ~Waits(r)' /\ \A h \in Gen : \A m \in DOMAIN Line(h)' : Line(h)'[m] # r
    BY <2>4, Zenon DEF Waits, Then, Line
  <2>6. ~Dropped(r)' /\ \A h \in Gen : r \notin lg'[h].dropped
    BY <1>0, <1>2, <2>3, Zenon DEF Dropped
  <2>7. \/ db'.audit[r] = 1 /\ r \notin failed'
        \/ db'.audit[r] = 0 /\ r \in failed'
    BY <1>4, <1>7, <2>0, <2>3, SMTT(30), SMTT(45)
  <2> QED
    BY <1>5, <2>3, <2>5, <2>6, <2>7, SMTT(30), SMTT(45) DEF Accounted
<1>8. ASSUME NEW r \in Requests, ~InBatch(r) PROVE Stays(r)
  <2> DEFINE s == [h \in Gen |-> IF h = g THEN n ELSE 0]
  <2>1. s \in [Gen -> Nat] /\ s[g] = n /\ \A h \in Gen \ {g} : s[h] = 0
    BY <1>0, <1>1, Zenon
  <2> HIDE DEF s
  <2>2. \A h \in Gen : \A k \in DOMAIN Then(h) :
         Then(h)[k] = r => k \in Nat /\ k + s[h] \in DOMAIN Line(h) /\ Line(h)[k + s[h]] = r
    <3>1. \A h \in Gen \ {g} : \A k \in DOMAIN Then(h) :
         Then(h)[k] = r => k \in Nat /\ k + s[h] \in DOMAIN Line(h) /\ Line(h)[k + s[h]] = r
      BY <1>2, <1>3, <2>1, SMTT(30), SMTT(45)
    <3>2. \A k \in DOMAIN Then(g) :
         Then(g)[k] = r => k \in Nat /\ k + s[g] \in DOMAIN Line(g) /\ Line(g)[k + s[g]] = r
      BY <1>1, <1>2, <2>1, SMTT(30), SMTT(45)
    <3> QED
      BY <3>1, <3>2, ZenonT(60)
  <2>3. Waits(r) => WaitsThen(r)
    <3> SUFFICES ASSUME NEW h \in Gen, NEW k \in DOMAIN Line(h), Line(h)[k] = r PROVE WaitsThen(r)
      BY DEF Waits
    <3>1. CASE h # g
      BY <1>2, <3>1, Zenon DEF WaitsThen
    <3>2. CASE h = g
      <4>1. k - n \in DOMAIN e /\ e[k - n] = r
        BY <1>1, <1>8, <3>2, SMTT(30), SMTT(45)
      <4> QED
        BY <1>0, <1>2, <4>1, Zenon DEF WaitsThen
    <3> QED
      BY <3>1, <3>2, ZenonT(60)
  <2>4. Count(b, r) = 0 /\ r \notin {b[k] : k \in DOMAIN b}
    BY <1>6, <1>8, ZenonT(60)
  <2>5. db'.audit[r] = db.audit[r] /\ (r \in failed' <=> r \in failed)
    BY <1>4, <1>5, <2>4, SMTT(30), SMTT(45)
  <2>6. \A h \in Gen : r \in lg'[h].dropped <=> r \in lg[h].dropped
    BY <1>2
  <2> QED
    BY <1>5, <2>1, <2>2, <2>3, <2>5, <2>6, Zenon DEF Stays
<1> QED
  BY <1>7, <1>8, StaysAccounted, SMTT(30), SMTT(45) DEF AuditInv

LEMMA AuditAccounts ==
    ASSUME SafeInv, AuditInv, NEW i \in Calls, AuditStep(i)
    PROVE  AuditInv'
<1> DEFINE g == routine[i].gen
<1>0. /\ TypeOK /\ g \in Gen /\ lg \in [Gen -> LoggerType] /\ L(i) = lg[g] /\ lg[g] \in LoggerType
      /\ UNCHANGED req
  BY DEF SafeInv, TypeOK, RoutineType, L, AuditStep, StartLogger, Receive, FlushFull,
         Tick, ContextDone, Drained, FinalFlush, CloseDone, requests
<1>o. \A r \in Requests : Over(r)' <=> Over(r)
  BY <1>0 DEF Over
<1>1. CASE StartLogger(i) \/ ContextDone(i) \/ Drained(i) \/ CloseDone(i)
  <2>1. UNCHANGED <<db, failed>> /\ (UNCHANGED lg \/ lg' = [lg EXCEPT ![g].started = TRUE])
    BY <1>1 DEF StartLogger, ContextDone, Drained, CloseDone
  <2> DEFINE l == [lg[g] EXCEPT !.started = TRUE]
  <2>3. l.batch = lg[g].batch /\ l.entries = lg[g].entries /\ l.dropped = lg[g].dropped
    BY <1>0 DEF LoggerType
  <2>4. UNCHANGED lg \/ lg' = [lg EXCEPT ![g] = l]
    BY <2>1
  <2> HIDE DEF l, g
  <2>2. \A h \in Gen : /\ lg'[h].batch = lg[h].batch /\ lg'[h].entries = lg[h].entries
                       /\ lg'[h].dropped = lg[h].dropped
    BY <1>0, <2>3, <2>4, SMTT(30), SMTT(45)
  <2> QED
    BY <1>0, <1>o, <2>1, <2>2, AllStay, Zenon DEF Then, Line
<1>2. CASE Receive(i)
  <2> DEFINE l == Received(lg[g])
  <2>1. /\ lg[g].batch \in Seq(Requests) /\ lg[g].entries \in Seq(Requests) /\ lg[g].entries # <<>>
        /\ ~Full(lg[g])
    BY <1>0, <1>2, Zenon DEF Receive, LoggerType
  <2>2. /\ l.batch = Append(lg[g].batch, Head(lg[g].entries)) /\ l.entries = Tail(lg[g].entries)
        /\ l.dropped = lg[g].dropped
    BY <1>0, Zenon DEF Received, LoggerType
  <2>3. l.batch \o l.entries = Line(g)
    BY <2>1, <2>2, CatReceive, Zenon DEF Line
  <2>4. lg' = [lg EXCEPT ![g] = l] /\ UNCHANGED <<db, failed>>
    BY <1>2 DEF Receive
  <2> HIDE DEF l, g
  <2>5. \A h \in Gen : Then(h) = Line(h) /\ lg'[h].dropped = lg[h].dropped
    BY <1>0, <2>2, <2>3, <2>4, Zenon DEF Then, Line
  <2> QED
    BY <1>0, <1>o, <2>4, <2>5, AllStay, Zenon
<1>3. CASE FlushFull(i) \/ Tick(i) \/ FinalFlush(i)
  BY <1>0, <1>3, FlushAccounts, Zenon DEF FlushFull, Tick, FinalFlush
<1> QED
  BY <1>1, <1>2, <1>3, ZenonT(60) DEF AuditStep

\* Log puts the entry in one place.
LEMMA LogAccounts ==
    ASSUME SafeInv, AuditInv, NEW r \in Requests, Log(r)
    PROVE  AuditInv'
<1> DEFINE g == G(r)
           b == lg[g].batch
           e == lg[g].entries
           queues == lg[g].started /\ Len(e) < BufferSize
           drops == lg[g].started /\ Len(e) >= BufferSize
<1>0. /\ TypeOK /\ g \in Gen /\ lg \in [Gen -> LoggerType] /\ lg[g] \in LoggerType /\ db \in DbType
      /\ b \in Seq(Requests) /\ e \in Seq(Requests) /\ Len(e) \in Nat /\ BufferSize \in Nat
  <2>1. TypeOK /\ g \in Gen /\ lg \in [Gen -> LoggerType] /\ db \in DbType
    BY DEF SafeInv, TypeOK, LifeInv, Log, G
  <2>2. lg[g] \in LoggerType
    BY <2>1
  <2>3. b \in Seq(Requests) /\ e \in Seq(Requests)
    BY <2>2 DEF LoggerType
  <2>4. Len(e) \in Nat
    BY <2>3
  <2> QED
    BY <2>1, <2>2, <2>3, <2>4, LoggerAssumption, ZenonT(30)
<1>1. /\ Moved(r, "return", 0) \/ Moved(r, "done", 0)
      /\ req[r].pc = "log"
  <2>1. req \in [Requests -> RequestType]
    BY <1>0, SMTT(30), SMTT(45) DEF TypeOK
  <2> QED
    BY <2>1, IdleMoves, Zenon DEF Log
<1>2. Over(r)' /\ ~Over(r) /\ \A q \in Requests \ {r} : Over(q)' <=> Over(q)
  BY <1>1, SMTT(30), SMTT(45) DEF Over, Moved
<1>3. Accounted(r) /\ db.audit[r] = 0 /\ r \notin failed /\ ~Waits(r) /\ ~Dropped(r)
  BY <1>2, SMTT(30), SMTT(45) DEF AuditInv, Accounted
<1>4. \/ queues /\ lg' = [lg EXCEPT ![g].entries = Append(e, r)] /\ UNCHANGED <<db, failed>>
      \/ drops /\ lg' = [lg EXCEPT ![g].dropped = @ \cup {r}] /\ UNCHANGED <<db, failed>>
      \/ UNCHANGED <<lg, failed>> /\ db' = Inserted(<<r>>)
      \/ UNCHANGED <<lg, db>> /\ failed' = failed \cup {r}
  BY <1>0 DEF Log, Queued
<1>5. CASE queues /\ lg' = [lg EXCEPT ![g].entries = Append(e, r)] /\ UNCHANGED <<db, failed>>
  <2> DEFINE n == Len(Line(g)) + 1
             es == Append(e, r)
  <2>1. Line(g) \in Seq(Requests) /\ Line(g) = b \o e /\ b \o es = Append(Line(g), r)
    <3>1. Line(g) = b \o e
      BY DEF Line
    <3>2. b \in Seq(Requests) /\ e \in Seq(Requests)
      BY <1>0
    <3> HIDE DEF b, e, g
    <3> QED
      BY <3>1, <3>2, CatAppend, SMTT(30), SMTT(45)
  <2>2. /\ lg'[g].batch = b /\ lg'[g].entries = es
        /\ \A h \in Gen \ {g} : lg'[h] = lg[h]
        /\ \A h \in Gen : lg'[h].dropped = lg[h].dropped
    <3> HIDE DEF es
    <3> QED
      BY <1>0, <1>5, Zenon DEF LoggerType, es
  <2>3. Then(g) = Append(Line(g), r) /\ \A h \in Gen \ {g} : Then(h) = Line(h)
    BY <2>1, <2>2, Zenon DEF Then, Line
  <2> HIDE DEF g
  <2>4. /\ DOMAIN Then(g) = 1 .. n /\ DOMAIN Line(g) = 1 .. n - 1 /\ n \in Nat \ {0}
        /\ Then(g)[n] = r /\ \A k \in 1 .. n - 1 : Then(g)[k] = Line(g)[k]
    <3> DEFINE w == Line(g)
    <3>1. w \in Seq(Requests) /\ Then(g) = Append(w, r) /\ n = Len(w) + 1
      BY <2>1, <2>3, ZenonT(30)
    <3> HIDE DEF w, n
    <3>2. DOMAIN w = 1 .. n - 1
      BY <3>1, SMTT(30), SMTT(45)
    <3> QED
      BY <3>1, <3>2, SMTT(30), SMTT(45) DEF w
  <2> HIDE DEF n
  <2>5. \A h \in Gen : \A k \in DOMAIN Then(h) : Then(h)[k] = r => h = g /\ k = n
    BY <1>0, <1>3, <2>3, <2>4, SMTT(30), SMTT(45) DEF Waits
  <2>6. \A h \in Gen : Then(h) = Line(h)'
    BY DEF Then, Line
  <2>7. \A h, j \in Gen : \A k \in DOMAIN Line(h)', m \in DOMAIN Line(j)' :
         Line(h)'[k] = r /\ Line(j)'[m] = r => h = j /\ k = m
    BY <2>5, <2>6, SMTT(30), SMTT(45)
  <2>8. ~Dropped(r)' /\ db'.audit[r] = 0 /\ r \notin failed'
    BY <1>3, <1>5, <2>2, SMTT(30), SMTT(45) DEF Dropped
  <2>9. Waits(r)'
    <3>1. n \in DOMAIN Then(g)
      BY <2>4
    <3>2. \E h \in Gen : \E k \in DOMAIN Then(h) : Then(h)[k] = r
      BY <1>0, <2>4, <3>1, Zenon
    <3> QED
      BY <2>6, <3>2, SMTT(30), SMTT(45) DEF Waits
  <2>10. Accounted(r)'
    BY <1>2, <1>3, <2>2, <2>7, <2>8, <2>9, ZenonT(30) DEF Accounted
  <2>11. ASSUME NEW q \in Requests \ {r} PROVE Stays(q)
    <3> DEFINE s == [h \in Gen |-> 0]
    <3>1. \A h \in Gen : DOMAIN Line(h) \subseteq Nat
      BY <1>0, LinePositions, SMTT(30), SMTT(45)
    <3>2. \A h \in Gen : \A k \in DOMAIN Then(h) :
           Then(h)[k] = q => k \in Nat /\ k + 0 \in DOMAIN Line(h) /\ Line(h)[k + 0] = q
      BY <2>3, <2>4, <3>1, SMTT(30), SMTT(45)
    <3>3. s \in [Gen -> Nat] /\ \A h \in Gen : s[h] = 0
      OBVIOUS
    <3> HIDE DEF s
    <3>4. Waits(q) => WaitsThen(q)
      BY <2>3, <2>4, SMTT(30), SMTT(45) DEF Waits, WaitsThen
    <3> QED
      BY <1>2, <1>5, <2>2, <3>2, <3>3, <3>4, SMTT(30), SMTT(45) DEF Stays
  <2> QED
    BY <2>10, <2>11, StaysAccounted, SMTT(30), SMTT(45) DEF AuditInv
<1>6. CASE drops /\ lg' = [lg EXCEPT ![g].dropped = @ \cup {r}] /\ UNCHANGED <<db, failed>>
  <2> DEFINE d == lg[g].dropped \cup {r}
  <2>1. /\ lg'[g].dropped = d /\ \A h \in Gen \ {g} : lg'[h] = lg[h]
        /\ \A h \in Gen : lg'[h].batch = lg[h].batch /\ lg'[h].entries = lg[h].entries
    BY <1>0, <1>6, Zenon DEF LoggerType
  <2> HIDE DEF g
  <2>2. \A h \in Gen : Then(h) = Line(h) /\ Line(h)' = Line(h)
    BY <2>1, Zenon DEF Then, Line
  <2>3. ~Waits(r)' /\ db'.audit[r] = 0 /\ r \notin failed'
    BY <1>3, <1>6, <2>2, SMTT(30), SMTT(45) DEF Waits
  <2>4. Dropped(r)' /\ \A h \in Gen : r \in lg'[h].dropped => h = g
    BY <1>0, <1>3, <2>1, SMTT(30), SMTT(45) DEF Dropped
  <2>5. Accounted(r)'
    BY <1>2, <1>3, <2>2, <2>3, <2>4, SMTT(30), SMTT(45) DEF Accounted
  <2>6. \A q \in Requests \ {r} : \A h \in Gen : q \in lg'[h].dropped <=> q \in lg[h].dropped
    BY <2>1
  <2>7. \A q \in Requests \ {r} : Stays(q)
    BY <1>0, <1>2, <1>6, <2>2, <2>6, QuietStays, ZenonT(30)
  <2> QED
    BY <2>5, <2>7, StaysAccounted, SMTT(30), SMTT(45) DEF AuditInv
<1>7. CASE /\ UNCHANGED lg
           /\ \A q \in Requests \ {r} : db'.audit[q] = db.audit[q] /\ (q \in failed' <=> q \in failed)
           /\ \/ db'.audit[r] = 1 /\ r \notin failed'
              \/ db'.audit[r] = 0 /\ r \in failed'
  <2>1. \A h \in Gen : Then(h) = Line(h) /\ Line(h)' = Line(h) /\ lg'[h].dropped = lg[h].dropped
    BY <1>7, SMTT(30), SMTT(45) DEF Then, Line
  <2>2. ~Waits(r)' /\ ~Dropped(r)'
    BY <1>3, <1>7, <2>1, SMTT(30), SMTT(45) DEF Waits, Dropped
  <2>3. Accounted(r)'
    BY <1>2, <1>3, <1>7, <2>1, <2>2, SMTT(30), SMTT(45) DEF Accounted
  <2>4. \A q \in Requests \ {r} : Stays(q)
    BY <1>0, <1>2, <1>7, <2>1, QuietStays, Zenon
  <2> QED
    BY <2>3, <2>4, StaysAccounted DEF AuditInv
<1>8. CASE UNCHANGED <<lg, failed>> /\ db' = Inserted(<<r>>)
  <2> DEFINE es == <<r>>
  <2>1. es \in Seq(Requests) /\ DOMAIN es = {1} /\ es[1] = r
    BY SMTT(30), SMTT(45)
  <2>2. \A q \in Requests : db'.audit[q] = db.audit[q] + Count(es, q)
    <3> HIDE DEF es
    <3> QED
      BY <1>0, <1>8, <2>1, InsertedType, ZenonT(60) DEF es
  <2> HIDE DEF es
  <2>3. \A q \in Requests : Count(es, q) = IF q = r THEN 1 ELSE 0
    BY <2>1, CountOne
  <2>4. \A q \in Requests : db.audit[q] \in Nat
    BY <1>0 DEF DbType
  <2>5. db'.audit[r] = 1 /\ \A q \in Requests \ {r} : db'.audit[q] = db.audit[q]
    BY <1>3, <2>2, <2>3, <2>4, SMTT(30), SMTT(45)
  <2>6. failed' = failed /\ lg' = lg /\ r \notin failed'
    BY <1>3, <1>8, ZenonT(30)
  <2> QED
    BY <1>7, <2>5, <2>6, ZenonT(30)
<1>9. CASE UNCHANGED <<lg, db>> /\ failed' = failed \cup {r}
  BY <1>3, <1>7, <1>9, ZenonT(30)
<1> QED
  BY <1>4, <1>5, <1>6, <1>8, <1>9, Zenon

LEMMA StepAccounts == ASSUME SafeInv, AuditInv, [Next]_vars PROVE AuditInv'
<1>0. /\ TypeOK /\ LifeInv /\ req \in [Requests -> RequestType] /\ db \in DbType
  BY DEF SafeInv, TypeOK
<1>a. ASSUME UNCHANGED <<lg, failed>>, db'.audit = db.audit, \A r \in Requests : Over(r)' <=> Over(r)
      PROVE  AuditInv'
  BY <1>0, <1>a, AllStay, ZenonT(30) DEF Then, Line
<1>1. ASSUME NEW r \in Requests, Request(r), ~Log(r) PROVE AuditInv'
  <2>1. UNCHANGED <<lg, failed>>
    BY <1>1, Zenon DEF Request, Arrive, Blocked, PipelineExecute, PreCheck, NoTarget, Attempt,
                UpdateCreditBalanceTx, DeductFails, Commit, Return, life
  <2>2. CASE Proceeds(r)
    BY <1>a, <2>1, <2>2, Zenon DEF Proceeds, Moved, Over
  <2>3. CASE UpdateCreditBalanceTx(r)
    <3>1. Moved(r, "log", G(r)) \/ Moved(r, "commit", G(r))
      BY <1>0, <2>3, GotoMoves DEF UpdateCreditBalanceTx, RequestPcs
    <3>2. db'.audit = db.audit /\ req[r].pc = "deduct"
      BY <1>0, <2>3, WriterType, ZenonT(30) DEF UpdateCreditBalanceTx
    <3> QED
      BY <1>a, <2>1, <3>1, <3>2, ZenonT(30) DEF Moved, Over
  <2>4. CASE Commit(r)
    <3>1. Moved(r, "log", G(r)) /\ req[r].pc = "commit"
      BY <1>0, <2>4, GotoMoves DEF Commit, RequestPcs
    <3>2. db' = [db EXCEPT !.writer = NoOne] \/ db' = Charged(r) \/ db' = db
      BY <2>4 DEF Commit, Charged
    <3>3. db'.audit = db.audit
      <4>1. Charged(r).audit = db.audit
        BY <1>0, ChargedType, Zenon
      <4>2. [db EXCEPT !.writer = NoOne].audit = db.audit
        BY <1>0, WriterType
      <4> QED
        BY <3>2, <4>1, <4>2, Zenon
    <3> QED
      BY <1>a, <2>1, <3>1, <3>3 DEF Moved, Over
  <2>5. CASE Return(r)
    <3>1. Moved(r, "done", G(r)) /\ req[r].pc = "return"
      BY <1>0, <2>5, GotoMoves DEF Return, RequestPcs
    <3>2. db'.audit = db.audit
      BY <1>0, <2>5, WriterType DEF Return
    <3> QED
      BY <1>a, <2>1, <3>1, <3>2 DEF Moved, Over
  <2> QED
    BY <1>0, <1>1, <2>2, <2>3, <2>4, <2>5, RequestProceeds, ZenonT(30)
<1>2. ASSUME UNCHANGED <<lg, db, failed, req>> PROVE AuditInv'
  BY <1>2, <1>a, Zenon DEF Over
<1>3. CASE ContextEnds \/ ShutdownBegin \/ ShutdownEnd \/ \E a \in Admin : Reload(a)
  BY <1>2, <1>3, Zenon DEF ContextEnds, ShutdownBegin, ShutdownEnd, Reload, ReloadSwap, ReloadSpawn, CloseOldStore, others
<1>4. CASE UNCHANGED vars
  BY <1>2, <1>4, ZenonT(30) DEF vars
<1> QED
  BY <1>1, <1>3, <1>4, LogAccounts, AuditAccounts, ZenonT(30) DEF Next

LEMMA InitAccounts == ASSUME Init PROVE AuditInv
<1>1. \A g \in Gen : lg[g] = NewLogger
  BY DEF Init
<1>2. NewLogger.batch \o NewLogger.entries = <<>> /\ NewLogger.dropped = {} /\ DOMAIN <<>> = {}
  BY DEF NewLogger
<1>3. \A g \in Gen : DOMAIN Line(g) = {} /\ lg[g].dropped = {}
  BY <1>1, <1>2, ZenonT(30) DEF Line
<1>4. \A r \in Requests : ~Waits(r) /\ ~Dropped(r) /\ ~Over(r)
  BY <1>3 DEF Waits, Dropped, Over, Init, Idle
<1> QED
  BY <1>3, <1>4, SMTT(30), SMTT(45) DEF AuditInv, Accounted, Init

\* Counting the places of an entry that has one at most.
LEMMA PlacesCounted ==
    ASSUME SafeInv, NEW r \in Requests, Accounted(r)
    PROVE  Places(r) = IF Over(r) THEN 1 ELSE 0
<1>0. TypeOK /\ BufferSize \in Nat /\ BatchSize \in Nat
  BY LoggerAssumption DEF SafeInv
<1>1. Cardinality(Waiting(r)) = IF Waits(r) THEN 1 ELSE 0
  <2>1. CASE ~Waits(r)
    <3>1. Waiting(r) = {}
      BY <2>1 DEF Waiting, Waits
    <3> QED
      BY <2>1, <3>1, FS_EmptySet
  <2>2. CASE Waits(r)
    <3>1. PICK g \in Gen : \E k \in DOMAIN Line(g) : Line(g)[k] = r
      BY <2>2 DEF Waits
    <3>2. PICK k \in DOMAIN Line(g) : Line(g)[k] = r
      BY <3>1
    <3>3. k \in 1 .. BufferSize + BatchSize
      <4> DEFINE b == lg[g].batch
                 e == lg[g].entries
      <4>1. /\ b \in Seq(Requests) /\ e \in Seq(Requests) /\ Line(g) = b \o e
            /\ Len(e) <= BufferSize /\ Len(b) <= BatchSize
        BY <1>0 DEF TypeOK, LoggerType, Line
      <4> HIDE DEF b, e
      <4>2. DOMAIN (b \o e) = 1 .. Len(b) + Len(e) /\ Len(b) \in Nat /\ Len(e) \in Nat
        BY <4>1, CatAt
      <4> QED
        BY <1>0, <3>2, <4>1, <4>2
    <3>4. Waiting(r) = {<<g, k>>}
      <4>1. <<g, k>> \in Waiting(r)
        BY <3>2, <3>3 DEF Waiting
      <4>2. ASSUME NEW p \in Waiting(r) PROVE p = <<g, k>>
        <5>1. p[1] \in Gen /\ p = <<p[1], p[2]>> /\ p[2] \in DOMAIN Line(p[1]) /\ Line(p[1])[p[2]] = r
          BY DEF Waiting
        <5>2. p[1] = g /\ p[2] = k
          BY <3>2, <5>1, SMTT(30), SMTT(45) DEF Accounted
        <5> QED
          BY <5>1, <5>2
      <4> QED
        BY <4>1, <4>2
    <3> QED
      BY <2>2, <3>4, FS_Singleton, Zenon
  <2> QED
    BY <2>1, <2>2
<1>2. Cardinality(DroppedBy(r)) = IF Dropped(r) THEN 1 ELSE 0
  <2>1. CASE ~Dropped(r)
    <3>1. DroppedBy(r) = {}
      BY <2>1 DEF DroppedBy, Dropped
    <3> QED
      BY <2>1, <3>1, FS_EmptySet
  <2>2. CASE Dropped(r)
    <3>1. PICK g \in Gen : r \in lg[g].dropped
      BY <2>2 DEF Dropped
    <3>2. DroppedBy(r) = {g}
      BY <3>1 DEF Accounted, DroppedBy
    <3> QED
      BY <2>2, <3>2, FS_Singleton, Zenon
  <2> QED
    BY <2>1, <2>2
<1>3. Cardinality({r} \cap failed) = IF r \in failed THEN 1 ELSE 0
  <2>1. {r} \cap failed = IF r \in failed THEN {r} ELSE {}
    OBVIOUS
  <2>2. Cardinality({r}) = 1 /\ Cardinality({}) = 0
    BY FS_EmptySet, FS_Singleton, Zenon
  <2> QED
    BY <2>1, <2>2
<1> QED
  BY <1>1, <1>2, <1>3 DEF Places, Accounted

\* Whatever the interleaving of requests, goroutines, reloads and the shutdown,
\* the entry of every request that is over is in exactly one place: written
\* once, waiting in one channel or batch, dropped by a full channel or reported
\* as failed; that of any other is nowhere (Logger.Log, Start, flush).
THEOREM EntriesAuditedOnce == Spec => []AuditedOnce
<1>1. SafeInv /\ AuditInv => AuditedOnce
  BY PlacesCounted DEF AuditInv, AuditedOnce, Over
<1>2. Init => SafeInv /\ AuditInv
  BY InitSafe, InitAccounts
<1>3. SafeInv /\ AuditInv /\ [Next]_vars => (SafeInv /\ AuditInv)'
  BY StepSafe, StepAccounts
<1> QED
  BY <1>1, <1>2, <1>3, PTL DEF Spec
============================================================================
