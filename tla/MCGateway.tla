----------------------------- MODULE MCGateway -----------------------------
(* The gateway instantiated for TLC.                                       *)
EXTENDS GatewaySafety, TLC

Symmetry == Permutations(Requests)

(* The part of a state that later steps can tell apart: the breaker of a   *)
(* generation that no request will ask or report to again is left out.  It *)
(* does not change any more, so ClosedBelowThreshold has been checked of   *)
(* it when it last did.  So are the events of a breaker that is not        *)
(* closed: nothing reads them before it has recovered, without them.       *)
Asked(g) ==
    \/ g >= gw.gen /\ sd.pc # "down" /\ \E r \in Requests : req[r].pc = "new"
    \/ \E r \in Requests : G(r) = g /\ req[r].pc \in {"pipeline", "auth", "proxy"}

Breaker(g) == IF cb[g].state = CircuitClosed THEN cb[g] ELSE [cb[g] EXCEPT !.events = <<>>]

View ==
    <<gw, store, lg, routine, closed, adm, sd, req, db, failed, panicked, late, hurried,
      [g \in Gen |-> IF Asked(g) THEN Breaker(g) ELSE NewCircuitBreaker]>>

(* Bound: a second attempt is followed only while the first generation     *)
(* serves; a Reload or a Shutdown meets requests in their first attempt.   *)
RetriesBeforeReload ==
    (\E r \in Requests : req[r].attempt > 1) => gw.gen = 1 /\ sd.pc = "up"
============================================================================
