--------------------------- MODULE CircuitBreaker ---------------------------
(***************************************************************************)
(* The circuit-breaker plugin as operators on its state.  Every method     *)
(* holds cb.mu from its first line to its last, so a call is one step.     *)
(* The clock is an argument, as far as the breaker reads it: whether       *)
(* openUntil has passed when Allow compares, and how many of the oldest    *)
(* events have left the window when Report prunes.                         *)
(***************************************************************************)
EXTENDS Naturals, Sequences

CONSTANTS
    VolumeThreshold,    \* outcomes needed before the error rate counts
    HalfOpenRequests,   \* trial requests of a half-open breaker
    ErrorPercent        \* ErrorThreshold, in percent

ASSUME BreakerAssumption ==
    /\ VolumeThreshold \in Nat \ {0}
    /\ HalfOpenRequests \in Nat \ {0}
    /\ ErrorPercent \in 1 .. 100

CircuitClosed == "closed"
CircuitOpen == "open"
CircuitHalfOpen == "half_open"

NewCircuitBreaker ==
    [state |-> CircuitClosed, events |-> <<>>,
     halfOpenInFlight |-> 0, halfOpenSuccess |-> 0]

tripOpenLocked(cb) ==
    [cb EXCEPT !.state = CircuitOpen, !.halfOpenInFlight = 0, !.halfOpenSuccess = 0]

(* The breaker as Allow looks at it: one that has slept long enough is     *)
(* half-open from now on.                                                  *)
Awake(cb, slept) ==
    IF cb.state = CircuitOpen /\ slept
    THEN [cb EXCEPT !.state = CircuitHalfOpen, !.halfOpenInFlight = 0, !.halfOpenSuccess = 0]
    ELSE cb

Admits(cb) ==
    \/ cb.state = CircuitClosed
    \/ cb.state = CircuitHalfOpen /\ cb.halfOpenInFlight < HalfOpenRequests

(* A half-open breaker counts the requests it lets through.                *)
Admitted(cb) ==
    IF cb.state = CircuitHalfOpen THEN [cb EXCEPT !.halfOpenInFlight = @ + 1] ELSE cb

Allow(cb) == IF Admits(cb) THEN Admitted(cb) ELSE cb

Failures(events) == Len(SelectSeq(events, LAMBDA ok : ~ok))

TripsOn(events) ==
    /\ Len(events) >= VolumeThreshold
    /\ 100 * Failures(events) >= ErrorPercent * Len(events)

(* The last trial has succeeded; and the same without dropping the events  *)
(* from before the breaker opened.                                         *)
Recovered_remembers(cb) ==
    [cb EXCEPT !.state = CircuitClosed, !.halfOpenInFlight = 0, !.halfOpenSuccess = 0]
Recovered(cb) ==
    [cb EXCEPT !.state = CircuitClosed, !.events = <<>>,
               !.halfOpenInFlight = 0, !.halfOpenSuccess = 0]

(* How many of the oldest events can have left the window when Report      *)
(* prunes: never the one it has just appended.                             *)
Expirable(cb) == 0 .. Len(cb.events)

ReportHalfOpen(cb, success) ==
    LET fewer == [cb EXCEPT !.halfOpenInFlight = IF @ > 0 THEN @ - 1 ELSE 0] IN
    IF ~success THEN tripOpenLocked(fewer)
    ELSE IF fewer.halfOpenSuccess + 1 >= HalfOpenRequests THEN Recovered(fewer)
    ELSE [fewer EXCEPT !.halfOpenSuccess = @ + 1]

ReportClosed(cb, success, expired) ==
    LET events == SubSeq(Append(cb.events, success), expired + 1, Len(cb.events) + 1)
        kept == [cb EXCEPT !.events = events] IN
    IF TripsOn(events) THEN tripOpenLocked(kept) ELSE kept

Report(cb, success, expired) ==
    IF cb.state = CircuitHalfOpen THEN ReportHalfOpen(cb, success)
    ELSE IF cb.state = CircuitOpen THEN cb
    ELSE ReportClosed(cb, success, expired)
============================================================================
