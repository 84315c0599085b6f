---------------------------- MODULE AuditLogger ----------------------------
(***************************************************************************)
(* audit.Logger as operators on its state: the buffered channel, the batch *)
(* of the goroutine that runs Start, the flag `started`, which never goes  *)
(* back, and the entries the full channel turned away.                     *)
(***************************************************************************)
EXTENDS Naturals, Sequences

CONSTANTS BufferSize, BatchSize

ASSUME LoggerAssumption == BufferSize \in Nat \ {0} /\ BatchSize \in Nat \ {0}

NewLogger == [started |-> FALSE, entries |-> <<>>, batch |-> <<>>, dropped |-> {}]

(* Log with a started logger: the channel send of a select with a default; *)
(* and a queue without a limit.                                            *)
Queued_unbounded(l, e) == [l EXCEPT !.entries = Append(@, e)]
Queued(l, e) ==
    IF Len(l.entries) < BufferSize THEN [l EXCEPT !.entries = Append(@, e)]
    ELSE [l EXCEPT !.dropped = @ \cup {e}]

(* One receive from the channel, up to the call of flush.                  *)
Received(l) == [l EXCEPT !.entries = Tail(@), !.batch = Append(@, Head(l.entries))]
Full(l) == Len(l.batch) >= BatchSize

(* flush empties the batch whatever became of it.                          *)
Flushed_keeps(l) == l
Flushed(l) == [l EXCEPT !.batch = <<>>]
============================================================================
