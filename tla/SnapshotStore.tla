--------------------------- MODULE SnapshotStore ---------------------------
(***************************************************************************)
(* What a transactional page store promises the repositories built on it   *)
(* (users, credits, audit log, raft_log): a transaction reads one committed *)
(* state, commits form one sequence, only a transaction that read the last *)
(* state may extend it, and a power loss cuts the sequence no earlier than  *)
(* the last state known to be on disk.                                     *)
(***************************************************************************)
EXTENDS Integers, Sequences

CONSTANTS Conn, Pages, None

VARIABLES history,   \* the committed states, oldest first
          floor,     \* how many of them a power loss cannot take back
          pending,   \* the state a crash might turn out to have committed
          view       \* the state each open transaction reads

vars == <<history, floor, pending, view>>

Contents == [Pages -> Nat]
Current == history[Len(history)]
Closed == [c \in Conn |-> None]

Init ==
    /\ history = <<[p \in Pages |-> 0]>>
    /\ floor = 1
    /\ pending = None
    /\ view = Closed

Begin(c) ==
    /\ view[c] = None
    /\ view' = [view EXCEPT ![c] = Current]
    /\ UNCHANGED <<history, floor, pending>>

End(C) ==
    /\ view' = [c \in Conn |-> IF c \in C THEN None ELSE view[c]]
    /\ UNCHANGED <<history, floor, pending>>

Prepare(c) ==
    /\ view[c] = Current
    /\ pending' \in Contents
    /\ UNCHANGED <<history, floor, view>>

Abandon ==
    /\ pending' = None
    /\ UNCHANGED <<history, floor, view>>

Commit(c) ==
    /\ view[c] = Current
    /\ pending \in Contents
    /\ history' = Append(history, pending)
    /\ floor' \in {floor, Len(history')}
    /\ pending' = None
    /\ view' = [view EXCEPT ![c] = pending]

Sync ==
    /\ floor' = Len(history)
    /\ UNCHANGED <<history, pending, view>>

(* After a crash the commit that was in doubt may turn out to be on disk.  *)
Resurrect ==
    /\ pending \in Contents
    /\ history' = Append(history, pending)
    /\ pending' = None
    /\ UNCHANGED <<floor, view>>

PowerLoss ==
    /\ view' = Closed
    /\ pending' = None
    /\ \/ \E n \in floor .. Len(history) : history' = SubSeq(history, 1, n)
       \/ pending \in Contents /\ history' = Append(history, pending)
    /\ floor' = Len(history')

Next ==
    \/ \E C \in SUBSET Conn : End(C)
    \/ \E c \in Conn : Begin(c) \/ Prepare(c) \/ Commit(c)
    \/ Abandon \/ Sync \/ Resurrect \/ PowerLoss

Spec == Init /\ [][Next]_vars
============================================================================
