----------------------------- MODULE FileLock -----------------------------
(***************************************************************************)
(* The lock on a database file as the pager relies on it (sqlite3OsLock    *)
(* and sqlite3OsUnlock): any number of SHARED holders, at most one of them *)
(* on the way to writing, and an EXCLUSIVE holder alone.                   *)
(***************************************************************************)
EXTENDS Integers

CONSTANT File      \* the open handles on the file, one for each connection

VARIABLE level     \* the lock each handle holds

NO_LOCK == 0
SHARED_LOCK == 1
RESERVED_LOCK == 2
PENDING_LOCK == 3
EXCLUSIVE_LOCK == 4
Levels == 0 .. 4

Init == level = [f \in File |-> NO_LOCK]

CanShare(f) == level[f] = NO_LOCK /\ \A g \in File : level[g] # EXCLUSIVE_LOCK

CanReserve(f) ==
    /\ level[f] = SHARED_LOCK
    /\ \A g \in File : level[g] < RESERVED_LOCK

(* From SHARED directly: the rollback of a hot journal.                    *)
CanExclude(f) ==
    /\ level[f] \in {SHARED_LOCK, PENDING_LOCK}
    /\ \A g \in File \ {f} : level[g] = NO_LOCK

Shared(f) == CanShare(f) /\ level' = [level EXCEPT ![f] = SHARED_LOCK]
Reserve(f) == CanReserve(f) /\ level' = [level EXCEPT ![f] = RESERVED_LOCK]
Pend(f) == level[f] = RESERVED_LOCK /\ level' = [level EXCEPT ![f] = PENDING_LOCK]
Exclude(f) == CanExclude(f) /\ level' = [level EXCEPT ![f] = EXCLUSIVE_LOCK]
Release(f, l) == level[f] > l /\ level' = [level EXCEPT ![f] = l]

(* The handles of a process that ends.                                     *)
Vanish(F) == level' = [f \in File |-> IF f \in F THEN NO_LOCK ELSE level[f]]

Next ==
    \/ \E f \in File : \/ Shared(f) \/ Reserve(f) \/ Pend(f) \/ Exclude(f)
                       \/ Release(f, NO_LOCK) \/ Release(f, SHARED_LOCK)
    \/ \E F \in SUBSET File : Vanish(F)

Spec == Init /\ [][Next]_level
============================================================================
