---------------------------- MODULE MCUnixLocks ----------------------------
(* The unix file locks instantiated for TLC.                               *)
EXTENDS UnixLocks, TLC

Symmetry == Permutations(Proc) \cup Permutations(Handle)
============================================================================
