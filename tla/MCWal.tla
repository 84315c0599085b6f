------------------------------- MODULE MCWal -------------------------------
(* The write-ahead log instantiated for TLC.                               *)
EXTENDS WalSafety, TLC

Symmetry == Permutations(Conn)
============================================================================
