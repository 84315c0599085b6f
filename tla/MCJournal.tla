----------------------------- MODULE MCJournal -----------------------------
(* The rollback journal instantiated for TLC.                              *)
EXTENDS JournalSafety, TLC

MCConfigurations ==
    {<<"DELETE", "EXTRA">>, <<"TRUNCATE", "NORMAL">>, <<"TRUNCATE", "FULL">>, <<"PERSIST", "FULL">>}
Symmetry == Permutations(Conn)
============================================================================
