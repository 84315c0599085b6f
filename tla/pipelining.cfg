SPECIFICATION Spec
CONSTANTS
  Node = {n1, n2}
  Nil = Nil
  Command = {a}
  Transport = "inmem"
  SnapshotThreshold = 0
  MaxEntriesPerAppend = 2
  SaveMayFail = FALSE
  MaxElections = 2
  MaxLogIndex = 3
  MaxRestarts = 0
  MaxCalls = 2
SYMMETRY Symmetry

INVARIANTS TypeOK ElectionInv MatchIsReal
PROPERTY CommittedStays
CHECK_DEADLOCK FALSE
