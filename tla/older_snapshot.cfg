SPECIFICATION Spec
CONSTANTS
  Node = {n1, n2, n3}
  Nil = Nil
  Command = {a}
  Transport = "inmem"
  SnapshotThreshold = 2
  MaxEntriesPerAppend = 2
  SaveMayFail = FALSE
  MaxElections = 1
  MaxLogIndex = 3
  MaxRestarts = 0
  MaxCalls = 1
SYMMETRY Symmetry
VIEW View
INVARIANTS AppliedIsCurrent
CHECK_DEADLOCK FALSE
