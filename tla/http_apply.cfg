SPECIFICATION Spec
CONSTANTS
  Node = {n1, n2}
  Nil = Nil
  Command = {a}
  Transport = "http"
  SnapshotThreshold = 0
  MaxEntriesPerAppend = 2
  SaveMayFail = FALSE
  MaxElections = 1
  MaxLogIndex = 1
  MaxRestarts = 0
  MaxCalls = 1
SYMMETRY Symmetry
INVARIANTS AppliedIsCurrent
CHECK_DEADLOCK FALSE
