SPECIFICATION Spec
CONSTANTS
  Node = {n1, n2, n3}
  Nil = Nil
  Command = {a}
  Transport = "http"
  SnapshotThreshold = 1
  MaxEntriesPerAppend = 2
  SaveMayFail = FALSE
  MaxElections = 2
  MaxLogIndex = 1
  MaxRestarts = 1
  MaxCalls = 1
SYMMETRY Symmetry
VIEW View
INVARIANTS ElectionSafety PersistedLog
CHECK_DEADLOCK FALSE
