SPECIFICATION Spec
CONSTANTS
  Node = {n1, n2, n3}
  Nil = Nil
  Command = {a}
  Transport = "inmem"
  SnapshotThreshold = 0
  MaxEntriesPerAppend = 2
  SaveMayFail = FALSE
  MaxElections = 2
  MaxLogIndex = 1
  MaxRestarts = 0
  MaxCalls = 1
SYMMETRY Symmetry
INVARIANTS FollowerHasTimer
CHECK_DEADLOCK FALSE
