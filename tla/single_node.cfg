SPECIFICATION Spec
CONSTANTS
  Node = {n1}
  Nil = Nil
  Command = {}
  Transport = "inmem"
  SnapshotThreshold = 0
  MaxEntriesPerAppend = 2
  SaveMayFail = FALSE
  MaxElections = 1
  MaxLogIndex = 0
  MaxRestarts = 0
  MaxCalls = 1
SYMMETRY Symmetry
INVARIANTS MajorityLeads
CHECK_DEADLOCK FALSE
