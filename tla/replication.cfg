SPECIFICATION Spec
CONSTANTS
  Node = {n1, n2, n3}
  Nil = Nil
  Command = {a}
  Transport = "inmem"
  SnapshotThreshold = 0
  MaxEntriesPerAppend = 2
  SaveMayFail = FALSE
  MaxElections = 2
  MaxLogIndex = 2
  MaxRestarts = 0
  MaxCalls = 1
SYMMETRY Symmetry
VIEW View
INVARIANTS LogMatching StateMachineSafety LeaderCompleteness StateMachinesAgree
PROPERTY CommittedStays
CHECK_DEADLOCK FALSE
