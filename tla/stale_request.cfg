SPECIFICATION Spec
CONSTANTS
  Node = {n1, n2}
  Nil = Nil
  Command = {a}
  Transport = "inmem"
  SnapshotThreshold = 1
  MaxEntriesPerAppend = 2
  SaveMayFail = FALSE
  MaxElections = 1
  MaxLogIndex = 3
  MaxRestarts = 0
  MaxCalls = 2
SYMMETRY Symmetry
VIEW View
INVARIANT StateMachinesAgree
CHECK_DEADLOCK FALSE
