SPECIFICATION ContestedSpec
CONSTANTS
  Node = {n1, n2, n3}
  n1 = n1
  n2 = n2
  n3 = n3
  Last = n2
  Nil = Nil
  Command = {a}
  Transport = "inmem"
  SnapshotThreshold = 0
  MaxEntriesPerAppend = 2
  SaveMayFail = FALSE
  MaxElections = 2
  MaxLogIndex = 3
  MaxRestarts = 0
  MaxCalls = 1
PROPERTY LogsConverge ProposalsCommit
CHECK_DEADLOCK FALSE
