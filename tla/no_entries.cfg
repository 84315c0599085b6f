SPECIFICATION FairSpec
CONSTANTS
  Node = {n1, n2}
  Last = n1
  Nil = Nil
  Command = {a}
  Transport = "inmem"
  SnapshotThreshold = 0
  MaxEntriesPerAppend = 0
  SaveMayFail = FALSE
  MaxElections = 1
  MaxLogIndex = 1
  MaxRestarts = 0
  MaxCalls = 1
PROPERTY ProposalsCommit
CHECK_DEADLOCK FALSE
