SPECIFICATION Spec
CONSTANTS
  Conn = {c1, c2}
  Pages = {1, 2}
  NReader = 3
  FullSync = {}
  CkptModes = {"TRUNCATE"}
  KillInRestart = FALSE
  MaxCalls = 1
  MaxSalts = 2
  MaxKills = 1
  MaxLosses = 0
  None = None
SYMMETRY Symmetry
PROPERTY StoreSpec
