SPECIFICATION Spec
CONSTANTS
  Conn = {c1}
  Pages = {1, 2}
  NReader = 3
  FullSync = {c1}
  CkptModes = {"PASSIVE"}
  KillInRestart = FALSE
  MaxCalls = 3
  MaxSalts = 0
  MaxKills = 0
  MaxLosses = 1
  None = None
SYMMETRY Symmetry

PROPERTIES StoreSpec CommitsAreDurable
