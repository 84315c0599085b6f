SPECIFICATION Spec
CONSTANTS
  Conn = {c1, c2}
  Pages = {1, 2}
  NReader = 2
  FullSync = {}
  CkptModes = {"PASSIVE"}
  KillInRestart = FALSE
  MaxCalls = 2
  MaxSalts = 0
  MaxKills = 0
  MaxLosses = 0
  None = None
SYMMETRY Symmetry
INVARIANTS TypeOK BackfillBounded
PROPERTY StoreSpec
