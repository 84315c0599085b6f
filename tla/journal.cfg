SPECIFICATION Spec
CONSTANTS
  Conn = {c1, c2}
  Pages = {1, 2}
  Configurations <- MCConfigurations
  KillBeforeEndSync = FALSE
  MaxTxns = 2
  MaxFails = 1
  MaxLosses = 1
  None = None
SYMMETRY Symmetry
INVARIANTS TypeOK Recoverable
PROPERTIES StoreSpec CommitsAreDurable
