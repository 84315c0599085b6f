SPECIFICATION Spec
CONSTANTS
  Requests = {r1, r2}
  Admin = {a1}
  Credits = 1
  Cost = 1
  ZeroBalanceAction = "allow_with_flag"
  MaxAttempts = 2
  START = START
  VolumeThreshold = 1
  HalfOpenRequests = 1
  ErrorPercent = 50
  BufferSize = 1
  BatchSize = 2
SYMMETRY Symmetry
VIEW View
CONSTRAINT RetriesBeforeReload
INVARIANTS TypeOK CreditsConserved AuditedOnce ClosedBelowThreshold OrderlyHandover StrandedAreLate
CHECK_DEADLOCK FALSE
