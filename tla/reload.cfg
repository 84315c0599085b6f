SPECIFICATION Spec
CONSTANTS
  Requests = {r1}
  Admin = {a1}
  Credits = 1
  Cost = 1
  ZeroBalanceAction = "reject"
  MaxAttempts = 1
  START = START
  VolumeThreshold = 2
  HalfOpenRequests = 1
  ErrorPercent = 50
  BufferSize = 1
  BatchSize = 2
INVARIANT ChannelsClosedOnce
CHECK_DEADLOCK FALSE
