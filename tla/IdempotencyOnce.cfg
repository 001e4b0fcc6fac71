SPECIFICATION Spec
CONSTANTS
  Requests = {r1, r2}
  LockTTL = 2
  ResponseTTL = 3
  PollTimeout = 3
  MaxRun = 1
  RedisFails = FALSE
  NoResponse = NoResponse
SYMMETRY Symmetry
INVARIANTS HandlerRunsOnce
CHECK_DEADLOCK FALSE
