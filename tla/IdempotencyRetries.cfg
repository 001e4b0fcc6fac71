SPECIFICATION FairSpec
CONSTANTS
  Requests = {r1, r2, r3}
  LockTTL = 2
  ResponseTTL = 3
  PollTimeout = 3
  MaxRun = 3
  RedisFails = TRUE
  NoResponse = NoResponse
INVARIANTS TypeOK OneAtATime RetriesReplay
PROPERTIES RequestsAnswered
CHECK_DEADLOCK FALSE
