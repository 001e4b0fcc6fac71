SPECIFICATION Spec
CONSTANTS
  Rows <- OneRow
  Sends <- OneRowSends
  Relays = {p1}
  BatchSize = 1
  MaxRetry = 2
  MaxFaults = 0
INVARIANTS NoEventLost
CHECK_DEADLOCK FALSE
