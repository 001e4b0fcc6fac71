SPECIFICATION FairSpec
CONSTANTS
  Readers = {r1, r2}
  Outcomes <- Expiration
  Deliveries = {d1, d2}
  MaxCommits = 1
  MaxCopies = 2
  MaxFaults = 1
  TTL = 2
  MaxRead = 1
  NoEvent = NoEvent
  NoEntry = NoEntry
INVARIANTS TypeOK BoundedStaleness  
PROPERTIES  FreshInTheEnd
CHECK_DEADLOCK FALSE
