SPECIFICATION FairSpec
CONSTANTS
  Rows <- OneRow
  Sends <- OneRowSends
  Relays = {p1, p2}
  BatchSize = 1
  MaxRetry = 2
  MaxFaults = 2
INVARIANTS MarkedMeansAccepted EventsInOrder RetriesAreFailures
PROPERTIES  ImplementsDelivery
CHECK_DEADLOCK FALSE
