SPECIFICATION Spec
CONSTANTS
  Seats = {1}
  Clients = {c1, c2, c3}
  Jobs = {j1, j2}
  AdminStatuses = {"available", "blocked"}
  MaxGen = 2
  MaxSeatIds = 2
  BatchSize = 1
  TTL = 1
  MaxTime = 2
SYMMETRY Symmetry
INVARIANTS TypeOK NoDoubleBooking HeldSeatHasHolder HolderKeepsSeat OutboxTellsOutcome
PROPERTIES OutcomeIsFinal ReleasedMeansFreed
CHECK_DEADLOCK FALSE
