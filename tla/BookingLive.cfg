SPECIFICATION FairSpec
CONSTANTS
  Seats = {1, 2}
  Clients = {c1, c2}
  Jobs = {j1}
  AdminStatuses = {"available"}
  MaxGen = 1
  MaxSeatIds = 2
  BatchSize = 2
  TTL = 1
  MaxTime = 1
INVARIANTS TransactionsIsolated 
PROPERTIES PendingEndsEventually  ImplementsTicketSales
CHECK_DEADLOCK FALSE
