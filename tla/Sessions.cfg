SPECIFICATION Spec
CONSTANTS
  s1 = s1
  r1 = r1
  r2 = r2
  A1 = A1
  A2 = A2
  Ids = {s1, s2}
  Rooms = {r1, r2}
  Labels = {A1, A2}
  MaxTime = 3
  MinSeats = 2
  Admins = {a1, a2}
  Requests <- SomeRequests
  NoRow = NoRow
  Keep = Keep
INVARIANTS RoomsNotDoubleBooked SessionsTakeTime SeatsHaveSession
PROPERTIES  ImplementsRoomSchedule
CHECK_DEADLOCK FALSE
