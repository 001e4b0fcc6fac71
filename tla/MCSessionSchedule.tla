------------------------- MODULE MCSessionSchedule -------------------------
(***************************************************************************)
(* SessionSchedule with requests that meet: two rooms, sessions of three   *)
(* instants that overlap, touch and move, updates of one end each, a       *)
(* deletion, one seat and two batches, one with a label twice.             *)
(***************************************************************************)
EXTENDS SessionScheduleRefinement

CONSTANTS s1, r1, r2, A1, A2

Created(r, from, to) == [op |-> "create", room |-> r, start |-> from, end |-> to]
Changed(r, from, to) == [op |-> "update", id |-> s1, room |-> r, start |-> from, end |-> to]
NewSeats(labels, twice) == [op |-> "seats", id |-> s1, labels |-> labels, twice |-> twice]

SomeRequests ==
  {Created(r1, 0, 2), Created(r1, 1, 3), Created(r2, 0, 1),
   Changed(r2, Keep, Keep), Changed(Keep, 1, Keep), Changed(Keep, 2, Keep),
   Changed(Keep, Keep, 1), [op |-> "delete", id |-> s1],
   NewSeats({A1}, FALSE), NewSeats({A1, A2}, FALSE), NewSeats({A2}, TRUE)}
=============================================================================
