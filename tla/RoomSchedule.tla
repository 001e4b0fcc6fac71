---------------------------- MODULE RoomSchedule ----------------------------
(***************************************************************************)
(* What the sessions module promises, with no request in progress: the     *)
(* schedule of the rooms and the seats of its sessions as if each request  *)
(* were handled at once, by the row as it is when it is written.           *)
(***************************************************************************)
EXTENDS Naturals, FiniteSets

CONSTANTS
  Ids,
  Rooms,
  Times,
  Labels,
  MinSeats, \* seats with which a session takes reservations
  NoRow     \* there is no such session

VARIABLES
  session, \* the session of each id
  used,    \* the ids that have been given
  seats,
  held,    \* seats with a pending reservation
  sold     \* seats with a sale

booked == <<held, sold>>

Entity == [room: Rooms, start: Times, end: Times]
SeatsOf(id) == {s \in seats : s[1] = id}

Init ==
  /\ session = [id \in Ids |-> NoRow]
  /\ used = {} /\ seats = {} /\ held = {} /\ sold = {}

\* The session takes no time that another session has the room.
Fits(id, row) ==
  \A other \in Ids \ {id} : session[other] # NoRow /\ session[other].room = row.room =>
    \A t \in Times : session[other].start <= t /\ t < session[other].end =>
      ~ (row.start <= t /\ t < row.end)

Schedule(id) ==
  /\ id \notin used
  /\ \E row \in Entity : /\ row.start < row.end /\ Fits(id, row)
                         /\ session' = [session EXCEPT ![id] = row]
  /\ used' = used \cup {id}
  /\ UNCHANGED <<seats, booked>>

\* Changed in some of its fields, of which its room and times are not all new: with a
\* change that comes in between, what is left of its time may be none.
Reschedule(id) ==
  /\ session[id] # NoRow
  /\ \E row \in Entity : /\ row.start <= row.end /\ Fits(id, row)
                         /\ session' = [session EXCEPT ![id] = row]
  /\ UNCHANGED <<used, seats, booked>>

\* With the seats of the session, and all that has been booked of them.
Cancel(id) ==
  /\ session[id] # NoRow
  /\ session' = [session EXCEPT ![id] = NoRow]
  /\ seats' = seats \ SeatsOf(id)
  /\ held' = held \ SeatsOf(id)
  /\ sold' = sold \ SeatsOf(id)
  /\ used' = used

AddSeats(id) ==
  /\ session[id] # NoRow
  /\ \E labels \in SUBSET Labels : /\ ({id} \X labels) \cap seats = {}
                                   /\ seats' = seats \cup ({id} \X labels)
  /\ UNCHANGED <<session, used, booked>>

Reserve(s) ==
  /\ s \in seats \ (held \cup sold)
  /\ Cardinality(SeatsOf(s[1])) >= MinSeats
  /\ held' = held \cup {s}
  /\ UNCHANGED <<session, used, seats, sold>>

Release(s) ==
  /\ s \in held
  /\ held' = held \ {s}
  /\ UNCHANGED <<session, used, seats, sold>>

Pay(s) ==
  /\ s \in held
  /\ held' = held \ {s}
  /\ sold' = sold \cup {s}
  /\ UNCHANGED <<session, used, seats>>

Next ==
  \/ \E id \in Ids : Schedule(id) \/ Reschedule(id) \/ Cancel(id) \/ AddSeats(id)
  \/ \E s \in seats : Reserve(s) \/ Release(s) \/ Pay(s)

Spec == Init /\ [][Next]_<<session, used, seats, booked>>

\* A room has one session at a time, and every booking a seat of a session there is.
OneSessionAtATime ==
  \A id \in Ids : session[id] # NoRow => Fits(id, session[id])

BookingsHaveSession ==
  /\ \A s \in seats : session[s[1]] # NoRow
  /\ held \cup sold \subseteq seats
=============================================================================
