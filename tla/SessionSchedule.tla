-------------------------- MODULE SessionSchedule --------------------------
(***************************************************************************)
(* The rooms' schedule, its sessions and their seats: administrators who   *)
(* create, change and delete sessions and create seats at the same time,   *)
(* while seats are booked and sold.                                        *)
(*                                                                         *)
(* Each handler reads with SELECTs of its own, decides, and writes with    *)
(* one statement (the batch of seats is one transaction, whose inserts are *)
(* one statement too); PostgreSQL answers the write with the exclusion     *)
(* constraint of the table, its foreign keys and unique indexes.           *)
(*                                                                         *)
(* Abstracted: titles and prices, requests that are refused before they    *)
(* read (role, validation) or by what they read first, an UPDATE that      *)
(* names neither room nor times, the session's status (no code changes     *)
(* it).  A booking's transaction is one step here; module Booking has its  *)
(* own.  A request that dies takes no further step.                        *)
(*                                                                         *)
(* InsertSessionUnchecked, PatchSessionLoosely, CountSalesUnheeded and     *)
(* InsertSeatsOrphaned are faulty variants of the definitions that follow  *)
(* them, which Spec does not use.                                          *)
(***************************************************************************)
EXTENDS Naturals, FiniteSets

CONSTANTS
  Ids,      \* the ids of sessions
  Rooms,
  Labels,   \* the labels of seats
  MaxTime,  \* bound: instants
  MinSeats, \* MIN_SEATS, with which a session takes reservations
  Admins,   \* bound: administrators' requests in progress
  Requests, \* bound: the requests they make
  NoRow,    \* there is no such row
  Keep      \* a field that an update does not name

ASSUME LimitsAssumption == MaxTime \in Nat /\ MinSeats \in Nat
ASSUME KeepAssumption == Keep \notin Nat \cup Rooms

VARIABLES
  session, \* the row of each id
  used,    \* the ids that have been given
  seats,   \* the seats there are
  held,    \* those with a pending reservation
  sold,    \* those with a sale
  pc,      \* where each administrator's request is
  task,    \* what it asks
  missed,  \* history: the seats sold since each deletion counted the sales
  crossed  \* history: the sessions that two updates have changed at the same time

vars == <<session, used, seats, held, sold, pc, task, missed, crossed>>
bookings == <<held, sold>>
schedule == <<session, used, crossed>>

Times == 0 .. MaxTime
SessionEntity == [room: Rooms, start: Times, end: Times]
SeatEntity == Ids \X Labels
SeatsOf(id) == {s \in seats : s[1] = id}

\* StartBeforeEnd: if both times are given.
StartBeforeEnd(start, end) == start # Keep /\ end # Keep => start < end

CreateSessionsDto ==
  {q \in [op: {"create"}, room: Rooms, start: Times, end: Times] :
     StartBeforeEnd(q.start, q.end)}
UpdateSessionsDto ==
  {q \in [op: {"update"}, id: Ids, room: Rooms \cup {Keep},
          start: Times \cup {Keep}, end: Times \cup {Keep}] :
     StartBeforeEnd(q.start, q.end)}
DeleteSessionsDto == [op: {"delete"}, id: Ids]
CreateSeatsDto == {q \in [op: {"seats"}, id: Ids, labels: SUBSET Labels, twice: {FALSE}] :
                     Cardinality(q.labels) = 1}
\* twice: a label occurs twice.
CreateSeatsBatchDto == [op: {"seats"}, id: Ids, labels: SUBSET Labels \ {{}}, twice: BOOLEAN]

ASSUME RequestsAssumption ==
  Requests \subseteq CreateSessionsDto \cup UpdateSessionsDto \cup DeleteSessionsDto
                     \cup CreateSeatsDto \cup CreateSeatsBatchDto

ASSUME NoRowAssumption == NoRow \notin Ids \cup SessionEntity

Init ==
  /\ session = [id \in Ids |-> NoRow]
  /\ used = {}
  /\ seats = {}
  /\ held = {}
  /\ sold = {}
  /\ pc = [a \in Admins |-> "idle"]
  /\ task = [a \in Admins |-> NoRow]
  /\ missed = [a \in Admins |-> {}]
  /\ crossed = {}

Exists(id) == session[id] # NoRow

Begin(a, q, step) ==
  /\ pc[a] = "idle"
  /\ pc' = [pc EXCEPT ![a] = step]
  /\ task' = [task EXCEPT ![a] = q]

Goto(a, step) == pc' = [pc EXCEPT ![a] = step] /\ UNCHANGED task

\* Answered, whatever the status.
End(a) ==
  /\ pc' = [pc EXCEPT ![a] = "idle"]
  /\ task' = [task EXCEPT ![a] = NoRow]

-----------------------------------------------------------------------------
(***************************************************************************)
(* Creating a session                                                      *)
(***************************************************************************)
overlaps(startA, endA, startB, endB) == startA < endB /\ endA > startB

\* hasConflict: a session of the room, other than the one changed, overlaps.
hasConflict(self, room, start, end) ==
  \E id \in Ids : /\ Exists(id) /\ id # self /\ session[id].room = room
                  /\ overlaps(start, end, session[id].start, session[id].end)

\* sessions_no_overlap: tstzrange is empty when it ends where it starts, and an empty
\* range overlaps none.
violatesExclusion(self, row) ==
  \E id \in Ids : /\ Exists(id) /\ id # self /\ session[id].room = row.room
                  /\ row.start < row.end /\ session[id].start < session[id].end
                  /\ overlaps(row.start, row.end, session[id].start, session[id].end)

\* POST /sessions, up to the first SELECT.
PostSession(a, q) ==
  /\ q \in CreateSessionsDto
  /\ ~ hasConflict(NoRow, q.room, q.start, q.end)
  /\ Begin(a, q, "insert")
  /\ UNCHANGED <<schedule, seats, bookings, missed>>

Insert(id, row) ==
  /\ session' = [session EXCEPT ![id] = row]
  /\ used' = used \cup {id}

InsertSessionUnchecked(a) ==
  /\ pc[a] = "insert"
  /\ LET row == [room |-> task[a].room, start |-> task[a].start, end |-> task[a].end]
     IN \E id \in Ids \ used : Insert(id, row)
  /\ End(a)
  /\ UNCHANGED <<seats, bookings, missed, crossed>>

InsertSession(a) ==
  /\ pc[a] = "insert"
  /\ LET row == [room |-> task[a].room, start |-> task[a].start, end |-> task[a].end]
     IN IF violatesExclusion(NoRow, row)
        THEN UNCHANGED <<session, used>>
        ELSE \E id \in Ids \ used : Insert(id, row)
  /\ End(a)
  /\ UNCHANGED <<seats, bookings, missed, crossed>>

-----------------------------------------------------------------------------
(***************************************************************************)
(* Changing a session                                                      *)
(***************************************************************************)
Or(given, old) == IF given = Keep THEN old ELSE given

\* The row with the fields that the request names.
Updated(row, q) == [room |-> Or(q.room, row.room), start |-> Or(q.start, row.start),
                    end |-> Or(q.end, row.end)]

PatchSessionLoosely(a, q) ==
  /\ q \in UpdateSessionsDto
  /\ Exists(q.id)
  /\ LET final == Updated(session[q.id], q)
     IN /\ final.start <= final.end
        /\ Begin(a, [request |-> q, final |-> final], "others")
  /\ UNCHANGED <<schedule, seats, bookings, missed>>

\* PATCH /sessions/:id, up to the first SELECT: 404, and 409 unless it starts before it
\* ends.
PatchSession(a, q) ==
  /\ q \in UpdateSessionsDto
  /\ Exists(q.id)
  /\ LET final == Updated(session[q.id], q)
     IN /\ final.start < final.end
        /\ Begin(a, [request |-> q, final |-> final], "others")
  /\ UNCHANGED <<schedule, seats, bookings, missed>>

\* The SELECT of the room's other sessions.
FindOthers(a) ==
  /\ pc[a] = "others"
  /\ LET final == task[a].final
     IN IF hasConflict(task[a].request.id, final.room, final.start, final.end)
        THEN End(a)
        ELSE Goto(a, "update")
  /\ UNCHANGED <<schedule, seats, bookings, missed>>

\* Another update of the session has read it and not yet written.
Crosses(a, id) ==
  \E b \in Admins \ {a} : pc[b] \in {"others", "update"} /\ task[b].request.id = id

\* The UPDATE of the fields named, over the row as it is by now.  It changes nothing if
\* the row is gone, if tstzrange refuses an end before the start, or if the exclusion
\* constraint refuses the row.
UpdateSession(a) ==
  /\ pc[a] = "update"
  /\ LET id == task[a].request.id
         row == Updated(session[id], task[a].request)
     IN IF Exists(id) /\ row.start <= row.end /\ ~ violatesExclusion(id, row)
        THEN /\ session' = [session EXCEPT ![id] = row]
             /\ crossed' = IF Crosses(a, id) THEN crossed \cup {id} ELSE crossed
        ELSE UNCHANGED <<session, crossed>>
  /\ End(a)
  /\ UNCHANGED <<used, seats, bookings, missed>>

-----------------------------------------------------------------------------
(***************************************************************************)
(* Deleting a session                                                      *)
(***************************************************************************)
SoldIn(id) == {s \in sold : s[1] = id}

\* DELETE /sessions/:id, up to the first SELECT: 404.
DeleteSession(a, q) ==
  /\ q \in DeleteSessionsDto
  /\ Exists(q.id)
  /\ Begin(a, q, "count")
  /\ UNCHANGED <<schedule, seats, bookings, missed>>

CountSalesUnheeded(a) ==
  /\ pc[a] = "count"
  /\ Goto(a, "delete")
  /\ missed' = [missed EXCEPT ![a] = {}]
  /\ UNCHANGED <<schedule, seats, bookings>>

\* salesCount
CountSales(a) ==
  /\ pc[a] = "count"
  /\ IF SoldIn(task[a].id) # {} THEN End(a) ELSE Goto(a, "delete")
  /\ missed' = [missed EXCEPT ![a] = {}]
  /\ UNCHANGED <<schedule, seats, bookings>>

\* Reservations and sales go with their seats and session, but a reservation that has a
\* sale must not go first (RESTRICT).  Which foreign key acts first depends on the names
\* PostgreSQL has given the triggers: with a sale, the DELETE may be refused or cascade.
DeleteRow(a) ==
  /\ pc[a] = "delete"
  /\ LET id == task[a].id
     IN \/ /\ session' = [session EXCEPT ![id] = NoRow]
           /\ seats' = seats \ SeatsOf(id)
           /\ held' = held \ SeatsOf(id)
           /\ sold' = sold \ SeatsOf(id)
        \/ SoldIn(id) # {} /\ UNCHANGED <<session, seats, bookings>>
  /\ End(a)
  /\ UNCHANGED <<used, missed, crossed>>

-----------------------------------------------------------------------------
(***************************************************************************)
(* Creating seats                                                          *)
(***************************************************************************)
\* The handlers of one seat and of a batch, up to the SELECT of the session: 404.
FindSession(a, q) ==
  /\ Exists(q.id)
  /\ Begin(a, q, "seats")
  /\ UNCHANGED <<schedule, seats, bookings, missed>>

PostSeat(a, q) == q \in CreateSeatsDto /\ FindSession(a, q)

PostSeats(a, q) == q \in CreateSeatsBatchDto \ CreateSeatsDto /\ FindSession(a, q)

InsertSeatsOrphaned(a) ==
  /\ pc[a] = "seats"
  /\ LET new == {task[a].id} \X task[a].labels
     IN IF new \cap seats = {} /\ ~ task[a].twice
        THEN seats' = seats \cup new
        ELSE UNCHANGED seats
  /\ End(a)
  /\ UNCHANGED <<schedule, bookings, missed>>

\* All seats or none: the session must exist (FK_seats_session) and no label of it occur
\* twice (idx_seats_session_label).
InsertSeats(a) ==
  /\ pc[a] = "seats"
  /\ LET new == {task[a].id} \X task[a].labels
     IN IF Exists(task[a].id) /\ new \cap seats = {} /\ ~ task[a].twice
        THEN seats' = seats \cup new
        ELSE UNCHANGED seats
  /\ End(a)
  /\ UNCHANGED <<schedule, bookings, missed>>

-----------------------------------------------------------------------------
(***************************************************************************)
(* Bookings                                                                *)
(***************************************************************************)
Reserve(s) ==
  /\ s \in seats \ (held \cup sold)
  /\ Cardinality(SeatsOf(s[1])) >= MinSeats
  /\ held' = held \cup {s}
  /\ UNCHANGED <<schedule, seats, sold, pc, task, missed>>

\* Cancelled, deleted or expired.
Release(s) ==
  /\ s \in held
  /\ held' = held \ {s}
  /\ UNCHANGED <<schedule, seats, sold, pc, task, missed>>

Pay(s) ==
  /\ s \in held
  /\ held' = held \ {s}
  /\ sold' = sold \cup {s}
  /\ missed' = [a \in Admins |-> IF pc[a] = "delete" THEN missed[a] \cup {s} ELSE missed[a]]
  /\ UNCHANGED <<schedule, seats, pc, task>>

-----------------------------------------------------------------------------
Next ==
  \/ \E a \in Admins, q \in Requests :
       \/ PostSession(a, q) \/ PatchSession(a, q) \/ DeleteSession(a, q)
       \/ PostSeat(a, q) \/ PostSeats(a, q)
  \/ \E a \in Admins :
       \/ InsertSession(a) \/ FindOthers(a) \/ UpdateSession(a)
       \/ CountSales(a) \/ DeleteRow(a) \/ InsertSeats(a)
  \/ \E s \in SeatEntity : Reserve(s) \/ Release(s) \/ Pay(s)

Spec == Init /\ [][Next]_vars

-----------------------------------------------------------------------------
Steps == {"idle", "insert", "others", "update", "count", "delete", "seats"}

\* What an administrator's request is, at each step of it.
TaskOf(step) ==
  CASE step = "idle" -> {NoRow}
    [] step = "insert" -> CreateSessionsDto
    [] step \in {"others", "update"} -> [request: UpdateSessionsDto, final: SessionEntity]
    [] step \in {"count", "delete"} -> DeleteSessionsDto
    [] step = "seats" -> CreateSeatsDto \cup CreateSeatsBatchDto

Tasks == UNION {TaskOf(step) : step \in Steps}

\* Types; an id is given once.
TypeOK ==
  /\ session \in [Ids -> SessionEntity \cup {NoRow}]
  /\ used \subseteq Ids
  /\ \A id \in Ids : Exists(id) => id \in used
  /\ seats \subseteq SeatEntity
  /\ held \subseteq SeatEntity
  /\ sold \subseteq SeatEntity
  /\ pc \in [Admins -> Steps]
  /\ task \in [Admins -> Tasks] /\ \A a \in Admins : task[a] \in TaskOf(pc[a])
  /\ missed \in [Admins -> SUBSET SeatEntity]
  /\ crossed \subseteq Ids

\* No two sessions are in one room at one time, whatever requests overlap: each reads
\* the room's schedule before it writes, and others write in between.
RoomsNotDoubleBooked ==
  \A id, other \in Ids :
    /\ Exists(id) /\ Exists(other) /\ id # other
    /\ session[id].room = session[other].room
    => \A t \in Times : ~ /\ session[id].start <= t /\ t < session[id].end
                          /\ session[other].start <= t /\ t < session[other].end

\* A session starts before it ends; when two updates of it overlap, each checked against
\* a row the other has changed since, it does not end before it starts.
SessionsTakeTime ==
  \A id \in Ids : Exists(id) =>
    session[id].start < session[id].end \/ (id \in crossed /\ session[id].start = session[id].end)

\* A seat, and so what is booked of it, belongs to a session that exists: also when the
\* session is deleted between the SELECT of a handler and its INSERT, or while it is booked.
SeatsHaveSession ==
  /\ \A s \in seats : Exists(s[1])
  /\ held \cup sold \subseteq seats
  /\ held \cap sold = {}

\* A sale goes away only with its session, and only when it was made after the deletion
\* had counted none.
SalesOutliveDeletion ==
  [][\A s \in sold : s \notin sold' =>
       \E a \in Admins : pc[a] = "delete" /\ task[a].id = s[1] /\ SoldIn(s[1]) \subseteq missed[a]]_vars
=============================================================================
