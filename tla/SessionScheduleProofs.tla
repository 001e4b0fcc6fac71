----------------------- MODULE SessionScheduleProofs -----------------------
(***************************************************************************)
(* What the schedule guarantees for any rooms, sessions and requests.      *)
(* Sessions that overlap are kept out by the exclusion constraint alone    *)
(* (NoOverlap); that a session takes time also rests on its row being what *)
(* an update has read until another update crosses it (Fresh), and that a  *)
(* sale outlives a deletion on the sales the deletion has missed (Missed). *)
(* The same facts, at the statement that writes, make every request one    *)
(* step of RoomSchedule.                                                   *)
(***************************************************************************)
EXTENDS SessionScheduleRefinement, TLAPS

LEMMA TasksOf == \A step \in Steps : TaskOf(step) \subseteq Tasks
BY DEF Tasks

LEMMA TaskCases ==
  /\ TaskOf("idle") = {NoRow}
  /\ TaskOf("insert") = CreateSessionsDto
  /\ TaskOf("others") = [request: UpdateSessionsDto, final: SessionEntity]
  /\ TaskOf("update") = [request: UpdateSessionsDto, final: SessionEntity]
  /\ TaskOf("count") = DeleteSessionsDto
  /\ TaskOf("delete") = DeleteSessionsDto
  /\ TaskOf("seats") = CreateSeatsDto \cup CreateSeatsBatchDto
BY DEF TaskOf

\* What a request asks.
LEMMA CreateFields ==
  ASSUME NEW q \in CreateSessionsDto
  PROVE  q.room \in Rooms /\ q.start \in Times /\ q.end \in Times /\ q.start < q.end
BY LimitsAssumption, KeepAssumption DEF CreateSessionsDto, StartBeforeEnd, Times

LEMMA DeleteFields == ASSUME NEW q \in DeleteSessionsDto PROVE q.id \in Ids
BY DEF DeleteSessionsDto

LEMMA SeatFields ==
  ASSUME NEW q \in CreateSeatsDto \cup CreateSeatsBatchDto
  PROVE  q.id \in Ids /\ q.labels \subseteq Labels
BY DEF CreateSeatsDto, CreateSeatsBatchDto

\* An update of a row makes a row.
LEMMA UpdateFields ==
  ASSUME NEW q \in UpdateSessionsDto, NEW row \in SessionEntity
  PROVE  q.id \in Ids /\ Updated(row, q) \in SessionEntity
BY DEF UpdateSessionsDto, SessionEntity, Updated, Or

LEMMA UpdateTask ==
  ASSUME TypeOK, NEW a \in Admins, pc[a] \in {"others", "update"}
  PROVE  /\ task[a].request \in UpdateSessionsDto
         /\ task[a].request.id \in Ids
         /\ task[a].final \in SessionEntity
<1>1. task[a] \in [request: UpdateSessionsDto, final: SessionEntity]
  BY TaskCases DEF TypeOK
<1>2. task[a].request \in UpdateSessionsDto /\ task[a].final \in SessionEntity
  BY <1>1
<1>3. QED
  BY <1>2 DEF UpdateSessionsDto

\* An administrator's request goes on, or ends.
LEMMA Going ==
  ASSUME TypeOK, NEW a \in Admins, NEW step \in Steps, NEW q \in TaskOf(step),
         pc' = [pc EXCEPT ![a] = step], task' = [task EXCEPT ![a] = q]
  PROVE  /\ pc' \in [Admins -> Steps]
         /\ task' \in [Admins -> Tasks]
         /\ \A b \in Admins : task'[b] \in TaskOf(pc'[b])
BY TasksOf DEF TypeOK

LEMMA Ending ==
  ASSUME TypeOK, NEW a \in Admins, End(a)
  PROVE  /\ pc' \in [Admins -> Steps]
         /\ task' \in [Admins -> Tasks]
         /\ \A b \in Admins : task'[b] \in TaskOf(pc'[b])
BY Going, TaskCases DEF End, Steps

LEMMA TypeInductive == TypeOK /\ [Next]_vars => TypeOK'
<1> SUFFICES ASSUME TypeOK, [Next]_vars
             PROVE  TypeOK'
  OBVIOUS
<1> USE DEF bookings, schedule
<1>1. ASSUME NEW a \in Admins, NEW q \in Requests, PostSession(a, q) PROVE TypeOK'
  BY <1>1, Going, TaskCases DEF PostSession, Begin, TypeOK, Steps, Exists
<1>2. ASSUME NEW a \in Admins, NEW q \in Requests, PatchSession(a, q) PROVE TypeOK'
  <2> DEFINE final == Updated(session[q.id], q)
  <2>1. q \in UpdateSessionsDto /\ q.id \in Ids /\ session[q.id] \in SessionEntity
    BY <1>2, UpdateFields DEF PatchSession, TypeOK, Exists, UpdateSessionsDto
  <2>2. final \in SessionEntity
    BY <2>1, UpdateFields
  <2>3. [request |-> q, final |-> final] \in TaskOf("others")
    BY <2>1, <2>2, TaskCases
  <2>4. QED
    BY <1>2, <2>3, Going DEF PatchSession, Begin, TypeOK, Steps, Exists
<1>3. ASSUME NEW a \in Admins, NEW q \in Requests, DeleteSession(a, q) PROVE TypeOK'
  BY <1>3, Going, TaskCases DEF DeleteSession, Begin, TypeOK, Steps, Exists
<1>4. ASSUME NEW a \in Admins, NEW q \in Requests, PostSeat(a, q) \/ PostSeats(a, q)
      PROVE  TypeOK'
  BY <1>4, Going, TaskCases DEF PostSeat, PostSeats, FindSession, Begin, TypeOK, Steps, Exists
<1>5. ASSUME NEW a \in Admins, InsertSession(a) PROVE TypeOK'
  <2>1. task[a] \in CreateSessionsDto
    BY <1>5, TaskCases DEF InsertSession, TypeOK
  <2>2. [room |-> task[a].room, start |-> task[a].start, end |-> task[a].end] \in SessionEntity
    BY <2>1, CreateFields DEF SessionEntity
  <2>3. /\ session' \in [Ids -> SessionEntity \cup {NoRow}]
        /\ used' \subseteq Ids
        /\ \A id \in Ids : Exists(id)' => id \in used'
    BY <1>5, <2>2 DEF InsertSession, Insert, TypeOK, Exists
  <2>4. QED
    BY <1>5, <2>3, Ending DEF InsertSession, TypeOK
<1>6. ASSUME NEW a \in Admins, FindOthers(a) PROVE TypeOK'
  <2>1. CASE End(a)
    BY <1>6, <2>1, Ending DEF FindOthers, TypeOK, Exists
  <2>2. CASE Goto(a, "update")
    <3>1. task[a] \in TaskOf("update") /\ task' = [task EXCEPT ![a] = task[a]]
      BY <1>6, <2>2, TaskCases DEF FindOthers, Goto, TypeOK
    <3>2. QED
      BY <1>6, <2>2, <3>1, Going DEF FindOthers, Goto, TypeOK, Exists, Steps
  <2>3. QED
    BY <1>6, <2>1, <2>2 DEF FindOthers
<1>7. ASSUME NEW a \in Admins, UpdateSession(a) PROVE TypeOK'
  <2> DEFINE id == task[a].request.id
             row == Updated(session[id], task[a].request)
  <2>1. task[a].request \in UpdateSessionsDto
    BY <1>7, UpdateTask DEF UpdateSession
  <2>2. id \in Ids
    BY <2>1 DEF UpdateSessionsDto
  <2>3. Exists(id) => row \in SessionEntity
    BY <2>1, <2>2, UpdateFields DEF TypeOK, Exists
  <2>4. \/ Exists(id) /\ session' = [session EXCEPT ![id] = row]
           /\ crossed' \in {crossed, crossed \cup {id}}
        \/ UNCHANGED <<session, crossed>>
    BY <1>7 DEF UpdateSession
  <2>5. /\ session' \in [Ids -> SessionEntity \cup {NoRow}]
        /\ crossed' \subseteq Ids
        /\ \A i \in Ids : Exists(i)' => i \in used
    <3> HIDE DEF row, id
    <3>1. QED
      BY <2>2, <2>3, <2>4 DEF TypeOK, Exists
  <2>6. QED
    BY <1>7, <2>5, Ending DEF UpdateSession, TypeOK
<1>8. ASSUME NEW a \in Admins, CountSales(a) PROVE TypeOK'
  <2>1. missed' \in [Admins -> SUBSET SeatEntity]
    BY <1>8 DEF CountSales, TypeOK
  <2>2. CASE End(a)
    BY <1>8, <2>1, <2>2, Ending DEF CountSales, TypeOK, Exists
  <2>3. CASE Goto(a, "delete")
    <3>1. task[a] \in TaskOf("delete") /\ task' = [task EXCEPT ![a] = task[a]]
      BY <1>8, <2>3, TaskCases DEF CountSales, Goto, TypeOK
    <3>2. QED
      BY <1>8, <2>1, <2>3, <3>1, Going DEF CountSales, Goto, TypeOK, Exists, Steps
  <2>4. QED
    BY <1>8, <2>2, <2>3 DEF CountSales
<1>9. ASSUME NEW a \in Admins, DeleteRow(a) PROVE TypeOK'
  <2>1. task[a].id \in Ids
    BY <1>9, TaskCases, DeleteFields DEF DeleteRow, TypeOK
  <2>2. /\ session' \in [Ids -> SessionEntity \cup {NoRow}]
        /\ \A id \in Ids : Exists(id)' => id \in used
        /\ seats' \subseteq SeatEntity /\ held' \subseteq SeatEntity /\ sold' \subseteq SeatEntity
    BY <1>9, <2>1 DEF DeleteRow, TypeOK, Exists
  <2>3. QED
    BY <1>9, <2>2, Ending DEF DeleteRow, TypeOK
<1>10. ASSUME NEW a \in Admins, InsertSeats(a) PROVE TypeOK'
  <2>1. {task[a].id} \X task[a].labels \subseteq SeatEntity
    BY <1>10, TaskCases, SeatFields DEF InsertSeats, TypeOK, SeatEntity
  <2>2. QED
    BY <1>10, <2>1, Ending DEF InsertSeats, TypeOK, Exists
<1>11. ASSUME NEW s \in SeatEntity, Reserve(s) \/ Release(s) \/ Pay(s) PROVE TypeOK'
  BY <1>11 DEF Reserve, Release, Pay, TypeOK, Exists
<1>12. CASE UNCHANGED vars
  BY <1>12 DEF vars, TypeOK, Exists
<1>13. QED
  BY <1>1, <1>2, <1>3, <1>4, <1>5, <1>6, <1>7, <1>8, <1>9, <1>10, <1>11, <1>12 DEF Next

LEMMA TypeInvariant == Spec => []TypeOK
<1>1. Init => TypeOK
  BY TaskCases, TasksOf DEF Init, TypeOK, Steps, Exists
<1>2. QED
  BY <1>1, TypeInductive, PTL DEF Spec

\* The tables and requests keep their shape, and no id is given twice.
THEOREM TypeCorrect == Spec => []TypeOK
BY TypeInvariant

-----------------------------------------------------------------------------
\* What a step does to the table of sessions: INSERT, UPDATE or DELETE.
Inserts(a) ==
  \E id \in Ids \ used, row \in SessionEntity :
    /\ row.start < row.end /\ ~ violatesExclusion(NoRow, row)
    /\ Insert(id, row) /\ End(a) /\ UNCHANGED crossed

Updates(a) ==
  LET id == task[a].request.id
      row == Updated(session[id], task[a].request)
  IN /\ pc[a] = "update" /\ id \in Ids /\ Exists(id) /\ row \in SessionEntity
     /\ row.start <= row.end /\ ~ violatesExclusion(id, row)
     /\ session' = [session EXCEPT ![id] = row]
     /\ crossed' = IF Crosses(a, id) THEN crossed \cup {id} ELSE crossed
     /\ End(a) /\ UNCHANGED used

Deletes(a) ==
  \E id \in Ids : session' = [session EXCEPT ![id] = NoRow] /\ End(a) /\ UNCHANGED <<used, crossed>>

Writes ==
  \/ \E a \in Admins : Inserts(a) \/ Updates(a) \/ Deletes(a)
  \/ UNCHANGED schedule

LEMMA OnlyWrites == TypeOK /\ [Next]_vars => Writes
<1> SUFFICES ASSUME TypeOK, [Next]_vars
             PROVE  Writes
  OBVIOUS
<1> USE DEF schedule
<1>1. ASSUME NEW a \in Admins, NEW q \in Requests,
             \/ PostSession(a, q) \/ PatchSession(a, q) \/ DeleteSession(a, q)
             \/ PostSeat(a, q) \/ PostSeats(a, q)
      PROVE  Writes
  BY <1>1 DEF PostSession, PatchSession, DeleteSession, PostSeat, PostSeats, FindSession, Writes
<1>2. ASSUME NEW a \in Admins, InsertSession(a) PROVE Writes
  <2> DEFINE row == [room |-> task[a].room, start |-> task[a].start, end |-> task[a].end]
  <2>1. row \in SessionEntity /\ row.start < row.end
    BY <1>2, TaskCases, CreateFields DEF InsertSession, TypeOK, SessionEntity
  <2>2. \/ UNCHANGED <<session, used>>
        \/ ~ violatesExclusion(NoRow, row) /\ \E id \in Ids \ used : Insert(id, row)
    BY <1>2 DEF InsertSession
  <2> HIDE DEF row
  <2>3. QED
    BY <1>2, <2>1, <2>2 DEF InsertSession, Inserts, Writes
<1>3. ASSUME NEW a \in Admins, UpdateSession(a) PROVE Writes
  <2>1. task[a].request \in UpdateSessionsDto /\ task[a].request.id \in Ids
    BY <1>3, UpdateTask DEF UpdateSession
  <2>2. Exists(task[a].request.id) =>
          Updated(session[task[a].request.id], task[a].request) \in SessionEntity
    BY <2>1, UpdateFields DEF TypeOK, Exists
  <2>3. QED
    BY <1>3, <2>1, <2>2 DEF UpdateSession, Updates, Writes
<1>4. ASSUME NEW a \in Admins, DeleteRow(a) PROVE Writes
  <2>1. task[a].id \in Ids
    BY <1>4, TaskCases, DeleteFields DEF DeleteRow, TypeOK
  <2>2. QED
    BY <1>4, <2>1 DEF DeleteRow, Deletes, Writes
<1>5. ASSUME NEW a \in Admins, FindOthers(a) \/ CountSales(a) \/ InsertSeats(a) PROVE Writes
  BY <1>5 DEF FindOthers, CountSales, InsertSeats, Writes
<1>6. ASSUME NEW s \in SeatEntity, Reserve(s) \/ Release(s) \/ Pay(s) PROVE Writes
  BY <1>6 DEF Reserve, Release, Pay, Writes
<1>7. CASE UNCHANGED vars
  BY <1>7 DEF vars, Writes
<1>8. QED
  BY <1>1, <1>2, <1>3, <1>4, <1>5, <1>6, <1>7 DEF Next

-----------------------------------------------------------------------------
\* What the exclusion constraint keeps.
Apart(row, other) ==
  row.room = other.room /\ row.start < row.end /\ other.start < other.end =>
    ~ overlaps(row.start, row.end, other.start, other.end)

NoOverlap ==
  \A id, other \in Ids :
    Exists(id) /\ Exists(other) /\ id # other => Apart(session[id], session[other])

LEMMA RowTimes ==
  ASSUME NEW row \in SessionEntity
  PROVE  row.start \in Nat /\ row.end \in Nat
BY LimitsAssumption DEF SessionEntity, Times

LEMMA ApartSymmetric ==
  ASSUME NEW row \in SessionEntity, NEW other \in SessionEntity, Apart(row, other)
  PROVE  Apart(other, row)
BY RowTimes DEF Apart, overlaps

\* A row that the constraint accepts is apart from the others.
LEMMA Accepted ==
  ASSUME NEW self, NEW row, ~ violatesExclusion(self, row),
         NEW id \in Ids, Exists(id), id # self
  PROVE  Apart(row, session[id])
BY DEF violatesExclusion, Apart

LEMMA NoOverlapKept == TypeOK /\ NoOverlap /\ Writes => NoOverlap'
<1> SUFFICES ASSUME TypeOK, NoOverlap, Writes
             PROVE  NoOverlap'
  OBVIOUS
<1>1. ASSUME NEW new \in Ids, NEW row \in SessionEntity, NEW self,
             session' = [session EXCEPT ![new] = row],
             \A id \in Ids \ {new} : Exists(id) => Apart(row, session[id])
      PROVE  NoOverlap'
  <2> SUFFICES ASSUME NEW id \in Ids, NEW other \in Ids,
                      Exists(id)', Exists(other)', id # other
               PROVE  Apart(session'[id], session'[other])
    BY DEF NoOverlap, Apart
  <2>1. CASE id = new
    BY <1>1, <2>1 DEF TypeOK, Exists
  <2>2. CASE other = new
    <3>1. session'[other] = row /\ session'[id] = session[id] /\ Exists(id)
      BY <1>1, <2>2 DEF TypeOK, Exists
    <3>2. Apart(row, session[id]) /\ session[id] \in SessionEntity
      BY <1>1, <2>2, <3>1 DEF TypeOK, Exists
    <3>3. QED
      BY <3>1, <3>2, ApartSymmetric
  <2>3. CASE id # new /\ other # new
    <3>1. /\ session'[id] = session[id] /\ session'[other] = session[other]
          /\ Exists(id) /\ Exists(other)
      BY <1>1, <2>3 DEF TypeOK, Exists
    <3>2. QED
      BY <3>1 DEF NoOverlap
  <2>4. QED
    BY <2>1, <2>2, <2>3
<1>2. ASSUME NEW a \in Admins, Inserts(a) PROVE NoOverlap'
  <2>1. PICK new \in Ids \ used, row \in SessionEntity :
          ~ violatesExclusion(NoRow, row) /\ Insert(new, row)
    BY <1>2 DEF Inserts
  <2>2. \A id \in Ids \ {new} : Exists(id) => Apart(row, session[id])
    BY <2>1, Accepted, NoRowAssumption
  <2>3. QED
    BY <1>1, <2>1, <2>2 DEF Insert
<1>3. ASSUME NEW a \in Admins, Updates(a) PROVE NoOverlap'
  <2> DEFINE id == task[a].request.id
             row == Updated(session[id], task[a].request)
  <2>1. /\ id \in Ids /\ row \in SessionEntity /\ ~ violatesExclusion(id, row)
        /\ session' = [session EXCEPT ![id] = row]
    BY <1>3 DEF Updates
  <2> HIDE DEF id, row
  <2>2. \A other \in Ids \ {id} : Exists(other) => Apart(row, session[other])
    BY <2>1, Accepted
  <2>3. QED
    BY <1>1, <2>1, <2>2
<1>4. ASSUME NEW a \in Admins, Deletes(a) PROVE NoOverlap'
  BY <1>4 DEF Deletes, NoOverlap, Apart, Exists, TypeOK
<1>5. CASE UNCHANGED schedule
  BY <1>5 DEF schedule, NoOverlap, Apart, Exists
<1>6. QED
  BY <1>2, <1>3, <1>4, <1>5 DEF Writes

LEMMA RoomsApart == TypeOK /\ NoOverlap => RoomsNotDoubleBooked
<1> SUFFICES ASSUME TypeOK, NoOverlap, NEW id \in Ids, NEW other \in Ids,
                    Exists(id), Exists(other), id # other,
                    session[id].room = session[other].room, NEW t \in Times,
                    session[id].start <= t, t < session[id].end,
                    session[other].start <= t, t < session[other].end
             PROVE  FALSE
  BY DEF RoomsNotDoubleBooked
<1>1. t \in Nat /\ session[id] \in SessionEntity /\ session[other] \in SessionEntity
  BY LimitsAssumption DEF Times, TypeOK, Exists
<1>2. Apart(session[id], session[other])
  BY DEF NoOverlap
<1>3. QED
  BY <1>1, <1>2, RowTimes DEF Apart, overlaps

\* No room has two sessions at one time, whatever requests overlap.
THEOREM RoomsBookedOnce == Spec => []RoomsNotDoubleBooked
<1>1. Init => NoOverlap
  BY DEF Init, NoOverlap, Exists
<1>2. TypeOK /\ NoOverlap /\ [Next]_vars => NoOverlap'
  BY OnlyWrites, NoOverlapKept
<1>3. QED
  BY <1>1, <1>2, RoomsApart, TypeInvariant, PTL DEF Spec

-----------------------------------------------------------------------------
\* An update that no other has crossed finds the row it has read and checked.
Changing(a) == pc[a] \in {"others", "update"}

FreshAt(a) ==
  LET id == task[a].request.id
  IN /\ id \in used
     /\ task[a].final.start < task[a].final.end
     /\ Exists(id) /\ id \notin crossed => Updated(session[id], task[a].request) = task[a].final

Fresh == \A a \in Admins : Changing(a) => FreshAt(a)

TakeTime == SessionsTakeTime /\ Fresh

\* Who changes a session has been, or has just read its row.
LEMMA OnlyPatches ==
  TypeOK /\ [Next]_vars =>
    \A a \in Admins : Changing(a)' =>
      \/ Changing(a) /\ task'[a] = task[a]
      \/ \E q \in Requests : PatchSession(a, q)
<1> SUFFICES ASSUME TypeOK, [Next]_vars, NEW a \in Admins, Changing(a)',
                    \A q \in Requests : ~ PatchSession(a, q)
             PROVE  Changing(a) /\ task'[a] = task[a]
  OBVIOUS
<1> USE DEF Changing, TypeOK
<1>1. ASSUME NEW b \in Admins, NEW q \in Requests,
             PostSession(b, q) \/ DeleteSession(b, q) \/ PostSeat(b, q) \/ PostSeats(b, q)
      PROVE  Changing(a) /\ task'[a] = task[a]
  BY <1>1 DEF PostSession, DeleteSession, PostSeat, PostSeats, FindSession, Begin
<1>2. ASSUME NEW b \in Admins, NEW q \in Requests, PatchSession(b, q)
      PROVE  Changing(a) /\ task'[a] = task[a]
  BY <1>2 DEF PatchSession, Begin
<1>3. ASSUME NEW b \in Admins,
             InsertSession(b) \/ UpdateSession(b) \/ DeleteRow(b) \/ InsertSeats(b)
      PROVE  Changing(a) /\ task'[a] = task[a]
  BY <1>3 DEF InsertSession, UpdateSession, DeleteRow, InsertSeats, End
<1>4. ASSUME NEW b \in Admins, FindOthers(b) \/ CountSales(b)
      PROVE  Changing(a) /\ task'[a] = task[a]
  BY <1>4 DEF FindOthers, CountSales, Goto, End
<1>5. ASSUME NEW s \in SeatEntity, Reserve(s) \/ Release(s) \/ Pay(s)
      PROVE  Changing(a) /\ task'[a] = task[a]
  BY <1>5 DEF Reserve, Release, Pay
<1>6. CASE UNCHANGED vars
  BY <1>6 DEF vars
<1>7. QED
  BY <1>1, <1>2, <1>3, <1>4, <1>5, <1>6 DEF Next

\* What an update has read stays what it is, or is gone, or is crossed.
LEMMA FreshStays ==
  ASSUME TypeOK, Writes, NEW a \in Admins, Changing(a), Changing(a)', FreshAt(a),
         task'[a] = task[a]
  PROVE  FreshAt(a)'
<1> DEFINE id == task[a].request.id
<1>1. id \in Ids /\ id \in used
  BY UpdateTask DEF Changing, FreshAt
<1>2. ASSUME NEW b \in Admins, Inserts(b) PROVE FreshAt(a)'
  <2>1. PICK new \in Ids \ used, row \in SessionEntity : Insert(new, row) /\ UNCHANGED crossed
    BY <1>2 DEF Inserts
  <2>2. session'[id] = session[id] /\ id \in used'
    BY <1>1, <2>1 DEF Insert, TypeOK
  <2>3. QED
    BY <2>1, <2>2 DEF FreshAt, Exists
<1>3. ASSUME NEW b \in Admins, Updates(b) PROVE FreshAt(a)'
  <2>1. b # a
    BY <1>3 DEF Updates, End, Changing, TypeOK
  <2>2. CASE task[b].request.id = id
    <3>1. id \in crossed'
      BY <1>3, <2>1, <2>2 DEF Updates, Crosses, Changing
    <3>2. QED
      BY <1>1, <1>3, <3>1 DEF FreshAt, Updates
  <2>3. CASE task[b].request.id # id
    BY <1>1, <1>3, <2>3 DEF FreshAt, Updates, Exists, TypeOK
  <2>4. QED
    BY <2>2, <2>3
<1>4. ASSUME NEW b \in Admins, Deletes(b) PROVE FreshAt(a)'
  BY <1>1, <1>4 DEF FreshAt, Deletes, Exists, TypeOK
<1>5. CASE UNCHANGED schedule
  BY <1>1, <1>5 DEF FreshAt, schedule, Exists
<1>6. QED
  BY <1>2, <1>3, <1>4, <1>5 DEF Writes

LEMMA FreshInductive == TypeOK /\ Fresh /\ [Next]_vars => Fresh'
<1> SUFFICES ASSUME TypeOK, Fresh, [Next]_vars, NEW a \in Admins, Changing(a)'
             PROVE  FreshAt(a)'
  BY DEF Fresh
<1>1. CASE Changing(a) /\ task'[a] = task[a]
  BY <1>1, OnlyWrites, FreshStays DEF Fresh
<1>2. ASSUME NEW q \in Requests, PatchSession(a, q) PROVE FreshAt(a)'
  <2>1. /\ task'[a] = [request |-> q, final |-> Updated(session[q.id], q)]
        /\ q \in UpdateSessionsDto /\ Exists(q.id)
        /\ Updated(session[q.id], q).start < Updated(session[q.id], q).end
        /\ UNCHANGED schedule
    BY <1>2 DEF PatchSession, Begin, TypeOK
  <2>2. q.id \in used
    BY <2>1 DEF UpdateSessionsDto, TypeOK
  <2>3. QED
    BY <2>1, <2>2 DEF FreshAt, schedule, Exists
<1>3. QED
  BY <1>1, <1>2, OnlyPatches

\* The row that an update writes starts before it ends, unless another has crossed it.
LEMMA TimesKept == TypeOK /\ Fresh /\ SessionsTakeTime /\ Writes => SessionsTakeTime'
<1> SUFFICES ASSUME TypeOK, Fresh, SessionsTakeTime, Writes, NEW id \in Ids, Exists(id)'
             PROVE  \/ session'[id].start < session'[id].end
                    \/ id \in crossed' /\ session'[id].start = session'[id].end
  BY DEF SessionsTakeTime
<1>1. ASSUME NEW a \in Admins, Inserts(a)
      PROVE  \/ session'[id].start < session'[id].end
             \/ id \in crossed' /\ session'[id].start = session'[id].end
  BY <1>1 DEF Inserts, Insert, SessionsTakeTime, Exists, TypeOK
<1>2. ASSUME NEW a \in Admins, Updates(a)
      PROVE  \/ session'[id].start < session'[id].end
             \/ id \in crossed' /\ session'[id].start = session'[id].end
  <2> DEFINE changed == task[a].request.id
             row == Updated(session[changed], task[a].request)
  <2>1. /\ changed \in Ids /\ Exists(changed) /\ row \in SessionEntity
        /\ row.start <= row.end /\ session' = [session EXCEPT ![changed] = row]
        /\ crossed \subseteq crossed'
    BY <1>2 DEF Updates
  <2>2. FreshAt(a)
    BY <1>2 DEF Updates, Fresh, Changing
  <2>3. CASE id = changed
    <3>1. session'[id] = row
      BY <2>1, <2>3 DEF TypeOK
    <3>2. CASE id \in crossed
      BY <2>1, <3>1, <3>2, RowTimes
    <3>3. CASE id \notin crossed
      BY <2>1, <2>2, <2>3, <3>1, <3>3 DEF FreshAt
    <3>4. QED
      BY <3>2, <3>3
  <2>4. CASE id # changed
    BY <2>1, <2>4 DEF SessionsTakeTime, Exists, TypeOK
  <2>5. QED
    BY <2>3, <2>4
<1>3. ASSUME NEW a \in Admins, Deletes(a)
      PROVE  \/ session'[id].start < session'[id].end
             \/ id \in crossed' /\ session'[id].start = session'[id].end
  BY <1>3 DEF Deletes, SessionsTakeTime, Exists, TypeOK
<1>4. CASE UNCHANGED schedule
  BY <1>4 DEF schedule, SessionsTakeTime, Exists
<1>5. QED
  BY <1>1, <1>2, <1>3, <1>4 DEF Writes

\* A session starts before it ends, or two updates have crossed and it has no time.
THEOREM SessionsKeepTime == Spec => []SessionsTakeTime
<1>1. Init => TakeTime
  BY DEF Init, TakeTime, SessionsTakeTime, Fresh, Changing, Exists
<1>2. TypeOK /\ TakeTime /\ [Next]_vars => TakeTime'
  BY OnlyWrites, FreshInductive, TimesKept DEF TakeTime
<1>3. TakeTime => SessionsTakeTime
  BY DEF TakeTime
<1>4. QED
  BY <1>1, <1>2, <1>3, TypeInvariant, PTL DEF Spec

-----------------------------------------------------------------------------
\* Seats are added to a session that is there, and go with it.
LEMMA SeatsInductive == TypeOK /\ SeatsHaveSession /\ [Next]_vars => SeatsHaveSession'
<1> SUFFICES ASSUME TypeOK, SeatsHaveSession, [Next]_vars
             PROVE  SeatsHaveSession'
  OBVIOUS
<1> USE DEF SeatsHaveSession, Exists, bookings, schedule
<1>1. ASSUME NEW a \in Admins, NEW q \in Requests,
             \/ PostSession(a, q) \/ PatchSession(a, q) \/ DeleteSession(a, q)
             \/ PostSeat(a, q) \/ PostSeats(a, q)
      PROVE  SeatsHaveSession'
  BY <1>1 DEF PostSession, PatchSession, DeleteSession, PostSeat, PostSeats, FindSession
<1>2. ASSUME NEW a \in Admins, InsertSession(a) PROVE SeatsHaveSession'
  <2>1. \A id \in Ids : Exists(id) => session'[id] = session[id]
    BY <1>2 DEF InsertSession, Insert, TypeOK
  <2>2. \A s \in seats : s[1] \in Ids
    BY DEF TypeOK, SeatEntity
  <2>3. QED
    BY <1>2, <2>1, <2>2 DEF InsertSession
<1>3. ASSUME NEW a \in Admins, UpdateSession(a) PROVE SeatsHaveSession'
  <2>1. \A id \in Ids : Exists(id) => session'[id] # NoRow
    <3> DEFINE id == task[a].request.id
               row == Updated(session[id], task[a].request)
    <3>1. Exists(id) => row \in SessionEntity
      BY <1>3, UpdateTask, UpdateFields DEF UpdateSession, TypeOK
    <3>2. UNCHANGED session \/ (Exists(id) /\ session' = [session EXCEPT ![id] = row])
      BY <1>3 DEF UpdateSession
    <3> HIDE DEF id, row
    <3>3. QED
      BY <3>1, <3>2, NoRowAssumption DEF TypeOK
  <2>2. \A s \in seats : s[1] \in Ids
    BY DEF TypeOK, SeatEntity
  <2>3. QED
    BY <1>3, <2>1, <2>2 DEF UpdateSession
<1>4. ASSUME NEW a \in Admins, FindOthers(a) \/ CountSales(a) PROVE SeatsHaveSession'
  BY <1>4 DEF FindOthers, CountSales
<1>5. ASSUME NEW a \in Admins, DeleteRow(a) PROVE SeatsHaveSession'
  <2>1. CASE UNCHANGED <<session, seats, bookings>>
    BY <2>1
  <2>2. CASE /\ session' = [session EXCEPT ![task[a].id] = NoRow]
             /\ seats' = seats \ SeatsOf(task[a].id)
             /\ held' = held \ SeatsOf(task[a].id)
             /\ sold' = sold \ SeatsOf(task[a].id)
    BY <2>2 DEF SeatsOf, TypeOK, SeatEntity
  <2>3. QED
    BY <1>5, <2>1, <2>2 DEF DeleteRow
<1>6. ASSUME NEW a \in Admins, InsertSeats(a) PROVE SeatsHaveSession'
  BY <1>6 DEF InsertSeats
<1>7. ASSUME NEW s \in SeatEntity, Reserve(s) \/ Release(s) \/ Pay(s) PROVE SeatsHaveSession'
  BY <1>7 DEF Reserve, Release, Pay
<1>8. CASE UNCHANGED vars
  BY <1>8 DEF vars
<1>9. QED
  BY <1>1, <1>2, <1>3, <1>4, <1>5, <1>6, <1>7, <1>8 DEF Next

\* No seat is without its session and no booking without its seat, whatever deletions
\* and insertions overlap.
THEOREM SeatsKeepSession == Spec => []SeatsHaveSession
<1>1. Init => SeatsHaveSession
  BY DEF Init, SeatsHaveSession
<1>2. QED
  BY <1>1, SeatsInductive, TypeInvariant, PTL DEF Spec

-----------------------------------------------------------------------------
\* A deletion that has counted no sales has missed those there are.
Missed == \A a \in Admins : pc[a] = "delete" => SoldIn(task[a].id) \subseteq missed[a]

LEMMA MissedInductive == TypeOK /\ Missed /\ [Next]_vars => Missed'
<1> SUFFICES ASSUME TypeOK, Missed, [Next]_vars, NEW a \in Admins, pc'[a] = "delete"
             PROVE  SoldIn(task[a].id)' \subseteq missed'[a]
  BY DEF Missed
<1> USE DEF Missed, SoldIn, TypeOK, bookings, schedule
<1>1. ASSUME NEW b \in Admins, NEW q \in Requests,
             \/ PostSession(b, q) \/ PatchSession(b, q) \/ DeleteSession(b, q)
             \/ PostSeat(b, q) \/ PostSeats(b, q)
      PROVE  SoldIn(task[a].id)' \subseteq missed'[a]
  BY <1>1 DEF PostSession, PatchSession, DeleteSession, PostSeat, PostSeats, FindSession, Begin
<1>2. ASSUME NEW b \in Admins,
             InsertSession(b) \/ UpdateSession(b) \/ DeleteRow(b) \/ InsertSeats(b)
      PROVE  SoldIn(task[a].id)' \subseteq missed'[a]
  <2>1. /\ pc'[b] = "idle" /\ sold' \subseteq sold /\ UNCHANGED missed
        /\ \A c \in Admins \ {b} : pc'[c] = pc[c] /\ task'[c] = task[c]
    BY <1>2 DEF InsertSession, UpdateSession, DeleteRow, InsertSeats, End
  <2>2. QED
    BY <2>1
<1>3. ASSUME NEW b \in Admins, FindOthers(b) PROVE SoldIn(task[a].id)' \subseteq missed'[a]
  BY <1>3 DEF FindOthers, Goto, End
<1>4. ASSUME NEW b \in Admins, CountSales(b) PROVE SoldIn(task[a].id)' \subseteq missed'[a]
  <2>1. CASE a = b
    BY <1>4, <2>1 DEF CountSales, Goto, End
  <2>2. CASE a # b
    BY <1>4, <2>2 DEF CountSales, Goto, End
  <2>3. QED
    BY <2>1, <2>2
<1>5. ASSUME NEW s \in SeatEntity, Reserve(s) \/ Release(s) \/ Pay(s)
      PROVE  SoldIn(task[a].id)' \subseteq missed'[a]
  BY <1>5 DEF Reserve, Release, Pay
<1>6. CASE UNCHANGED vars
  BY <1>6 DEF vars
<1>7. QED
  BY <1>1, <1>2, <1>3, <1>4, <1>5, <1>6 DEF Next

SaleOutlives ==
  \A s \in sold : s \notin sold' =>
    \E a \in Admins : pc[a] = "delete" /\ task[a].id = s[1] /\ SoldIn(s[1]) \subseteq missed[a]

LEMMA OnlyDeletionsTakeSales == TypeOK /\ Missed /\ [Next]_vars => SaleOutlives
<1> SUFFICES ASSUME TypeOK, Missed, [Next]_vars
             PROVE  SaleOutlives
  OBVIOUS
<1> USE DEF bookings, schedule
<1>1. ASSUME NEW a \in Admins, DeleteRow(a) PROVE SaleOutlives
  <2>1. pc[a] = "delete" /\ sold' \in {sold, sold \ SeatsOf(task[a].id)}
    BY <1>1 DEF DeleteRow
  <2>2. SoldIn(task[a].id) \subseteq missed[a]
    BY <2>1 DEF Missed
  <2>3. QED
    BY <2>1, <2>2 DEF SaleOutlives, SeatsOf
<1>2. ASSUME NEW a \in Admins, NEW q \in Requests,
             \/ PostSession(a, q) \/ PatchSession(a, q) \/ DeleteSession(a, q)
             \/ PostSeat(a, q) \/ PostSeats(a, q)
      PROVE  sold \subseteq sold'
  BY <1>2 DEF PostSession, PatchSession, DeleteSession, PostSeat, PostSeats, FindSession
<1>3. ASSUME NEW a \in Admins,
             \/ InsertSession(a) \/ FindOthers(a) \/ UpdateSession(a) \/ CountSales(a)
             \/ InsertSeats(a)
      PROVE  sold \subseteq sold'
  BY <1>3 DEF InsertSession, FindOthers, UpdateSession, CountSales, InsertSeats
<1>4. ASSUME NEW s \in SeatEntity, Reserve(s) \/ Release(s) \/ Pay(s) PROVE sold \subseteq sold'
  BY <1>4 DEF Reserve, Release, Pay
<1>5. CASE UNCHANGED vars
  BY <1>5 DEF vars, SaleOutlives
<1>6. QED
  BY <1>1, <1>2, <1>3, <1>4, <1>5 DEF Next, SaleOutlives

\* A sale is deleted only with its session, by a request that counted before it was made.
THEOREM SalesAreKept == Spec => SalesOutliveDeletion
<1>1. Init => Missed
  BY DEF Init, Missed
<1>2. TypeOK /\ Missed /\ [Next]_vars => Missed' /\ SaleOutlives
  BY MissedInductive, OnlyDeletionsTakeSales
<1>3. QED
  <2>1. Spec => [](TypeOK /\ Missed)
    BY <1>1, <1>2, TypeInvariant, PTL DEF Spec
  <2>2. TypeOK /\ Missed /\ [Next]_vars => [SaleOutlives]_vars
    BY <1>2
  <2>3. QED
    BY <2>1, <2>2, PTL DEF Spec, SalesOutliveDeletion, SaleOutlives

-----------------------------------------------------------------------------
(***************************************************************************)
(* The requests implement RoomSchedule                                     *)
(***************************************************************************)
kept == <<session, used, seats, RS!booked>>

\* Where the exclusion constraint accepts a row, it takes no time of another session.
LEMMA AcceptedFits ==
  ASSUME TypeOK, NEW self, NEW row \in SessionEntity, ~ violatesExclusion(self, row),
         NEW id \in Ids, \A other \in Ids \ {id} : other # self
  PROVE  RS!Fits(id, row)
<1> SUFFICES ASSUME NEW other \in Ids \ {id}, Exists(other), session[other].room = row.room,
                    NEW t \in Times, session[other].start <= t, t < session[other].end,
                    row.start <= t, t < row.end
             PROVE  FALSE
  BY DEF RS!Fits, Exists
<1>1. session[other] \in SessionEntity /\ t \in Nat
  BY LimitsAssumption DEF TypeOK, Exists, Times
<1>2. Apart(row, session[other])
  BY Accepted
<1>3. QED
  BY <1>1, <1>2, RowTimes DEF Apart, overlaps

LEMMA InsertRefines ==
  ASSUME TypeOK, NEW a \in Admins, InsertSession(a)
  PROVE  RS!Next \/ UNCHANGED kept
<1> DEFINE row == [room |-> task[a].room, start |-> task[a].start, end |-> task[a].end]
<1>1. row \in SessionEntity /\ row.start < row.end
  BY TaskCases, CreateFields DEF InsertSession, TypeOK, SessionEntity
<1>2. /\ UNCHANGED <<seats, held, sold>>
      /\ \/ UNCHANGED <<session, used>>
         \/ ~ violatesExclusion(NoRow, row) /\ \E id \in Ids \ used : Insert(id, row)
  BY DEF InsertSession, bookings
<1> HIDE DEF row
<1>3. ASSUME NEW id \in Ids \ used, ~ violatesExclusion(NoRow, row), Insert(id, row)
      PROVE  RS!Schedule(id)
  <2>1. RS!Fits(id, row)
    BY <1>1, <1>3, AcceptedFits, NoRowAssumption
  <2>2. QED
    BY <1>1, <1>2, <1>3, <2>1 DEF RS!Schedule, RS!Entity, SessionEntity, Insert, RS!booked
<1>4. QED
  BY <1>2, <1>3 DEF RS!Next, kept, RS!booked

LEMMA UpdateRefines ==
  ASSUME TypeOK, NEW a \in Admins, UpdateSession(a)
  PROVE  RS!Next \/ UNCHANGED kept
<1> DEFINE id == task[a].request.id
           row == Updated(session[id], task[a].request)
<1>1. task[a].request \in UpdateSessionsDto /\ id \in Ids
  BY UpdateTask DEF UpdateSession
<1>2. Exists(id) => row \in SessionEntity
  BY <1>1, UpdateFields DEF TypeOK, Exists
<1>3. /\ UNCHANGED <<used, seats, held, sold>>
      /\ \/ UNCHANGED session
         \/ /\ Exists(id) /\ row.start <= row.end /\ ~ violatesExclusion(id, row)
            /\ session' = [session EXCEPT ![id] = row]
  BY DEF UpdateSession, bookings
<1> HIDE DEF id, row
<1>4. ASSUME Exists(id), row.start <= row.end, ~ violatesExclusion(id, row),
             session' = [session EXCEPT ![id] = row]
      PROVE  RS!Reschedule(id)
  <2>1. RS!Fits(id, row)
    BY <1>1, <1>2, <1>4, AcceptedFits
  <2>2. QED
    BY <1>2, <1>3, <1>4, <2>1 DEF RS!Reschedule, RS!Entity, SessionEntity, Exists, RS!booked
<1>5. QED
  BY <1>1, <1>3, <1>4 DEF RS!Next, kept, RS!booked

\* A deletion of a session that another request has deleted by now changes nothing.
LEMMA DeleteRefines ==
  ASSUME TypeOK, SeatsHaveSession, NEW a \in Admins, DeleteRow(a)
  PROVE  RS!Next \/ UNCHANGED kept
<1> DEFINE id == task[a].id
<1>1. id \in Ids
  BY TaskCases, DeleteFields DEF DeleteRow, TypeOK
<1>2. /\ UNCHANGED used
      /\ \/ /\ session' = [session EXCEPT ![id] = NoRow]
            /\ seats' = seats \ SeatsOf(id)
            /\ held' = held \ SeatsOf(id)
            /\ sold' = sold \ SeatsOf(id)
         \/ UNCHANGED <<session, seats, held, sold>>
  BY DEF DeleteRow, bookings
<1> HIDE DEF id
<1>3. CASE Exists(id)
  BY <1>1, <1>2, <1>3 DEF RS!Next, RS!Cancel, RS!SeatsOf, SeatsOf, Exists, kept, RS!booked
<1>4. CASE ~ Exists(id)
  <2>1. SeatsOf(id) = {}
    BY <1>4 DEF SeatsOf, SeatsHaveSession
  <2>2. [session EXCEPT ![id] = NoRow] = session
    BY <1>1, <1>4 DEF TypeOK, Exists
  <2>3. QED
    BY <1>2, <2>1, <2>2 DEF kept, RS!booked
<1>5. QED
  BY <1>3, <1>4

LEMMA SeatsRefine ==
  ASSUME TypeOK, NEW a \in Admins, InsertSeats(a)
  PROVE  RS!Next \/ UNCHANGED kept
<1> DEFINE id == task[a].id
           labels == task[a].labels
<1>1. id \in Ids /\ labels \in SUBSET Labels
  BY TaskCases, SeatFields DEF InsertSeats, TypeOK
<1>2. /\ UNCHANGED <<session, used, held, sold>>
      /\ \/ /\ Exists(id) /\ ({id} \X labels) \cap seats = {}
            /\ seats' = seats \cup ({id} \X labels)
         \/ UNCHANGED seats
  BY DEF InsertSeats, bookings, schedule
<1> HIDE DEF id, labels
<1>3. QED
  BY <1>1, <1>2 DEF RS!Next, RS!AddSeats, Exists, kept, RS!booked

\* Whatever requests overlap, and whatever they have read of sessions that have been
\* added, moved or deleted since, the tables change as RoomSchedule lets them, by requests
\* that are handled at once.
THEOREM RequestsImplementRoomSchedule == Spec => ImplementsRoomSchedule
<1>1. Init => RS!Init
  BY DEF Init, RS!Init
<1>2. TypeOK /\ SeatsHaveSession /\ [Next]_vars => [RS!Next]_kept
  <2> SUFFICES ASSUME TypeOK, SeatsHaveSession, [Next]_vars
               PROVE  RS!Next \/ UNCHANGED kept
    OBVIOUS
  <2>1. ASSUME NEW a \in Admins, NEW q \in Requests,
               \/ PostSession(a, q) \/ PatchSession(a, q) \/ DeleteSession(a, q)
               \/ PostSeat(a, q) \/ PostSeats(a, q)
        PROVE  UNCHANGED kept
    BY <2>1 DEF PostSession, PatchSession, DeleteSession, PostSeat, PostSeats, FindSession,
       schedule, bookings, kept, RS!booked
  <2>2. ASSUME NEW a \in Admins, FindOthers(a) \/ CountSales(a) PROVE UNCHANGED kept
    BY <2>2 DEF FindOthers, CountSales, schedule, bookings, kept, RS!booked
  <2>3. ASSUME NEW s \in SeatEntity, Reserve(s) \/ Release(s) \/ Pay(s) PROVE RS!Next
    <3>1. s \in seats
      BY <2>3 DEF Reserve, Release, Pay, SeatsHaveSession
    <3>2. RS!Cardinality(RS!SeatsOf(s[1])) = Cardinality(SeatsOf(s[1]))
      BY DEF SeatsOf, RS!SeatsOf, Cardinality, RS!Cardinality
    <3>3. CASE Reserve(s)
      <4>1. RS!Reserve(s)
        BY <3>2, <3>3 DEF Reserve, RS!Reserve, schedule
      <4>2. QED
        BY <3>1, <4>1 DEF RS!Next
    <3>4. CASE Release(s)
      BY <3>1, <3>4 DEF Release, RS!Release, RS!Next, schedule
    <3>5. CASE Pay(s)
      BY <3>1, <3>5 DEF Pay, RS!Pay, RS!Next, schedule
    <3>6. QED
      BY <2>3, <3>3, <3>4, <3>5
  <2>4. CASE UNCHANGED vars
    BY <2>4 DEF vars, kept, RS!booked
  <2>5. QED
    BY <2>1, <2>2, <2>3, <2>4, InsertRefines, UpdateRefines, DeleteRefines, SeatsRefine DEF Next
<1>3. QED
  BY <1>1, <1>2, TypeInvariant, SeatsKeepSession, PTL
  DEF Spec, ImplementsRoomSchedule, RS!Spec, kept

\* RoomSchedule is the promise it is meant to be: whatever implements it never has two
\* sessions in one room at one time, nor a booking without its session.
THEOREM RoomScheduleKeepsItsPromise ==
  ImplementsRoomSchedule => [](RS!OneSessionAtATime /\ RS!BookingsHaveSession)
<1> DEFINE Shape == /\ session \in [Ids -> RS!Entity \cup {NoRow}]
                    /\ seats \subseteq Ids \X Labels
           Promise == Shape /\ RS!OneSessionAtATime /\ RS!BookingsHaveSession
<1>1. RS!Init => Promise
  BY DEF RS!Init, RS!OneSessionAtATime, RS!BookingsHaveSession
<1>2. ASSUME Promise, NEW id \in Ids, NEW row \in RS!Entity, RS!Fits(id, row),
             session' = [session EXCEPT ![id] = row]
      PROVE  /\ session' \in [Ids -> RS!Entity \cup {NoRow}]
             /\ RS!OneSessionAtATime'
             /\ \A s \in seats : session'[s[1]] # NoRow
  <2>1. row # NoRow
    BY NoRowAssumption DEF RS!Entity, SessionEntity
  <2>2. \A other \in Ids : session'[other] = IF other = id THEN row ELSE session[other]
    BY <1>2
  <2>3. RS!OneSessionAtATime'
    BY <1>2, <2>1, <2>2 DEF RS!OneSessionAtATime, RS!Fits
  <2>4. \A s \in seats : session'[s[1]] # NoRow
    BY <1>2, <2>1, <2>2 DEF RS!BookingsHaveSession
  <2>5. QED
    BY <1>2, <2>3, <2>4
<1>3. ASSUME Promise, NEW id \in Ids, RS!Schedule(id) \/ RS!Reschedule(id) PROVE Promise'
  BY <1>2, <1>3 DEF RS!Schedule, RS!Reschedule, RS!BookingsHaveSession, RS!booked
<1>4. ASSUME Promise, NEW id \in Ids, RS!Cancel(id) PROVE Promise'
  <2>1. \A other \in Ids : session'[other] = IF other = id THEN NoRow ELSE session[other]
    BY <1>4 DEF RS!Cancel
  <2>2. Shape' /\ RS!OneSessionAtATime'
    BY <1>4, <2>1 DEF RS!Cancel, RS!OneSessionAtATime, RS!Fits
  <2>3. RS!BookingsHaveSession'
    BY <1>4, <2>1 DEF RS!Cancel, RS!BookingsHaveSession, RS!SeatsOf
  <2>4. QED
    BY <2>2, <2>3
<1>5. ASSUME Promise, NEW id \in Ids, RS!AddSeats(id) PROVE Promise'
  BY <1>5 DEF RS!AddSeats, RS!OneSessionAtATime, RS!Fits, RS!BookingsHaveSession, RS!booked
<1>6. ASSUME Promise, NEW s \in seats, RS!Reserve(s) \/ RS!Release(s) \/ RS!Pay(s)
      PROVE  Promise'
  BY <1>6 DEF RS!Reserve, RS!Release, RS!Pay, RS!OneSessionAtATime, RS!Fits,
     RS!BookingsHaveSession
<1>7. ASSUME Promise, UNCHANGED <<session, used, seats, RS!booked>> PROVE Promise'
  BY <1>7 DEF RS!OneSessionAtATime, RS!Fits, RS!BookingsHaveSession, RS!booked
<1>8. Promise /\ [RS!Next]_<<session, used, seats, RS!booked>> => Promise'
  BY <1>3, <1>4, <1>5, <1>6, <1>7 DEF RS!Next
<1>9. Promise => RS!OneSessionAtATime /\ RS!BookingsHaveSession
  OBVIOUS
<1> HIDE DEF Promise
<1>10. QED
  BY <1>1, <1>8, <1>9, PTL DEF ImplementsRoomSchedule, RS!Spec
=============================================================================
