-------------------------- MODULE AvailabilityProofs --------------------------
(***************************************************************************)
(* Proofs about the availability cache, for any number of readers, commits, *)
(* copies of events and faults, and any lifetimes.                         *)
(*                                                                         *)
(* Staleness: an entry's age in the cache pays for the time its version    *)
(* has been out of date (StalenessPaid).                                   *)
(*                                                                         *)
(* The consumer: an event comes only from a commit that was made           *)
(* (EventsFromCommits), and between the removal and markProcessed nothing  *)
(* is cached, or about to be, but by readers that queried after the commit *)
(* or are known to be late (HandledMeansRemoved).                          *)
(***************************************************************************)
EXTENDS Availability, TLAPS

\* The present version is not out of date; a reader has been at it at least as long as
\* what it saw has been, and an entry has lost its time since.
StalenessPaid ==
  /\ \A v \in Versions : v >= version => behind[v] = 0
  /\ \A r \in Readers : reader[r].pc = "store" => behind[reader[r].seen] <= reader[r].age
  /\ entry # NoEntry => behind[entry.version] + entry.ttl <= MaxRead + TTL

\* Every event anywhere belongs to a commit.
EventsFromCommits ==
  /\ \A e \in outbox : e[2] <= version
  /\ \A e \in Events : copies[e] > 0 \/ queue[e] > 0 => e \in outbox
  /\ \A d \in Deliveries : delivery[d] # Idle => Event(d) \in outbox
  /\ dedup \subseteq outbox

\* The events for which the entry has been removed.
Removed(e) == e \in dedup \/ \E d \in Deliveries : Event(d) = e /\ delivery[d].pc = "mark"

HandledMeansRemoved ==
  \A e \in Events : Removed(e) =>
    /\ entry # NoEntry => entry.version >= e[2] \/ entry.late
    /\ \A r \in Readers : reader[r].pc = "store" => reader[r].seen >= e[2] \/ reader[r].late

-----------------------------------------------------------------------------
(***************************************************************************)
(* Types                                                                   *)
(***************************************************************************)
LEMMA VersionsOfEvents == \A e \in Events : e[2] \in 1 .. MaxCommits
  BY DEF Events

LEMMA InitTypes == Init => TypeOK
  BY LimitsAssumption DEF Init, TypeOK, Versions, AtRest, Events

LEMMA OutcomesAreEvents ==
  ASSUME NEW types \in Outcomes, NEW n \in 1 .. MaxCommits
  PROVE  types \X {n} \subseteq Events
<1>1. types \subseteq ReservationEvents
  BY OutcomesAssumption DEF ReservationEvents, ReservationCreatedEvent,
     PaymentConfirmedEvent,
     ReservationExpiredEvent, SeatReleasedEvent
<1> QED
  BY <1>1 DEF Events

\* A slot that is handling a message has its event.
LEMMA BusySlots ==
  ASSUME TypeOK, NEW d \in Deliveries, delivery[d] # Idle
  PROVE  /\ delivery[d] \in [pc: {"check", "invalidate", "mark"}, event: Events]
         /\ Event(d) \in Events
  BY DEF TypeOK, Event

LEMMA IdleSlots ==
  ASSUME TypeOK, NEW d \in Deliveries
  PROVE  delivery[d].pc \in {"check", "invalidate", "mark"} <=> delivery[d] # Idle
  BY DEF TypeOK, Idle

LEMMA GotoTypes ==
  ASSUME TypeOK, NEW d \in Deliveries, delivery[d] # Idle,
         NEW step \in {"check", "invalidate", "mark"}, Goto(d, step)
  PROVE  /\ delivery' = [delivery EXCEPT ![d] = [pc |-> step, event |-> Event(d)]]
         /\ delivery' \in [Deliveries -> {Idle} \cup [pc: {"check", "invalidate", "mark"},
                                                     event: Events]]
<1>1. delivery[d] = [pc |-> delivery[d].pc, event |-> Event(d)] /\ Event(d) \in Events
  BY BusySlots DEF Event
<1>2. [delivery[d] EXCEPT !.pc = step] = [pc |-> step, event |-> Event(d)]
  BY <1>1
<1>3. delivery' = [delivery EXCEPT ![d] = [pc |-> step, event |-> Event(d)]]
  BY <1>2 DEF Goto
<1>4. [pc |-> step, event |-> Event(d)] \in [pc: {"check", "invalidate", "mark"}, event: Events]
  BY <1>1
<1> QED
  BY <1>3, <1>4 DEF TypeOK

LEMMA AckTypes ==
  ASSUME TypeOK, NEW d \in Deliveries, delivery' = [delivery EXCEPT ![d] = Idle]
  PROVE  delivery' \in [Deliveries -> {Idle} \cup [pc: {"check", "invalidate", "mark"},
                                                  event: Events]]
  BY DEF TypeOK

LEMMA DelReader ==
  ASSUME TypeOK, Del, NEW r \in Readers
  PROVE  /\ reader'[r] \in [pc: {"idle", "query", "store"}, seen: Versions,
                             age: 0 .. MaxRead, late: BOOLEAN]
         /\ reader'[r].pc = reader[r].pc
         /\ reader'[r].seen = reader[r].seen
         /\ reader'[r].age = reader[r].age
<1>1. reader'[r] = [reader[r] EXCEPT !.late = (@ \/ reader[r].pc = "store")]
  BY DEF Del
<1> QED
  BY <1>1 DEF TypeOK

LEMMA DelLate ==
  ASSUME TypeOK, Del, NEW r \in Readers, reader[r].pc = "store"
  PROVE  reader'[r].late
<1>1. reader'[r] = [reader[r] EXCEPT !.late = (@ \/ reader[r].pc = "store")]
  BY DEF Del
<1> QED
  BY <1>1 DEF TypeOK

LEMMA DelTypes ==
  ASSUME TypeOK, Del
  PROVE  reader' \in [Readers -> [pc: {"idle", "query", "store"}, seen: Versions,
                                 age: 0 .. MaxRead, late: BOOLEAN]]
<1>1. reader' = [r \in Readers |-> reader'[r]]
  BY DEF Del
<1> QED
  BY <1>1, DelReader

LEMMA StepTypes == TypeOK /\ [Next]_vars => TypeOK'
<1> SUFFICES ASSUME TypeOK, [Next]_vars PROVE TypeOK'
  OBVIOUS
<1> USE LimitsAssumption DEF database, broker, Fault, NoFault
<1>1. CASE Commit
  <2>1. PICK types \in Outcomes : outbox' = outbox \cup (types \X {version + 1})
    BY <1>1 DEF Commit
  <2>2. version + 1 \in 1 .. MaxCommits
    BY <1>1 DEF Commit, TypeOK, Versions
  <2>3. outbox' \subseteq Events
    BY <2>1, <2>2, OutcomesAreEvents DEF TypeOK
  <2> QED
    BY <1>1, <2>2, <2>3 DEF Commit, TypeOK, Versions
<1>2. ASSUME NEW e \in Events, Publish(e) PROVE TypeOK'
  BY <1>2 DEF Publish, Route, TypeOK
<1>3. ASSUME NEW d \in Deliveries, NEW e \in Events, Deliver(d, e) PROVE TypeOK'
  <2>1. [pc |-> "check", event |-> e] \in [pc: {"check", "invalidate", "mark"}, event: Events]
    OBVIOUS
  <2> QED
    BY <1>3, <2>1 DEF Deliver, TypeOK
<1>4. ASSUME NEW d \in Deliveries, CheckDuplicate(d) PROVE TypeOK'
  <2>1. delivery[d] # Idle /\ Event(d) \in Events
    BY <1>4, BusySlots, IdleSlots DEF CheckDuplicate
  <2>2. Goto(d, "invalidate") \/ ack(d) \/ nack(d)
    BY <1>4 DEF CheckDuplicate
  <2>3. delivery' \in [Deliveries -> {Idle} \cup [pc: {"check", "invalidate", "mark"},
                                                 event: Events]]
    BY <2>1, <2>2, GotoTypes, AckTypes DEF ack, nack, DeadLetter
  <2>4. dlq' \subseteq Events /\ faults' \in 0 .. MaxFaults
    BY <1>4, <2>1 DEF CheckDuplicate, ack, nack, DeadLetter, TypeOK
  <2> QED
    BY <1>4, <2>3, <2>4 DEF CheckDuplicate, TypeOK
<1>5. ASSUME NEW d \in Deliveries, invalidateSessionSeatCache(d) PROVE TypeOK'
  <2>1. delivery[d] # Idle /\ Event(d) \in Events
    BY <1>5, BusySlots, IdleSlots DEF invalidateSessionSeatCache
  <2>2. Goto(d, "mark") \/ nack(d)
    BY <1>5 DEF invalidateSessionSeatCache
  <2>3. delivery' \in [Deliveries -> {Idle} \cup [pc: {"check", "invalidate", "mark"},
                                                 event: Events]]
    BY <2>1, <2>2, GotoTypes, AckTypes DEF nack, DeadLetter
  <2>4. dlq' \subseteq Events /\ faults' \in 0 .. MaxFaults
    BY <1>5, <2>1 DEF invalidateSessionSeatCache, nack, DeadLetter, TypeOK
  <2>5. Del \/ UNCHANGED <<entry, reader>>
    BY <1>5 DEF invalidateSessionSeatCache
  <2>6. /\ entry' \in Entry \cup {NoEntry}
        /\ reader' \in [Readers -> [pc: {"idle", "query", "store"}, seen: Versions,
                                    age: 0 .. MaxRead, late: BOOLEAN]]
    BY <2>5, DelTypes DEF Del, TypeOK
  <2> QED
    BY <1>5, <2>3, <2>4, <2>6 DEF invalidateSessionSeatCache, TypeOK
<1>6. ASSUME NEW d \in Deliveries, markProcessed(d) PROVE TypeOK'
  <2>1. delivery[d] # Idle /\ Event(d) \in Events
    BY <1>6, BusySlots, IdleSlots DEF markProcessed
  <2>2. delivery' \in [Deliveries -> {Idle} \cup [pc: {"check", "invalidate", "mark"},
                                                 event: Events]]
    BY <1>6, AckTypes DEF markProcessed, ack, nack, DeadLetter
  <2>3. dlq' \subseteq Events /\ dedup' \subseteq Events /\ faults' \in 0 .. MaxFaults
    BY <1>6, <2>1 DEF markProcessed, ack, nack, DeadLetter, TypeOK
  <2> QED
    BY <1>6, <2>2, <2>3 DEF markProcessed, TypeOK
<1>7. ASSUME NEW d \in Deliveries, Redeliver(d) PROVE TypeOK'
  <2>1. Event(d) \in Events
    BY <1>7, BusySlots DEF Redeliver
  <2>2. delivery' \in [Deliveries -> {Idle} \cup [pc: {"check", "invalidate", "mark"},
                                                 event: Events]]
    BY <1>7, AckTypes DEF Redeliver
  <2>3. queue' \in [Events -> Nat] /\ faults' \in 0 .. MaxFaults
    BY <1>7, <2>1 DEF Redeliver, TypeOK
  <2> QED
    BY <1>7, <2>2, <2>3 DEF Redeliver, TypeOK
<1>8. ASSUME NEW r \in Readers, GetAvailability(r) \/ Query(r) PROVE TypeOK'
  <2>1. reader' \in [Readers -> [pc: {"idle", "query", "store"}, seen: Versions,
                                age: 0 .. MaxRead, late: BOOLEAN]]
    <3>1. CASE GetAvailability(r)
      BY <3>1 DEF GetAvailability, TypeOK
    <3>2. CASE Query(r)
      BY <3>2 DEF Query, TypeOK
    <3> QED
      BY <1>8, <3>1, <3>2
  <2> QED
    BY <1>8, <2>1 DEF GetAvailability, Query, TypeOK
<1>9. ASSUME NEW r \in Readers, Store(r) PROVE TypeOK'
  <2>1. AtRest \in [pc: {"idle", "query", "store"}, seen: Versions, age: 0 .. MaxRead,
                    late: BOOLEAN]
    BY DEF AtRest, Versions
  <2>2. reader' \in [Readers -> [pc: {"idle", "query", "store"}, seen: Versions,
                                age: 0 .. MaxRead, late: BOOLEAN]]
    BY <1>9, <2>1 DEF Store, TypeOK
  <2>3. [version |-> reader[r].seen, ttl |-> TTL, late |-> reader[r].late] \in Entry
    BY DEF Entry, TypeOK
  <2>4. entry' \in Entry \cup {NoEntry} /\ faults' \in 0 .. MaxFaults
    BY <1>9, <2>3 DEF Store, TypeOK
  <2> QED
    BY <1>9, <2>2, <2>4 DEF Store, TypeOK
<1>10. CASE Tick
  <2>1. reader' \in [Readers -> [pc: {"idle", "query", "store"}, seen: Versions,
                                age: 0 .. MaxRead, late: BOOLEAN]]
    BY <1>10 DEF Tick, TypeOK
  <2>2. entry' \in Entry \cup {NoEntry}
    BY <1>10 DEF Tick, TypeOK, Entry
  <2>3. behind' \in [Versions -> Nat]
    BY <1>10 DEF Tick, TypeOK, Versions
  <2> QED
    BY <1>10, <2>1, <2>2, <2>3 DEF Tick, TypeOK
<1>11. CASE UNCHANGED vars
  BY <1>11 DEF vars, TypeOK
<1> QED
  BY <1>1, <1>2, <1>3, <1>4, <1>5, <1>6, <1>7, <1>8, <1>9, <1>10, <1>11 DEF Next, Handle

\* Types hold on every run; a slot of the consumer is free exactly when it has no event.
THEOREM TypeCorrect == Spec => []TypeOK
<1>1. Init => TypeOK
  BY InitTypes
<1>2. TypeOK /\ [Next]_vars => TypeOK'
  BY StepTypes
<1> QED
  BY <1>1, <1>2, PTL DEF Spec

-----------------------------------------------------------------------------
(***************************************************************************)
(* Staleness                                                               *)
(***************************************************************************)
LEMMA StepStaleness == TypeOK /\ StalenessPaid /\ [Next]_vars => StalenessPaid'
<1> SUFFICES ASSUME TypeOK, StalenessPaid, [Next]_vars PROVE StalenessPaid'
  OBVIOUS
<1> USE LimitsAssumption DEF database, broker
<1>1. CASE Commit
  BY <1>1 DEF Commit, StalenessPaid, TypeOK, Versions
<1>2. CASE UNCHANGED <<version, behind, entry, reader>>
  BY <1>2 DEF StalenessPaid
<1>3. CASE Del /\ UNCHANGED <<version, behind>>
  <2>1. entry' = NoEntry /\ version' = version /\ behind' = behind
    BY <1>3 DEF Del
  <2>2. \A r \in Readers : /\ reader'[r].pc = reader[r].pc
                           /\ reader'[r].seen = reader[r].seen
                           /\ reader'[r].age = reader[r].age
    BY <1>3, DelReader
  <2> QED
    BY <2>1, <2>2 DEF StalenessPaid
<1>4. ASSUME NEW r \in Readers, GetAvailability(r) PROVE StalenessPaid'
  BY <1>4 DEF GetAvailability, StalenessPaid, TypeOK
<1>5. ASSUME NEW r \in Readers, Query(r) PROVE StalenessPaid'
  <2>1. /\ entry' = entry /\ version' = version /\ behind' = behind
        /\ reader' = [reader EXCEPT ![r] = [pc |-> "store", seen |-> version, age |-> 0,
                                           late |-> FALSE]]
    BY <1>5 DEF Query
  <2>2. reader'[r].seen = version /\ reader'[r].age = 0
    BY <2>1 DEF TypeOK
  <2>3. \A q \in Readers : q # r => reader'[q] = reader[q]
    BY <2>1 DEF TypeOK
  <2>4. behind[version] = 0
    BY DEF StalenessPaid, TypeOK, Versions
  <2> QED
    BY <2>1, <2>2, <2>3, <2>4 DEF StalenessPaid
<1>6. ASSUME NEW r \in Readers, Store(r) PROVE StalenessPaid'
  <2>1. /\ behind' = behind /\ version' = version
        /\ reader' = [reader EXCEPT ![r] = AtRest]
        /\ entry' \in {entry, [version |-> reader[r].seen, ttl |-> TTL,
                               late |-> reader[r].late]}
    BY <1>6 DEF Store
  <2>2. behind[reader[r].seen] <= MaxRead /\ behind[reader[r].seen] \in Nat
    BY <1>6 DEF Store, StalenessPaid, TypeOK
  <2>3. entry' # NoEntry => behind'[entry'.version] + entry'.ttl <= MaxRead + TTL
    BY <2>1, <2>2 DEF StalenessPaid
  <2>4. \A q \in Readers : reader'[q].pc = "store" => reader'[q] = reader[q]
    BY <2>1 DEF AtRest, TypeOK
  <2> QED
    BY <2>1, <2>3, <2>4 DEF StalenessPaid
<1>7. CASE Tick
  <2>1. version' = version
    BY <1>7 DEF Tick
  <2>2. \A v \in Versions : /\ behind'[v] <= behind[v] + 1
                            /\ v >= version => behind'[v] = behind[v]
                            /\ behind'[v] \in Nat /\ behind[v] \in Nat
    BY <1>7 DEF Tick, TypeOK, Versions
  <2>3. ASSUME NEW r \in Readers, reader'[r].pc = "store"
        PROVE  behind'[reader'[r].seen] <= reader'[r].age
    <3>1. /\ reader[r].pc = "store" /\ reader'[r].seen = reader[r].seen
          /\ reader'[r].age = reader[r].age + 1
      BY <1>7, <2>3 DEF Tick, TypeOK
    <3>2. reader[r].seen \in Versions /\ reader[r].age \in Nat
      BY DEF TypeOK
    <3> QED
      BY <2>2, <3>1, <3>2 DEF StalenessPaid
  <2>4. ASSUME entry' # NoEntry
        PROVE  behind'[entry'.version] + entry'.ttl <= MaxRead + TTL
    <3>1. /\ entry # NoEntry /\ entry.ttl # 1
          /\ entry' = [entry EXCEPT !.ttl = @ - 1]
      BY <1>7, <2>4 DEF Tick
    <3>2. entry.version \in Versions /\ entry.ttl \in 1 .. TTL
      BY <3>1 DEF TypeOK, Entry
    <3>3. entry'.version = entry.version /\ entry'.ttl = entry.ttl - 1
      BY <3>1 DEF TypeOK, Entry
    <3> QED
      BY <2>2, <3>1, <3>2, <3>3 DEF StalenessPaid
  <2> QED
    BY <2>1, <2>2, <2>3, <2>4 DEF StalenessPaid
<1>8. CASE UNCHANGED vars
  BY <1>2, <1>8 DEF vars
<1> QED
  BY <1>1, <1>2, <1>3, <1>4, <1>5, <1>6, <1>7, <1>8
  DEF Next, Publish, Deliver, Handle, CheckDuplicate, invalidateSessionSeatCache,
     markProcessed,
      Redeliver

\* An answer from the cache is never out of date by CACHE_TTL_MS plus its reader's time
\* or more, whatever happens to the events.
THEOREM StalenessIsBounded == Spec => []BoundedStaleness
<1>1. Init => StalenessPaid
  BY LimitsAssumption DEF Init, StalenessPaid, AtRest
<1>2. TypeOK /\ StalenessPaid /\ [Next]_vars => StalenessPaid'
  BY StepStaleness
<1>3. TypeOK /\ StalenessPaid => BoundedStaleness
  <2> SUFFICES ASSUME TypeOK, StalenessPaid, entry # NoEntry
               PROVE  behind[entry.version] < MaxRead + TTL
    BY DEF BoundedStaleness
  <2>1. entry.version \in Versions /\ entry.ttl \in 1 .. TTL
    BY DEF TypeOK, Entry
  <2> QED
    BY <2>1, LimitsAssumption DEF StalenessPaid, TypeOK
<1> QED
  BY <1>1, <1>2, <1>3, TypeCorrect, PTL DEF Spec

-----------------------------------------------------------------------------
(***************************************************************************)
(* Messages                                                                *)
(***************************************************************************)
LEMMA StepMessages == TypeOK /\ NoMessageVanishes /\ [Next]_vars => NoMessageVanishes'
<1> SUFFICES ASSUME TypeOK, NoMessageVanishes, [Next]_vars,
                    bound' = {RMQ_QUEUE, RMQ_DLQ},
                    NEW e \in Events, copies'[e] > 0
             PROVE  \/ queue'[e] > 0
                    \/ \E d \in Deliveries : Event(d)' = e
                    \/ e \in dedup' \cup dlq'
  BY DEF NoMessageVanishes
<1> DEFINE Kept == queue[e] > 0 \/ (\E d \in Deliveries : Event(d) = e) \/ e \in dedup \cup dlq
<1>1. ASSUME NEW f \in Events, Publish(f) PROVE Kept'
  <2>1. bound = {RMQ_QUEUE, RMQ_DLQ} /\ queue' = [queue EXCEPT ![f] = @ + 1] /\ copies' = [copies EXCEPT ![f] = @ + 1]
    BY <1>1 DEF Publish, Route
  <2>2. CASE e = f
    BY <2>1, <2>2 DEF TypeOK
  <2>3. CASE e # f
    <3>1. Kept
      BY <2>1, <2>3 DEF NoMessageVanishes, TypeOK
    <3> QED
      BY <1>1, <2>1, <2>3, <3>1 DEF Publish, TypeOK, Event
  <2> QED
    BY <2>2, <2>3
<1>2. ASSUME bound' = bound, copies' = copies PROVE Kept
  BY <1>2 DEF NoMessageVanishes
<1>3. ASSUME NEW d \in Deliveries, NEW f \in Events, Deliver(d, f) PROVE Kept'
  <2>1. Kept
    BY <1>2, <1>3 DEF Deliver, database
  <2>2. delivery'[d].event = f /\ Event(d) = NoEvent
    BY <1>3 DEF Deliver, TypeOK, Event, Idle
  <2>3. \A o \in Deliveries : o # d => delivery'[o] = delivery[o]
    BY <1>3 DEF Deliver, TypeOK
  <2>4. e # f => queue'[e] = queue[e]
    BY <1>3 DEF Deliver, TypeOK
  <2>5. dedup' = dedup /\ dlq' = dlq
    BY <1>3 DEF Deliver
  <2> QED
    BY <2>1, <2>2, <2>3, <2>4, <2>5, NullsAssumption DEF Event
<1>4. ASSUME NEW d \in Deliveries, delivery[d] # Idle, bound' = bound, copies' = copies,
             \A o \in Deliveries : o # d => delivery'[o] = delivery[o],
             queue'[e] >= queue[e], dedup \subseteq dedup', dlq \subseteq dlq',
             \/ Event(d)' = Event(d)
             \/ queue'[Event(d)] > 0
             \/ Event(d) \in dedup' \cup dlq'
      PROVE  Kept'
  <2>1. Kept
    BY <1>2, <1>4
  <2>2. queue[e] \in Nat /\ queue'[e] >= queue[e]
    BY <1>4 DEF TypeOK
  <2>3. CASE queue[e] > 0
    <3>1. queue' \in [Events -> Nat]
      BY StepTypes DEF TypeOK
    <3> QED
      BY <2>2, <2>3, <3>1
  <2>4. CASE \E o \in Deliveries : Event(o) = e
    BY <1>4, <2>4 DEF Event
  <2>5. CASE e \in dedup \cup dlq
    BY <1>4, <2>5
  <2> QED
    BY <2>1, <2>3, <2>4, <2>5
<1>5. ASSUME NEW d \in Deliveries, Handle(d) PROVE Kept'
  <2>1. delivery[d] # Idle
    BY <1>5, IdleSlots DEF Handle, CheckDuplicate, invalidateSessionSeatCache, markProcessed
  <2>2. bound' = bound /\ copies' = copies /\ queue' = queue
    BY <1>5 DEF Handle, CheckDuplicate, invalidateSessionSeatCache, markProcessed, database
  <2>3. /\ \A o \in Deliveries : o # d => delivery'[o] = delivery[o]
        /\ dlq \subseteq dlq'
    BY <1>5 DEF Handle, CheckDuplicate, invalidateSessionSeatCache, markProcessed, Goto,
       ack,
       nack, DeadLetter, TypeOK
  <2>4. dedup \subseteq dedup'
    BY <1>5 DEF Handle, CheckDuplicate, invalidateSessionSeatCache, markProcessed
  <2>5. Event(d)' = Event(d) \/ Event(d) \in dedup' \cup dlq'
    <3>1. ASSUME NEW step \in {"check", "invalidate", "mark"}, Goto(d, step)
          PROVE  Event(d)' = Event(d)
      BY <2>1, <3>1, GotoTypes DEF Event, TypeOK
    <3>2. ASSUME nack(d) PROVE Event(d) \in dlq'
      BY <2>2, <3>2 DEF nack, DeadLetter
    <3>3. CASE CheckDuplicate(d)
      BY <3>1, <3>2, <3>3 DEF CheckDuplicate, isDuplicate
    <3>4. CASE invalidateSessionSeatCache(d)
      BY <3>1, <3>2, <3>4 DEF invalidateSessionSeatCache
    <3>5. CASE markProcessed(d)
      BY <3>2, <3>5 DEF markProcessed
    <3> QED
      BY <1>5, <3>3, <3>4, <3>5 DEF Handle
  <2>6. queue'[e] >= queue[e]
    BY <2>2 DEF TypeOK
  <2> QED
    BY <1>4, <2>1, <2>2, <2>3, <2>4, <2>5, <2>6
<1>6. ASSUME NEW d \in Deliveries, Redeliver(d) PROVE Kept'
  <2>1. delivery[d] # Idle /\ bound' = bound /\ copies' = copies /\ dedup' = dedup /\ dlq' = dlq
    BY <1>6 DEF Redeliver
  <2>2. \A o \in Deliveries : o # d => delivery'[o] = delivery[o]
    BY <1>6 DEF Redeliver, TypeOK
  <2>3. queue'[Event(d)] > 0 /\ queue'[e] >= queue[e]
    BY <1>6, <2>1, BusySlots DEF Redeliver, TypeOK
  <2> QED
    BY <1>4, <2>1, <2>2, <2>3
<1>7. CASE UNCHANGED <<bound, copies, queue, delivery, dlq, dedup>>
  BY <1>2, <1>7 DEF Event
<1>8. Kept'
  BY <1>1, <1>3, <1>5, <1>6, <1>7
  DEF Next, vars, Commit, GetAvailability, Query, Store, Tick, broker
<1> QED
  BY <1>8

\* While both queues are there and bound, no event published is lost by the consumer, whatever fails.
THEOREM MessagesKept == Spec => []NoMessageVanishes
<1>1. Init => NoMessageVanishes
  BY DEF Init, NoMessageVanishes
<1>2. TypeOK /\ NoMessageVanishes /\ [Next]_vars => NoMessageVanishes'
  BY StepMessages
<1> QED
  BY <1>1, <1>2, TypeCorrect, PTL DEF Spec

-----------------------------------------------------------------------------
(***************************************************************************)
(* An event that is processed has removed the entry                        *)
(***************************************************************************)
LEMMA StepEvents == TypeOK /\ EventsFromCommits /\ [Next]_vars => EventsFromCommits'
<1> SUFFICES ASSUME TypeOK, EventsFromCommits, [Next]_vars PROVE EventsFromCommits'
  OBVIOUS
<1> USE DEF database, broker
<1>1. CASE Commit
  <2>1. PICK types \in Outcomes : outbox' = outbox \cup (types \X {version + 1})
    BY <1>1 DEF Commit
  <2>2. version' = version + 1
    BY <1>1 DEF Commit
  <2>3. \A e \in outbox' : e[2] <= version'
    <3> SUFFICES ASSUME NEW e \in outbox' PROVE e[2] <= version'
      OBVIOUS
    <3>1. CASE e \in outbox
      <4>1. e[2] \in Nat /\ e[2] <= version
        BY <3>1, VersionsOfEvents DEF TypeOK, EventsFromCommits
      <4> QED
        BY <4>1, <2>2 DEF TypeOK, Versions
    <3>2. CASE e \in types \X {version + 1}
      BY <3>2, <2>2 DEF TypeOK, Versions
    <3> QED
      BY <2>1, <3>1, <3>2
  <2>4. outbox \subseteq outbox'
    BY <2>1
  <2> QED
    BY <1>1, <2>3, <2>4 DEF Commit, EventsFromCommits, Event
<1>2. ASSUME NEW e \in Events, Publish(e) PROVE EventsFromCommits'
  BY <1>2 DEF Publish, Route, EventsFromCommits, TypeOK, Event
<1>3. ASSUME NEW d \in Deliveries, NEW e \in Events, Deliver(d, e) PROVE EventsFromCommits'
  <2>1. e \in outbox
    BY <1>3 DEF Deliver, EventsFromCommits
  <2>2. \A o \in Deliveries : o # d => delivery'[o] = delivery[o]
    BY <1>3 DEF Deliver, TypeOK
  <2>3. delivery'[d].event = e
    BY <1>3 DEF Deliver, TypeOK
  <2>4. \A f \in Events : queue'[f] > 0 => queue[f] > 0
    BY <1>3 DEF Deliver, TypeOK
  <2>5. outbox' = outbox /\ version' = version /\ dedup' = dedup /\ copies' = copies
    BY <1>3 DEF Deliver
  <2> QED
    BY <2>1, <2>2, <2>3, <2>4, <2>5 DEF EventsFromCommits, Event
<1>4. ASSUME NEW d \in Deliveries, Handle(d) \/ Redeliver(d) PROVE EventsFromCommits'
  <2>1. delivery[d] # Idle
    BY <1>4, IdleSlots DEF Handle, CheckDuplicate, invalidateSessionSeatCache,
       markProcessed,
       Redeliver
  <2>2. Event(d) \in outbox /\ Event(d) \in Events
    BY <2>1, BusySlots DEF EventsFromCommits
  <2>3. /\ outbox' = outbox /\ version' = version /\ copies' = copies
        /\ dedup' \subseteq dedup \cup {Event(d)}
    BY <1>4 DEF Handle, CheckDuplicate, invalidateSessionSeatCache, markProcessed, Redeliver
  <2>4. \A f \in Events : queue'[f] > 0 => queue[f] > 0 \/ f = Event(d)
    BY <1>4, <2>2 DEF Handle, CheckDuplicate, invalidateSessionSeatCache, markProcessed,
       Redeliver, TypeOK
  <2>5. \A o \in Deliveries : o # d => delivery'[o] = delivery[o]
    BY <1>4 DEF Handle, CheckDuplicate, invalidateSessionSeatCache, markProcessed,
       Redeliver,
       Goto, ack, nack, DeadLetter, TypeOK
  <2>6. delivery'[d] = Idle \/ Event(d)' = Event(d)
    <3>1. ASSUME NEW step \in {"check", "invalidate", "mark"}, Goto(d, step)
          PROVE  Event(d)' = Event(d)
      BY <2>1, <3>1, GotoTypes DEF Event, TypeOK
    <3>2. Goto(d, "invalidate") \/ Goto(d, "mark") \/ delivery'[d] = Idle
      BY <1>4 DEF Handle, CheckDuplicate, invalidateSessionSeatCache, markProcessed,
         Redeliver,
         ack, nack, DeadLetter, TypeOK
    <3> QED
      BY <3>1, <3>2
  <2>7. \A o \in Deliveries : delivery'[o] # Idle => Event(o)' \in outbox'
    BY <2>2, <2>3, <2>5, <2>6 DEF EventsFromCommits, Event
  <2> QED
    BY <2>2, <2>3, <2>4, <2>7 DEF EventsFromCommits
<1>5. CASE UNCHANGED <<version, outbox, copies, queue, delivery, dedup>>
  BY <1>5 DEF EventsFromCommits, Event
<1> QED
  BY <1>1, <1>2, <1>3, <1>4, <1>5 DEF Next, vars, GetAvailability, Query, Store, Tick

LEMMA StepRemoved ==
  TypeOK /\ EventsFromCommits /\ HandledMeansRemoved /\ [Next]_vars => HandledMeansRemoved'
<1> SUFFICES ASSUME TypeOK, EventsFromCommits, HandledMeansRemoved, [Next]_vars,
                    NEW e \in Events, Removed(e)'
             PROVE  /\ entry' # NoEntry => entry'.version >= e[2] \/ entry'.late
                    /\ \A r \in Readers :
                         reader'[r].pc = "store" => reader'[r].seen >= e[2] \/ reader'[r].late
  BY DEF HandledMeansRemoved
<1> DEFINE Gone == /\ entry # NoEntry => entry.version >= e[2] \/ entry.late
                   /\ \A r \in Readers :
                        reader[r].pc = "store" => reader[r].seen >= e[2] \/ reader[r].late
<1> USE DEF database, broker
<1>1. ASSUME Removed(e) PROVE Gone
  BY <1>1 DEF HandledMeansRemoved
<1>2. ASSUME UNCHANGED <<dedup, delivery>> PROVE Removed(e)
  BY <1>2 DEF Removed, Event
<1>3. ASSUME Gone, UNCHANGED <<entry, reader>> PROVE Gone'
  BY <1>3
<1>4. ASSUME NEW d \in Deliveries, NEW f \in Events, Deliver(d, f) PROVE Gone'
  <2>1. \A o \in Deliveries : delivery'[o].pc = "mark" => delivery'[o] = delivery[o]
    BY <1>4 DEF Deliver, TypeOK
  <2>2. Removed(e)
    BY <1>4, <2>1 DEF Removed, Event, Deliver
  <2> QED
    BY <1>1, <1>3, <1>4, <2>2 DEF Deliver
<1>5. ASSUME NEW d \in Deliveries, CheckDuplicate(d) \/ markProcessed(d) \/ Redeliver(d)
      PROVE  Gone'
  <2>1. \A o \in Deliveries : o # d => delivery'[o] = delivery[o]
    BY <1>5 DEF CheckDuplicate, markProcessed, Redeliver, Goto, ack, nack, DeadLetter,
       TypeOK
  <2>2. delivery'[d].pc # "mark"
    BY <1>5 DEF CheckDuplicate, markProcessed, Redeliver, Goto, ack, nack, DeadLetter,
       TypeOK, Idle
  <2>3. dedup' \subseteq dedup \cup (IF delivery[d].pc = "mark" THEN {Event(d)} ELSE {})
    BY <1>5 DEF CheckDuplicate, markProcessed, Redeliver
  <2>4. Removed(e)
    BY <2>1, <2>2, <2>3 DEF Removed, Event
  <2> QED
    BY <1>1, <1>3, <1>5, <2>4 DEF CheckDuplicate, markProcessed, Redeliver
<1>6. ASSUME Del PROVE Gone'
  <2>1. entry' = NoEntry
    BY <1>6 DEF Del
  <2>2. \A r \in Readers : reader'[r].pc = reader[r].pc
    BY <1>6, DelReader
  <2>3. ASSUME NEW r \in Readers, reader'[r].pc = "store" PROVE reader'[r].late
    BY <1>6, <2>2, <2>3, DelLate
  <2> QED
    BY <2>1, <2>3
<1>7. ASSUME NEW d \in Deliveries, invalidateSessionSeatCache(d) PROVE Gone'
  <2>1. CASE Del
    BY <1>6, <2>1
  <2>2. CASE nack(d) /\ UNCHANGED <<entry, reader>>
    <3>1. \A o \in Deliveries : o # d => delivery'[o] = delivery[o]
      BY <2>2 DEF nack, DeadLetter, TypeOK
    <3>2. delivery'[d].pc # "mark" /\ dedup' = dedup
      BY <1>7, <2>2 DEF invalidateSessionSeatCache, nack, DeadLetter, TypeOK, Idle
    <3>3. Removed(e)
      BY <3>1, <3>2 DEF Removed, Event
    <3> QED
      BY <1>1, <1>3, <2>2, <3>3
  <2> QED
    BY <1>7, <2>1, <2>2 DEF invalidateSessionSeatCache
<1>8. ASSUME NEW r \in Readers, GetAvailability(r) PROVE Gone'
  BY <1>1, <1>2, <1>8 DEF GetAvailability, TypeOK
<1>9. ASSUME NEW r \in Readers, Query(r) PROVE Gone'
  <2>1. Removed(e)
    BY <1>2, <1>9 DEF Query
  <2>2. e \in outbox
    <3>1. CASE e \in dedup
      BY <3>1 DEF EventsFromCommits
    <3>2. ASSUME NEW d \in Deliveries, Event(d) = e, delivery[d].pc = "mark" PROVE e \in outbox
      BY <3>2, IdleSlots DEF EventsFromCommits
    <3> QED
      BY <2>1, <3>1, <3>2 DEF Removed
  <2>3. e[2] <= version /\ e[2] \in Nat
    BY <2>2, VersionsOfEvents DEF EventsFromCommits
  <2>4. reader'[r].seen = version
    BY <1>9 DEF Query, TypeOK
  <2>5. \A q \in Readers : q # r => reader'[q] = reader[q]
    BY <1>9 DEF Query, TypeOK
  <2>6. entry' = entry
    BY <1>9 DEF Query
  <2>7. version >= e[2]
    BY <2>3 DEF TypeOK, Versions
  <2> QED
    BY <1>1, <2>1, <2>4, <2>5, <2>6, <2>7
<1>10. ASSUME NEW r \in Readers, Store(r) PROVE Gone'
  <2>1. Gone
    BY <1>1, <1>2, <1>10 DEF Store
  <2>2. /\ reader[r].pc = "store" /\ reader' = [reader EXCEPT ![r] = AtRest]
        /\ entry' \in {entry, [version |-> reader[r].seen, ttl |-> TTL,
                               late |-> reader[r].late]}
    BY <1>10 DEF Store
  <2>3. \A q \in Readers : reader'[q].pc = "store" => reader'[q] = reader[q]
    BY <2>2 DEF AtRest, TypeOK
  <2> QED
    BY <2>1, <2>2, <2>3
<1>11. CASE Tick
  <2>1. Gone
    BY <1>1, <1>2, <1>11 DEF Tick
  <2>2. \A r \in Readers : /\ reader'[r].pc = reader[r].pc /\ reader'[r].seen = reader[r].seen
                          /\ reader'[r].late = reader[r].late
    BY <1>11 DEF Tick, TypeOK
  <2>3. entry' # NoEntry => /\ entry # NoEntry /\ entry'.version = entry.version
                            /\ entry'.late = entry.late
    BY <1>11 DEF Tick, TypeOK, Entry
  <2> QED
    BY <2>1, <2>2, <2>3
<1>12. CASE UNCHANGED <<entry, reader, dedup, delivery>>
  BY <1>1, <1>2, <1>3, <1>12
<1>13. Gone'
  BY <1>4, <1>5, <1>7, <1>8, <1>9, <1>10, <1>11, <1>12
  DEF Next, Handle, vars, Commit, Publish
<1> QED
  BY <1>13

\* Once an event is marked processed nothing from before its commit is cached, but for
\* a reader that was between its query and cache.set when the entry was removed.
THEOREM ProcessedEventsRemoved == Spec => []ProcessedMeansRemoved
<1>1. Init => EventsFromCommits /\ HandledMeansRemoved
  BY DEF Init, EventsFromCommits, HandledMeansRemoved, Removed, AtRest, Idle, Events
<1>2. /\ TypeOK /\ EventsFromCommits /\ HandledMeansRemoved /\ [Next]_vars
      => (EventsFromCommits /\ HandledMeansRemoved)'
  BY StepEvents, StepRemoved
<1>3. TypeOK /\ HandledMeansRemoved => ProcessedMeansRemoved
  BY DEF TypeOK, HandledMeansRemoved, Removed, ProcessedMeansRemoved
<1> QED
  BY <1>1, <1>2, <1>3, TypeCorrect, PTL DEF Spec
=============================================================================
