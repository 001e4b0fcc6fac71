---------------------------- MODULE Availability ----------------------------
(***************************************************************************)
(* GET /sessions/:id/availability of one session: the cache entry, the     *)
(* readers that fill it, the commits that outdate it and the consumer that *)
(* removes it when their events arrive.                                    *)
(*                                                                         *)
(* A commit makes the next version of the session's seats and writes what  *)
(* the outbox relays publish for it: <<type, n>> is the event of that type *)
(* of commit n.  A relay may publish an event again.  RabbitMQ hands the   *)
(* consumer any number of messages at the same time, in any order, and     *)
(* takes back those of a process that dies.                                *)
(*                                                                         *)
(* Abstracted: the seats (a version stands for them; the three SELECTs of  *)
(* a reader count as old as the first), a day (no deduplication key        *)
(* expires), the session's deletion (404 before the cache is looked at).   *)
(* A cache command may fail for its caller, executed or not.               *)
(*                                                                         *)
(* GetAvailabilitySliding, DeliverUnqueued, isDuplicateById,               *)
(* CheckAndMark and NackLosing are faulty variants of the definitions that *)
(* follow them, which Spec does not use.                                   *)
(***************************************************************************)
EXTENDS Naturals, FiniteSets

CONSTANTS
  Readers,    \* bound: requests in progress
  Outcomes,   \* bound: the sets of events, of those below, that commits write
  Deliveries, \* bound: messages the consumer handles at the same time
  MaxCommits, \* bound: commits
  MaxCopies,  \* bound: how often an event is published
  MaxFaults,  \* bound: commands that fail, processes that die
  TTL,        \* CACHE_TTL_MS, in ticks
  MaxRead,    \* bound: ticks from a reader's query to the end of its cache.set
  NoEvent,    \* a delivery slot that is free
  NoEntry     \* nothing is cached

ASSUME LimitsAssumption == /\ MaxCommits \in Nat /\ MaxCopies \in Nat /\ MaxFaults \in Nat
                           /\ TTL \in Nat \ {0} /\ MaxRead \in Nat

VARIABLES
  version,  \* how many commits have changed the seats
  outbox,   \* the events committed
  bound,    \* the queues there are that are bound to their exchange
  copies,   \* how often each event has been published
  queue,    \* how many of those messages wait in the queue
  delivery, \* what each delivery slot is doing
  dlq,      \* the events in the dead letter queue
  dedup,    \* the events with a deduplication key
  entry,    \* the cache entry
  reader,   \* what each reader is doing
  behind,   \* history: ticks since each version was outdated
  faults    \* how many faults have happened

vars == <<version, outbox, bound, copies, queue, delivery, dlq, dedup, entry, reader,
          behind, faults>>
database == <<version, outbox>>
broker == <<bound, copies, queue, dlq>>

\* The consumer's queue, and the dead letter queue: DlqSetupService goes on without it
\* when it cannot be made.
RMQ_QUEUE == "queue"
RMQ_DLQ == "dlq"

Versions == 0 .. MaxCommits
ReservationEvents ==
  {"reservation.created", "payment.confirmed", "reservation.expired", "seat.released"}
Events == ReservationEvents \X (1 .. MaxCommits)

\* What a commit writes: a creation, a payment, an expiration or cancellation that frees
\* the seat, or does not, or nothing (PATCH and POST of seats).
ReservationCreatedEvent == {"reservation.created"}
PaymentConfirmedEvent == {"payment.confirmed"}
ReservationExpiredEvent == {"reservation.expired"}
SeatReleasedEvent == {"seat.released"}

ASSUME OutcomesAssumption ==
  Outcomes \subseteq {ReservationCreatedEvent, PaymentConfirmedEvent,
                      ReservationExpiredEvent, SeatReleasedEvent,
                      ReservationExpiredEvent \cup SeatReleasedEvent, {}}

\* late: the entry was removed between the reader's query and its cache.set.
Entry == [version: Versions, ttl: 1 .. TTL, late: BOOLEAN]

ASSUME NullsAssumption == NoEvent \notin Events /\ NoEntry \notin Entry

Idle == [pc |-> "idle", event |-> NoEvent]
AtRest == [pc |-> "idle", seen |-> 0, age |-> 0, late |-> FALSE]

Init ==
  /\ version = 0
  /\ outbox = {}
  /\ bound \in SUBSET {RMQ_QUEUE, RMQ_DLQ}
  /\ copies = [e \in Events |-> 0]
  /\ queue = [e \in Events |-> 0]
  /\ delivery = [d \in Deliveries |-> Idle]
  /\ dlq = {}
  /\ dedup = {}
  /\ entry = NoEntry
  /\ reader = [r \in Readers |-> AtRest]
  /\ behind = [v \in Versions |-> 0]
  /\ faults = 0

Fault == faults < MaxFaults /\ faults' = faults + 1
NoFault == UNCHANGED faults

-----------------------------------------------------------------------------
(***************************************************************************)
(* Commits and the relays                                                  *)
(***************************************************************************)
Commit ==
  /\ version < MaxCommits
  /\ version' = version + 1
  /\ \E types \in Outcomes : outbox' = outbox \cup (types \X {version + 1})
  /\ UNCHANGED <<broker, delivery, dedup, entry, reader, behind, faults>>

\* The exchange drops what no queue is bound for.
Route(e) ==
  /\ copies' = [copies EXCEPT ![e] = @ + 1]
  /\ queue' = IF RMQ_QUEUE \in bound THEN [queue EXCEPT ![e] = @ + 1] ELSE queue

\* A relay publishes an event, for the first time or again.
Publish(e) ==
  /\ e \in outbox /\ copies[e] < MaxCopies
  /\ Route(e)
  /\ UNCHANGED <<database, bound, delivery, dlq, dedup, entry, reader, behind, faults>>

-----------------------------------------------------------------------------
(***************************************************************************)
(* MessagingConsumer: the four handlers are the same                       *)
(***************************************************************************)
Event(d) == delivery[d].event
Goto(d, step) == delivery' = [delivery EXCEPT ![d].pc = step]

\* The message leaves the queue for good.
ack(d) == delivery' = [delivery EXCEPT ![d] = Idle] /\ UNCHANGED dlq

NackLosing(d) == ack(d)

\* The dead letter queue keeps the message: nobody consumes it.
DeadLetter(e) == dlq' = IF RMQ_DLQ \in bound THEN dlq \cup {e} ELSE dlq

\* The catch block: no requeue, so the dead letter exchange gets the message.
nack(d) == delivery' = [delivery EXCEPT ![d] = Idle] /\ DeadLetter(Event(d))

DeliverUnqueued(d, e) ==
  /\ delivery[d] = Idle /\ copies[e] > 0
  /\ queue' = [queue EXCEPT ![e] = @ - 1]
  /\ delivery' = [delivery EXCEPT ![d] = [pc |-> "check", event |-> e]]
  /\ UNCHANGED <<database, bound, copies, dlq, dedup, entry, reader, behind, faults>>

Deliver(d, e) ==
  /\ delivery[d] = Idle /\ queue[e] > 0
  /\ queue' = [queue EXCEPT ![e] = @ - 1]
  /\ delivery' = [delivery EXCEPT ![d] = [pc |-> "check", event |-> e]]
  /\ UNCHANGED <<database, bound, copies, dlq, dedup, entry, reader, behind, faults>>

isDuplicateById(e) == \E seen \in dedup : seen[2] = e[2]

\* The key names the type and the id of the reservation or sale.
isDuplicate(e) == e \in dedup

CheckAndMark(d) ==
  /\ delivery[d].pc = "check" /\ NoFault
  /\ IF isDuplicate(Event(d)) THEN ack(d) ELSE Goto(d, "invalidate") /\ UNCHANGED dlq
  /\ dedup' = dedup \cup {Event(d)}
  /\ UNCHANGED <<database, bound, copies, queue, entry, reader, behind>>

\* GET of the key.  A failed GET is an error or finds nothing.
CheckDuplicate(d) ==
  /\ delivery[d].pc = "check"
  /\ \/ isDuplicate(Event(d)) /\ ack(d) /\ NoFault
     \/ ~ isDuplicate(Event(d)) /\ Goto(d, "invalidate") /\ UNCHANGED dlq /\ NoFault
     \/ Fault /\ (nack(d) \/ (Goto(d, "invalidate") /\ UNCHANGED dlq))
  /\ UNCHANGED <<database, bound, copies, queue, dedup, entry, reader, behind>>

\* The entry is gone; whoever has queried before may still store what it has seen.
Del ==
  /\ entry' = NoEntry
  /\ reader' = [r \in Readers |-> [reader[r] EXCEPT !.late = (@ \/ reader[r].pc = "store")]]

invalidateSessionSeatCache(d) ==
  /\ delivery[d].pc = "invalidate"
  /\ \/ Del /\ Goto(d, "mark") /\ UNCHANGED dlq /\ NoFault
     \/ Del /\ nack(d) /\ Fault
     \/ nack(d) /\ Fault /\ UNCHANGED <<entry, reader>>
  /\ UNCHANGED <<database, bound, copies, queue, dedup, behind>>

markProcessed(d) ==
  /\ delivery[d].pc = "mark"
  /\ \/ dedup' = dedup \cup {Event(d)} /\ ack(d) /\ NoFault
     \/ dedup' \in {dedup, dedup \cup {Event(d)}} /\ nack(d) /\ Fault
  /\ UNCHANGED <<database, bound, copies, queue, entry, reader, behind>>

\* The process dies: RabbitMQ puts the message back.
Redeliver(d) ==
  /\ delivery[d] # Idle /\ Fault
  /\ queue' = [queue EXCEPT ![Event(d)] = @ + 1]
  /\ delivery' = [delivery EXCEPT ![d] = Idle]
  /\ UNCHANGED <<database, bound, copies, dlq, dedup, entry, reader, behind>>

-----------------------------------------------------------------------------
(***************************************************************************)
(* GetAvailabilityUseCase                                                  *)
(***************************************************************************)
GetAvailabilitySliding(r) ==
  /\ reader[r].pc = "idle"
  /\ \/ entry # NoEntry /\ entry' = [entry EXCEPT !.ttl = TTL] /\ UNCHANGED reader
     \/ /\ entry = NoEntry
        /\ reader' = [reader EXCEPT ![r].pc = "query"]
        /\ UNCHANGED entry
  /\ UNCHANGED <<database, broker, delivery, dedup, behind, faults>>

\* cache.get: a request that finds the entry is answered with it and changes nothing.
GetAvailability(r) ==
  /\ reader[r].pc = "idle" /\ entry = NoEntry
  /\ reader' = [reader EXCEPT ![r].pc = "query"]
  /\ UNCHANGED <<database, broker, delivery, dedup, entry, behind, faults>>

Query(r) ==
  /\ reader[r].pc = "query"
  /\ reader' = [reader EXCEPT ![r] = [pc |-> "store", seen |-> version, age |-> 0,
                                      late |-> FALSE]]
  /\ UNCHANGED <<database, broker, delivery, dedup, entry, behind, faults>>

\* cache.set, over whatever entry there is by now.  If it fails so does the request.
Store(r) ==
  /\ reader[r].pc = "store"
  /\ LET stored == [version |-> reader[r].seen, ttl |-> TTL, late |-> reader[r].late]
     IN \/ entry' = stored /\ NoFault
        \/ entry' \in {entry, stored} /\ Fault
  /\ reader' = [reader EXCEPT ![r] = AtRest]
  /\ UNCHANGED <<database, broker, delivery, dedup, behind>>

\* Readers in progress take MaxRead ticks at most; Redis expires the entry exactly.
Tick ==
  /\ \A r \in Readers : reader[r].pc = "store" => reader[r].age < MaxRead
  /\ reader' = [r \in Readers |->
                  IF reader[r].pc = "store" THEN [reader[r] EXCEPT !.age = @ + 1]
                                            ELSE reader[r]]
  /\ entry' = IF entry = NoEntry \/ entry.ttl = 1 THEN NoEntry
                                                 ELSE [entry EXCEPT !.ttl = @ - 1]
  /\ behind' = [v \in Versions |->
                  IF v < version /\ behind[v] < MaxRead + TTL THEN behind[v] + 1
                                                              ELSE behind[v]]
  /\ UNCHANGED <<database, broker, delivery, dedup, faults>>

-----------------------------------------------------------------------------
Handle(d) == CheckDuplicate(d) \/ invalidateSessionSeatCache(d) \/ markProcessed(d)

Next ==
  \/ Commit
  \/ \E e \in Events : Publish(e)
  \/ \E d \in Deliveries, e \in Events : Deliver(d, e)
  \/ \E d \in Deliveries : Handle(d) \/ Redeliver(d)
  \/ \E r \in Readers : GetAvailability(r) \/ Query(r) \/ Store(r)
  \/ Tick

Spec == Init /\ [][Next]_vars

\* Time passes, a request in progress ends, RabbitMQ delivers and handlers go on.
\* Nobody need commit, publish or ask.
FairSpec ==
  /\ Spec
  /\ WF_vars(Tick)
  /\ \A r \in Readers : WF_vars(Query(r) \/ Store(r))
  /\ WF_vars(\E d \in Deliveries : Handle(d))
  /\ WF_vars(\E d \in Deliveries, e \in Events : Deliver(d, e))

-----------------------------------------------------------------------------
\* Types; a delivery slot is free exactly when it has no event.
TypeOK ==
  /\ version \in Versions
  /\ outbox \subseteq Events
  /\ bound \subseteq {RMQ_QUEUE, RMQ_DLQ}
  /\ copies \in [Events -> Nat]
  /\ queue \in [Events -> Nat]
  /\ delivery \in [Deliveries -> {Idle} \cup [pc: {"check", "invalidate", "mark"},
                                              event: Events]]
  /\ dlq \subseteq Events
  /\ dedup \subseteq Events
  /\ entry \in Entry \cup {NoEntry}
  /\ reader \in [Readers -> [pc: {"idle", "query", "store"}, seen: Versions,
                             age: 0 .. MaxRead, late: BOOLEAN]]
  /\ behind \in [Versions -> Nat]
  /\ faults \in 0 .. MaxFaults

\* An answer from the cache is out of date by less than CACHE_TTL_MS plus the time its
\* reader took, whatever becomes of the events: dropped by the exchange, dead-lettered,
\* late, or never written.
BoundedStaleness == entry # NoEntry => behind[entry.version] < MaxRead + TTL

\* Once a commit's event is marked processed, no entry from before the commit is
\* cached, unless its reader had queried before the entry was removed and stored after:
\* duplicates, redeliveries and failures between the consumer's three commands do not
\* make it skip an event whose entry is still there.
ProcessedMeansRemoved ==
  entry # NoEntry => \A e \in dedup : entry.version >= e[2] \/ entry.late

\* With both queues, an event that has been published is never lost: it waits, is being
\* handled, has been processed, or is in the dead letter queue.
NoMessageVanishes ==
  bound = {RMQ_QUEUE, RMQ_DLQ} => \A e \in Events : copies[e] > 0 =>
    \/ queue[e] > 0
    \/ \E d \in Deliveries : Event(d) = e
    \/ e \in dedup \cup dlq

\* With both queues, when nothing more is published, every event published ends:
\* processed, or in the dead letter queue.
EventsEnd ==
  <>[](bound = {RMQ_QUEUE, RMQ_DLQ} =>
         \A e \in Events : copies[e] > 0 => e \in dedup \cup dlq)

\* When commits pause, the cache soon has nothing but the present seats, and keeps
\* so, even if no event ever comes.
FreshInTheEnd == <>[](entry = NoEntry \/ entry.version = version)
=============================================================================
