---------------------------- MODULE OutboxRelay ----------------------------
(***************************************************************************)
(* One outbox table, the relay that publishes its rows, the producer's     *)
(* channel and RabbitMQ's exchange.                                        *)
(*                                                                         *)
(* The three relays (reservations created, reservations expired or         *)
(* cancelled, sales) are the same loop; they differ in how many events a   *)
(* row stands for: ReservationExpired and SeatReleased for the second,     *)
(* either, both or none, one for the others.  <<r, k>> is the k-th event   *)
(* of row r.  Runs may overlap: the scheduler's lock does not keep apart   *)
(* runs that outlive it.                                                   *)
(*                                                                         *)
(* The producer's publish hands the message to a channel that keeps it     *)
(* until RabbitMQ confirms it, across reconnections, and gives up waiting  *)
(* after PUBLISH_TIMEOUT_MS; the message stays in the channel.  Messages   *)
(* leave a channel in order, so of two copies of an event the older is     *)
(* confirmed first.                                                        *)
(*                                                                         *)
(* Abstracted: the delay of a retry (it passes), payloads, and that two    *)
(* runs of one process share a channel (each has its own here, and dies    *)
(* alone).                                                                 *)
(*                                                                         *)
(* EligibleTooFew, TimeoutAsSuccess, MarkUnsent and BackOffPerEvent are    *)
(* faulty variants of the definitions that follow them, which Spec does    *)
(* not use.                                                                *)
(***************************************************************************)
EXTENDS Naturals, FiniteSets

CONSTANTS
  Rows,      \* the rows, in the order of createdAt
  Sends,     \* how many events each row stands for
  Relays,    \* runs of the relay that may overlap
  BatchSize, \* BATCH_SIZE
  MaxRetry,  \* MAX_RETRY_COUNT
  MaxFaults  \* bound: processes that die, messages refused, catch blocks that fail

ASSUME RowsAssumption == Rows \subseteq Nat \ {0} /\ Sends \in [Rows -> Nat]
ASSUME LimitsAssumption == /\ BatchSize \in Nat \ {0} /\ MaxRetry \in Nat
                           /\ MaxFaults \in Nat

VARIABLES
  status,   \* what has become of each row; "none" is not committed, "gone" cleaned up
  retry,    \* retryCount
  waiting,  \* nextRetryAt is in the future
  relay,    \* the run each relay is in
  channel,  \* how many copies of each event each relay's channel keeps
  accepted, \* the events RabbitMQ has accepted
  failures, \* history: how often the relay of each row has failed
  faults    \* how many faults have happened

vars == <<status, retry, waiting, relay, channel, accepted, failures, faults>>
table == <<status, retry, waiting>>

Events == UNION {{r} \X (1 .. Sends[r]) : r \in Rows}
EventsOf(r) == {e \in Events : e[1] = r}

NoRow == 0

\* batch: the rows still to do, row the one at hand; next: its event to publish next;
\* read: retryCount of the rows as the run has read it.
Run == [pc: {"idle", "send", "wait", "failed"}, batch: SUBSET Rows,
        row: Rows \cup {NoRow}, next: Nat, read: [Rows -> Nat]]

Idle == [pc |-> "idle", batch |-> {}, row |-> NoRow, next |-> 1,
         read |-> [r \in Rows |-> 0]]

Init ==
  /\ status = [r \in Rows |-> "none"]
  /\ retry = [r \in Rows |-> 0]
  /\ waiting = [r \in Rows |-> FALSE]
  /\ relay = [p \in Relays |-> Idle]
  /\ channel = [p \in Relays |-> [e \in Events |-> 0]]
  /\ accepted = {}
  /\ failures = [r \in Rows |-> 0]
  /\ faults = 0

First(R) == {r \in R : \A other \in R : r <= other}

Becomes(p, run) == relay' = [relay EXCEPT ![p] = run]

\* The event the run is publishing.
Current(p) == <<relay[p].row, relay[p].next>>

\* The loop goes on with the batch that is left.
Loop(p, batch, read) ==
  \/ batch = {} /\ Becomes(p, Idle)
  \/ \E r \in First(batch) :
       Becomes(p, [pc |-> "send", batch |-> batch, row |-> r, next |-> 1, read |-> read])

NextRow(p) == Loop(p, relay[p].batch \ {relay[p].row}, relay[p].read)

-----------------------------------------------------------------------------
(***************************************************************************)
(* The table                                                               *)
(***************************************************************************)

\* A booking transaction commits a row.
Insert(r) ==
  /\ status[r] = "none"
  /\ status' = [status EXCEPT ![r] = "pending"]
  /\ UNCHANGED <<retry, waiting, relay, channel, accepted, failures, faults>>

\* nextRetryAt comes.
Elapse(r) ==
  /\ waiting[r]
  /\ waiting' = [waiting EXCEPT ![r] = FALSE]
  /\ UNCHANGED <<status, retry, relay, channel, accepted, failures, faults>>

\* The cleanup deletes published rows after seven days.
Cleanup(r) ==
  /\ status[r] = "published"
  /\ status' = [status EXCEPT ![r] = "gone"]
  /\ UNCHANGED <<retry, waiting, relay, channel, accepted, failures, faults>>

-----------------------------------------------------------------------------
(***************************************************************************)
(* The relay                                                               *)
(***************************************************************************)
EligibleTooFew ==
  {r \in Rows : status[r] = "pending" /\ retry[r] + 1 < MaxRetry /\ ~ waiting[r]}

Eligible == {r \in Rows : status[r] = "pending" /\ retry[r] < MaxRetry /\ ~ waiting[r]}

\* The batch: the first BatchSize rows to do.
Scan(p) ==
  /\ relay[p].pc = "idle"
  /\ \E batch \in (SUBSET Eligible) \ {{}} :
       /\ Cardinality(batch) <= BatchSize
       /\ \A r \in Eligible \ batch : /\ Cardinality(batch) = BatchSize
                                      /\ \A b \in batch : b < r
       /\ Loop(p, batch, retry)
  /\ UNCHANGED <<table, channel, accepted, failures, faults>>

\* publish: the message goes to the channel.
Send(p) ==
  /\ relay[p].pc = "send" /\ Current(p) \in Events
  /\ channel' = [channel EXCEPT ![p][Current(p)] = @ + 1]
  /\ Becomes(p, [relay[p] EXCEPT !.pc = "wait"])
  /\ UNCHANGED <<table, accepted, failures, faults>>

TimeoutAsSuccess(p) ==
  /\ relay[p].pc = "wait"
  /\ Becomes(p, [relay[p] EXCEPT !.pc = "send", !.next = @ + 1])
  /\ UNCHANGED <<table, channel, accepted, failures, faults>>

Failed(p) ==
  /\ Becomes(p, [relay[p] EXCEPT !.pc = "failed"])
  /\ failures' = [failures EXCEPT ![relay[p].row] = @ + 1]

\* The timer wins the race: the message stays in the channel.
Timeout(p) ==
  /\ relay[p].pc = "wait"
  /\ Failed(p)
  /\ UNCHANGED <<table, channel, accepted, faults>>

\* RabbitMQ refuses the message.
Refuse(p) ==
  /\ relay[p].pc = "wait" /\ channel[p][Current(p)] = 1 /\ faults < MaxFaults
  /\ channel' = [channel EXCEPT ![p][Current(p)] = 0]
  /\ Failed(p)
  /\ faults' = faults + 1
  /\ UNCHANGED <<table, accepted>>

MarkUnsent(p) ==
  /\ relay[p].pc \in {"send", "wait"}
  /\ status' = [status EXCEPT ![relay[p].row] = IF @ = "gone" THEN "gone" ELSE "published"]
  /\ NextRow(p)
  /\ UNCHANGED <<retry, waiting, channel, accepted, failures, faults>>

\* All events of the row are confirmed: the UPDATE that marks it, or its failure,
\* executed or not.
Mark(p) ==
  /\ relay[p].pc = "send" /\ Current(p) \notin Events
  /\ LET r == relay[p].row
         marked == [status EXCEPT ![r] = IF @ = "gone" THEN "gone" ELSE "published"]
     IN \/ status' = marked /\ NextRow(p) /\ UNCHANGED failures
        \/ status' \in {status, marked} /\ Failed(p)
  /\ UNCHANGED <<retry, waiting, channel, accepted, faults>>

BackOffPerEvent(p) ==
  /\ relay[p].pc = "failed"
  /\ LET r == relay[p].row
     IN /\ retry' = [retry EXCEPT ![r] = relay[p].read[r] + relay[p].next]
        /\ waiting' = [waiting EXCEPT ![r] = TRUE]
  /\ NextRow(p)
  /\ UNCHANGED <<status, channel, accepted, failures, faults>>

\* The catch block: retryCount as the run has read it, plus one, and nextRetryAt,
\* whatever has happened to the row since.
BackOff(p) ==
  /\ relay[p].pc = "failed"
  /\ LET r == relay[p].row
     IN IF status[r] = "gone" THEN UNCHANGED <<retry, waiting>>
        ELSE /\ retry' = [retry EXCEPT ![r] = relay[p].read[r] + 1]
             /\ waiting' = [waiting EXCEPT ![r] = TRUE]
  /\ NextRow(p)
  /\ UNCHANGED <<status, channel, accepted, failures, faults>>

\* The catch block's own UPDATE fails: the run ends.
BackOffFails(p) ==
  /\ relay[p].pc = "failed" /\ faults < MaxFaults
  /\ Becomes(p, Idle)
  /\ faults' = faults + 1
  /\ UNCHANGED <<table, channel, accepted, failures>>

\* The process dies, and what its channel has kept is lost.
Crash(p) ==
  /\ faults < MaxFaults
  /\ Becomes(p, Idle)
  /\ channel' = [channel EXCEPT ![p] = [e \in Events |-> 0]]
  /\ faults' = faults + 1
  /\ UNCHANGED <<table, accepted, failures>>

-----------------------------------------------------------------------------
(***************************************************************************)
(* RabbitMQ                                                                *)
(***************************************************************************)

\* The exchange takes a message.  Whether a queue gets it is module Availability's: one
\* that no queue is bound for is dropped and confirmed like any other.
Accept(e) == accepted' = accepted \cup {e}

\* The confirm of the oldest copy of an event arrives, and ends the wait for it when
\* no newer copy is waited for.
Confirm(p, e) ==
  /\ channel[p][e] > 0
  /\ Accept(e)
  /\ channel' = [channel EXCEPT ![p][e] = @ - 1]
  /\ IF relay[p].pc = "wait" /\ Current(p) = e /\ channel[p][e] = 1
     THEN Becomes(p, [relay[p] EXCEPT !.pc = "send", !.next = @ + 1])
     ELSE UNCHANGED relay
  /\ UNCHANGED <<table, failures, faults>>

\* The connection breaks before the confirm: the channel will send the message again.
LoseConfirm(p, e) ==
  /\ channel[p][e] > 0
  /\ Accept(e)
  /\ UNCHANGED <<table, relay, channel, failures, faults>>

-----------------------------------------------------------------------------
Proceed(p) == Send(p) \/ Timeout(p) \/ Mark(p) \/ BackOff(p)

Next ==
  \/ \E r \in Rows : Insert(r) \/ Elapse(r) \/ Cleanup(r)
  \/ \E p \in Relays : Scan(p) \/ Proceed(p) \/ Refuse(p) \/ BackOffFails(p) \/ Crash(p)
  \/ \E p \in Relays, e \in Events : Confirm(p, e) \/ LoseConfirm(p, e)

Spec == Init /\ [][Next]_vars

\* Delays pass, the cron starts the relay again and again, and a run that waits is
\* timed out if not confirmed.  RabbitMQ need not confirm anything.
FairSpec ==
  /\ Spec
  /\ \A r \in Rows : WF_vars(Elapse(r))
  /\ \A p \in Relays : WF_vars(Scan(p)) /\ WF_vars(Proceed(p))

-----------------------------------------------------------------------------
\* Types; a run that is not idle has a row of its batch at hand.
TypeOK ==
  /\ status \in [Rows -> {"none", "pending", "published", "gone"}]
  /\ retry \in [Rows -> Nat]
  /\ waiting \in [Rows -> BOOLEAN]
  /\ relay \in [Relays -> Run]
  /\ channel \in [Relays -> [Events -> Nat]]
  /\ accepted \subseteq Events
  /\ failures \in [Rows -> Nat]
  /\ faults \in 0 .. MaxFaults
  /\ \A p \in Relays : relay[p].pc # "idle" => relay[p].row \in relay[p].batch

\* A row is marked only when RabbitMQ has accepted every event of it: whatever
\* dies, times out, overlaps or is cleaned up.
MarkedMeansAccepted ==
  \A r \in Rows : status[r] \in {"published", "gone"} => EventsOf(r) \subseteq accepted

\* SeatReleased of a reservation is never accepted before its ReservationExpired.
EventsInOrder ==
  \A e \in accepted : e[2] > 1 => <<e[1], e[2] - 1>> \in accepted

\* A row is never given up early: retryCount counts no failure twice, although runs
\* that overlap write it from what they have read.
RetriesAreFailures == \A r \in Rows : retry[r] <= failures[r]

\* What the transactional outbox and the buffering producer promise together: an
\* event of a committed row is accepted, kept in a channel, or will be relayed.
NoEventLost ==
  \A r \in Rows : status[r] = "pending" /\ retry[r] >= MaxRetry =>
    \A e \in EventsOf(r) : e \in accepted \/ \E p \in Relays : channel[p][e] > 0

\* The relay of a row ends, marked or given up for good, whatever RabbitMQ does:
\* overlapping runs that write over each other's counts never relay a row for ever,
\* and no row keeps another from its turn.
RelayEnds ==
  \A r \in Rows :
    status[r] = "pending" ~> [](status[r] # "pending" \/ retry[r] >= MaxRetry)
=============================================================================
