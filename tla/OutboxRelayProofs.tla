------------------------- MODULE OutboxRelayProofs -------------------------
(***************************************************************************)
(* What the relay guarantees for any rows, any number of overlapping runs, *)
(* any failures.  A run knows what it has done only by its own place in    *)
(* the loop: RunsKnow says that this knowledge is right, and the rest      *)
(* follows: the safety properties, and that the relay implements           *)
(* EventDelivery.                                                          *)
(***************************************************************************)
EXTENDS OutboxRelayRefinement, TLAPS

\* What a run relies on, of the events accepted and the failures counted: it has a
\* row at hand, the events before the one at hand are accepted, and the counts it has
\* read are of failures that happened, its own on top of them once it has failed.
Knows(run, acc, count) ==
  run.pc # "idle" =>
    /\ run.row \in run.batch
    /\ run.next >= 1
    /\ \A k \in Nat : 1 <= k /\ k < run.next => <<run.row, k>> \in acc
    /\ \A r \in Rows : run.read[r] <= count[r]
    /\ run.pc = "failed" => run.read[run.row] < count[run.row]

RunsKnow == \A p \in Relays : Knows(relay[p], accepted, failures)

\* A channel keeps an event only when those before it are accepted.
ChannelsInOrder ==
  \A p \in Relays, e \in Events :
    channel[p][e] > 0 => \A k \in Nat : 1 <= k /\ k < e[2] => <<e[1], k>> \in accepted

IInv == /\ TypeOK /\ RunsKnow /\ ChannelsInOrder /\ EventsInOrder
        /\ MarkedMeansAccepted /\ RetriesAreFailures

-----------------------------------------------------------------------------
\* An event is a row and the number of one of its sends.
LEMMA EventFacts ==
  /\ \A r \in Rows, k \in Nat : <<r, k>> \in Events <=> k >= 1 /\ k <= Sends[r]
  /\ \A e \in Events : /\ e[1] \in Rows /\ e[2] \in Nat
                       /\ e[2] >= 1 /\ e[2] <= Sends[e[1]]
                       /\ e = <<e[1], e[2]>>
<1>1. ASSUME NEW r \in Rows, NEW k \in Nat
      PROVE  <<r, k>> \in Events <=> k >= 1 /\ k <= Sends[r]
  <2>1. Sends[r] \in Nat
    BY RowsAssumption
  <2>2. <<r, k>> \in Events <=> \E s \in Rows : <<r, k>> \in {s} \X (1 .. Sends[s])
    BY DEF Events
  <2> QED BY <2>1, <2>2
<1>2. ASSUME NEW e \in Events
      PROVE  /\ e[1] \in Rows /\ e[2] \in Nat
             /\ e[2] >= 1 /\ e[2] <= Sends[e[1]]
             /\ e = <<e[1], e[2]>>
  <2>1. PICK s \in Rows : e \in {s} \X (1 .. Sends[s])
    BY DEF Events
  <2>2. Sends[s] \in Nat
    BY RowsAssumption
  <2> QED BY <2>1, <2>2
<1> QED BY <1>1, <1>2

\* What a run relies on stays true as events are accepted and failures happen.
LEMMA KnowsMore ==
  ASSUME NEW run \in Run, NEW acc, NEW more, acc \subseteq more,
         NEW count \in [Rows -> Nat], NEW later \in [Rows -> Nat],
         \A r \in Rows : count[r] <= later[r],
         Knows(run, acc, count)
  PROVE  Knows(run, more, later)
<1>1. run.read \in [Rows -> Nat] /\ run.batch \subseteq Rows
  BY DEF Run
<1> QED BY <1>1 DEF Knows

\* A relay that takes up a run it knows its way in, as the rest goes on, keeps
\* every run knowing.
LEMMA OneRunChanges ==
  ASSUME TypeOK, RunsKnow, failures' \in [Rows -> Nat],
         \A r \in Rows : failures[r] <= failures'[r],
         accepted \subseteq accepted',
         NEW p \in Relays, NEW run \in Run, Becomes(p, run),
         Knows(run, accepted', failures')
  PROVE  relay' \in [Relays -> Run] /\ RunsKnow'
<1>1. relay' \in [Relays -> Run] /\ relay'[p] = run
      /\ \A q \in Relays : q # p => relay'[q] = relay[q]
  BY DEF Becomes, TypeOK
<1>2. ASSUME NEW q \in Relays, q # p
      PROVE  Knows(relay[q], accepted', failures')
  BY KnowsMore DEF TypeOK, RunsKnow
<1>3. ASSUME NEW q \in Relays
      PROVE  Knows(relay'[q], accepted', failures')
  BY <1>1, <1>2, <1>3
<1> QED BY <1>1, <1>3 DEF RunsKnow

\* The same when no relay takes a step.
LEMMA NoRunChanges ==
  ASSUME TypeOK, RunsKnow, UNCHANGED <<relay, failures>>, accepted \subseteq accepted'
  PROVE  RunsKnow'
<1>1. ASSUME NEW q \in Relays
      PROVE  Knows(relay[q], accepted', failures)
  BY KnowsMore DEF TypeOK, RunsKnow
<1> QED BY <1>1 DEF RunsKnow

\* A run that has ended, and one that is to send the first event of a row, know all
\* that they need.
LEMMA LoopKnows ==
  ASSUME TypeOK, RunsKnow, UNCHANGED accepted, failures' \in [Rows -> Nat],
         \A r \in Rows : failures[r] <= failures'[r],
         NEW p \in Relays, NEW batch \in SUBSET Rows, NEW read \in [Rows -> Nat],
         \A r \in Rows : read[r] <= failures[r],
         Loop(p, batch, read)
  PROVE  relay' \in [Relays -> Run] /\ RunsKnow'
<1>1. CASE Becomes(p, Idle)
  <2>1. Idle \in Run /\ Knows(Idle, accepted', failures')
    BY DEF Idle, Run, Knows
  <2> QED BY <1>1, <2>1, OneRunChanges
<1>2. CASE \E r \in First(batch) :
             Becomes(p, [pc |-> "send", batch |-> batch, row |-> r, next |-> 1,
                         read |-> read])
  <2>1. PICK r \in First(batch) :
               Becomes(p, [pc |-> "send", batch |-> batch, row |-> r, next |-> 1,
                           read |-> read])
    BY <1>2
  <2> DEFINE run == [pc |-> "send", batch |-> batch, row |-> r, next |-> 1,
                     read |-> read]
  <2>2. r \in batch
    BY DEF First
  <2>3. run \in Run
    BY <2>2 DEF Run
  <2>4. \A s \in Rows : read[s] <= failures'[s]
    BY DEF TypeOK
  <2>5. Knows(run, accepted', failures')
    BY <2>2, <2>4 DEF Knows
  <2>6. Becomes(p, run)
    BY <2>1
  <2> HIDE DEF run
  <2> QED BY <2>3, <2>5, <2>6, OneRunChanges
<1> QED BY <1>1, <1>2 DEF Loop

\* What a run that is not idle has at hand.
LEMMA AtHand ==
  ASSUME TypeOK, RunsKnow, NEW p \in Relays, relay[p].pc # "idle"
  PROVE  /\ relay[p] \in Run
         /\ relay[p].row \in Rows /\ relay[p].row \in relay[p].batch
         /\ relay[p].batch \subseteq Rows
         /\ relay[p].next \in Nat /\ relay[p].next >= 1
         /\ relay[p].read \in [Rows -> Nat]
         /\ \A k \in Nat : 1 <= k /\ k < relay[p].next =>
              <<relay[p].row, k>> \in accepted
         /\ \A r \in Rows : relay[p].read[r] <= failures[r]
BY DEF TypeOK, RunsKnow, Knows, Run

-----------------------------------------------------------------------------
LEMMA InitInv == Init => IInv
<1> SUFFICES ASSUME Init PROVE IInv
  OBVIOUS
<1>1. Idle \in Run /\ Idle.pc = "idle"
  BY DEF Idle, Run
<1>2. TypeOK
  BY <1>1, LimitsAssumption DEF Init, TypeOK
<1>3. RunsKnow
  BY <1>1 DEF Init, RunsKnow, Knows
<1>4. ChannelsInOrder /\ EventsInOrder /\ MarkedMeansAccepted /\ RetriesAreFailures
  BY DEF Init, ChannelsInOrder, EventsInOrder, MarkedMeansAccepted, RetriesAreFailures
<1> QED BY <1>2, <1>3, <1>4 DEF IInv

\* The table's own steps touch no run and no message; a row that is cleaned up has
\* been published.
LEMMA TableSteps ==
  ASSUME IInv, NEW r \in Rows, Insert(r) \/ Elapse(r) \/ Cleanup(r)
  PROVE  IInv'
<1> USE DEF IInv
<1>1. UNCHANGED <<retry, relay, channel, accepted, failures, faults>>
  BY DEF Insert, Elapse, Cleanup
<1>2. RunsKnow'
  BY <1>1, NoRunChanges
<1>3. /\ status' \in [Rows -> {"none", "pending", "published", "gone"}]
      /\ waiting' \in [Rows -> BOOLEAN]
  BY DEF Insert, Elapse, Cleanup, TypeOK
<1>4. TypeOK'
  BY <1>1, <1>3 DEF TypeOK
<1>5. ChannelsInOrder' /\ EventsInOrder' /\ RetriesAreFailures'
  BY <1>1 DEF ChannelsInOrder, EventsInOrder, RetriesAreFailures
<1>6. MarkedMeansAccepted'
  BY <1>1 DEF MarkedMeansAccepted, Insert, Elapse, Cleanup, TypeOK
<1> QED BY <1>2, <1>4, <1>5, <1>6

\* What the other conjuncts need of a step that changes neither rows nor messages.
LEMMA RunStep ==
  ASSUME IInv, UNCHANGED <<table, channel, accepted>>, faults' \in 0 .. MaxFaults,
         failures' \in [Rows -> Nat], \A r \in Rows : failures[r] <= failures'[r],
         relay' \in [Relays -> Run], RunsKnow'
  PROVE  IInv'
<1> USE DEF IInv, table
<1>1. TypeOK'
  BY DEF TypeOK, RunsKnow, Knows
<1>2. ChannelsInOrder' /\ EventsInOrder' /\ MarkedMeansAccepted'
  BY DEF ChannelsInOrder, EventsInOrder, MarkedMeansAccepted
<1>3. RetriesAreFailures'
  <2> SUFFICES ASSUME NEW r \in Rows PROVE retry[r] <= failures'[r]
    BY DEF RetriesAreFailures
  <2> retry[r] \in Nat /\ failures[r] \in Nat /\ failures'[r] \in Nat
    BY DEF TypeOK
  <2> QED BY DEF RetriesAreFailures
<1> QED BY <1>1, <1>2, <1>3

LEMMA ScanStep ==
  ASSUME IInv, NEW p \in Relays, Scan(p)
  PROVE  IInv'
<1>1. PICK batch \in SUBSET Eligible : Loop(p, batch, retry)
  BY DEF Scan
<1>2. batch \in SUBSET Rows
  BY DEF Eligible
<1>3. /\ UNCHANGED <<table, channel, accepted, failures, faults>>
      /\ retry \in [Rows -> Nat] /\ failures \in [Rows -> Nat]
      /\ \A r \in Rows : retry[r] <= failures[r]
      /\ faults \in 0 .. MaxFaults
  BY DEF Scan, IInv, TypeOK, RetriesAreFailures
<1>4. \A r \in Rows : failures[r] <= failures'[r]
  BY <1>3
<1>5. relay' \in [Relays -> Run] /\ RunsKnow'
  BY <1>1, <1>2, <1>3, <1>4, LoopKnows DEF IInv
<1> QED BY <1>3, <1>4, <1>5, RunStep

\* A failure is counted, and the run remembers that it is.
LEMMA FailedKnows ==
  ASSUME IInv, UNCHANGED accepted, NEW p \in Relays, relay[p].pc # "idle", Failed(p)
  PROVE  /\ failures' \in [Rows -> Nat]
         /\ \A r \in Rows : failures[r] <= failures'[r]
         /\ relay' \in [Relays -> Run] /\ RunsKnow'
<1> DEFINE run == [relay[p] EXCEPT !.pc = "failed"]
<1>1. TypeOK /\ RunsKnow /\ failures \in [Rows -> Nat]
  BY DEF IInv, TypeOK
<1>2. /\ relay[p] \in Run
      /\ relay[p].row \in Rows /\ relay[p].row \in relay[p].batch
      /\ relay[p].next \in Nat /\ relay[p].next >= 1
      /\ relay[p].read \in [Rows -> Nat]
      /\ \A k \in Nat : 1 <= k /\ k < relay[p].next => <<relay[p].row, k>> \in accepted
      /\ \A r \in Rows : relay[p].read[r] <= failures[r]
  BY <1>1, AtHand
<1>3. failures' = [failures EXCEPT ![relay[p].row] = @ + 1] /\ Becomes(p, run)
  BY DEF Failed
<1>4. /\ failures' \in [Rows -> Nat]
      /\ \A r \in Rows : failures[r] <= failures'[r]
      /\ failures[relay[p].row] < failures'[relay[p].row]
  BY <1>1, <1>2, <1>3
<1>5. /\ run \in Run /\ run.row = relay[p].row /\ run.batch = relay[p].batch
      /\ run.next = relay[p].next /\ run.read = relay[p].read
  BY <1>2 DEF Run
<1> HIDE DEF run
<1>6. ASSUME NEW r \in Rows
      PROVE  run.read[r] <= failures'[r]
             /\ (r = run.row => run.read[r] < failures'[r])
  <2>1. relay[p].read[r] \in Nat /\ failures[r] \in Nat /\ failures'[r] \in Nat
    BY <1>1, <1>2, <1>4
  <2>2. relay[p].read[r] <= failures[r] /\ failures[r] <= failures'[r]
    BY <1>2, <1>4
  <2> QED BY <1>4, <1>5, <2>1, <2>2
<1>7. Knows(run, accepted', failures')
  BY <1>2, <1>5, <1>6 DEF Knows
<1>8. relay' \in [Relays -> Run] /\ RunsKnow'
  BY <1>1, <1>3, <1>4, <1>5, <1>7, OneRunChanges
<1> QED BY <1>4, <1>8

LEMMA TimeoutStep ==
  ASSUME IInv, NEW p \in Relays, Timeout(p)
  PROVE  IInv'
<1>1. /\ relay[p].pc # "idle" /\ Failed(p)
      /\ UNCHANGED <<table, channel, accepted, faults>>
  BY DEF Timeout
<1>2. faults' \in 0 .. MaxFaults /\ UNCHANGED accepted
  BY <1>1 DEF IInv, TypeOK
<1> QED BY <1>1, <1>2, FailedKnows, RunStep

\* What the other conjuncts need of a step that changes channels but neither rows nor
\* what RabbitMQ has accepted.
LEMMA ChannelStep ==
  ASSUME IInv, UNCHANGED <<table, accepted>>, faults' \in 0 .. MaxFaults,
         failures' \in [Rows -> Nat], \A r \in Rows : failures[r] <= failures'[r],
         relay' \in [Relays -> Run], RunsKnow',
         channel' \in [Relays -> [Events -> Nat]], ChannelsInOrder'
  PROVE  IInv'
<1> USE DEF IInv, table
<1>1. TypeOK'
  BY DEF TypeOK, RunsKnow, Knows
<1>2. EventsInOrder' /\ MarkedMeansAccepted'
  BY DEF EventsInOrder, MarkedMeansAccepted
<1>3. RetriesAreFailures'
  <2> SUFFICES ASSUME NEW r \in Rows PROVE retry[r] <= failures'[r]
    BY DEF RetriesAreFailures
  <2> retry[r] \in Nat /\ failures[r] \in Nat /\ failures'[r] \in Nat
    BY DEF TypeOK
  <2> QED BY DEF RetriesAreFailures
<1> QED BY <1>1, <1>2, <1>3

\* The event sent is the one at hand, and those before it are accepted.
LEMMA SendStep ==
  ASSUME IInv, NEW p \in Relays, Send(p)
  PROVE  IInv'
<1> DEFINE e == Current(p)
           run == [relay[p] EXCEPT !.pc = "wait"]
<1>1. TypeOK /\ RunsKnow /\ relay[p].pc # "idle" /\ e \in Events
  BY DEF IInv, Send
<1>2. /\ relay[p] \in Run
      /\ relay[p].row \in Rows /\ relay[p].row \in relay[p].batch
      /\ relay[p].next \in Nat /\ relay[p].next >= 1
      /\ \A k \in Nat : 1 <= k /\ k < relay[p].next => <<relay[p].row, k>> \in accepted
      /\ \A r \in Rows : relay[p].read[r] <= failures[r]
  BY <1>1, AtHand
<1>3. /\ UNCHANGED <<table, accepted, failures, faults>>
      /\ channel' = [channel EXCEPT ![p][e] = @ + 1]
      /\ Becomes(p, run)
  BY DEF Send
<1>4. /\ failures' \in [Rows -> Nat] /\ failures \in [Rows -> Nat]
      /\ \A r \in Rows : failures[r] <= failures'[r]
      /\ accepted' = accepted /\ faults' \in 0 .. MaxFaults
  BY <1>3 DEF IInv, TypeOK
<1>5. run \in Run /\ Knows(run, accepted', failures')
  BY <1>2, <1>3, <1>4 DEF Run, Knows
<1>6. relay' \in [Relays -> Run] /\ RunsKnow'
  <2> HIDE DEF run
  <2> QED BY <1>1, <1>3, <1>4, <1>5, OneRunChanges
<1>7. \A k \in Nat : 1 <= k /\ k < e[2] => <<e[1], k>> \in accepted
  BY <1>2 DEF Current
<1> HIDE DEF e, run
<1>8. channel' \in [Relays -> [Events -> Nat]]
  BY <1>1, <1>3 DEF TypeOK
<1>9. ChannelsInOrder'
  <2> SUFFICES ASSUME NEW q \in Relays, NEW f \in Events, channel'[q][f] > 0,
                      NEW k \in Nat, 1 <= k, k < f[2]
               PROVE  <<f[1], k>> \in accepted
    BY <1>4 DEF ChannelsInOrder
  <2>1. channel'[q][f] = channel[q][f] \/ f = e
    BY <1>1, <1>3 DEF TypeOK
  <2> QED BY <1>7, <2>1 DEF IInv, ChannelsInOrder
<1> QED BY <1>3, <1>4, <1>6, <1>8, <1>9, ChannelStep

LEMMA RefuseStep ==
  ASSUME IInv, NEW p \in Relays, Refuse(p)
  PROVE  IInv'
<1>1. TypeOK /\ relay[p].pc # "idle" /\ Failed(p)
      /\ UNCHANGED <<table, accepted>> /\ UNCHANGED accepted
      /\ channel' = [channel EXCEPT ![p][Current(p)] = 0]
      /\ faults < MaxFaults /\ faults' = faults + 1
  BY DEF IInv, Refuse
<1>2. faults' \in 0 .. MaxFaults
  BY <1>1, LimitsAssumption DEF TypeOK
<1>3. channel' \in [Relays -> [Events -> Nat]]
  BY <1>1 DEF TypeOK
<1>4. ChannelsInOrder'
  <2> SUFFICES ASSUME NEW q \in Relays, NEW f \in Events, channel'[q][f] > 0,
                      NEW k \in Nat, 1 <= k, k < f[2]
               PROVE  <<f[1], k>> \in accepted
    BY <1>1 DEF ChannelsInOrder
  <2>1. channel'[q][f] = channel[q][f]
    BY <1>1 DEF TypeOK
  <2> QED BY <2>1 DEF IInv, ChannelsInOrder
<1> QED BY <1>1, <1>2, <1>3, <1>4, FailedKnows, ChannelStep

LEMMA BackOffFailsStep ==
  ASSUME IInv, NEW p \in Relays, BackOffFails(p)
  PROVE  IInv'
<1>1. /\ TypeOK /\ RunsKnow /\ Becomes(p, Idle)
      /\ faults < MaxFaults /\ faults' = faults + 1
      /\ UNCHANGED <<table, channel, accepted, failures>> /\ UNCHANGED accepted
  BY DEF IInv, BackOffFails
<1>2. faults' \in 0 .. MaxFaults
  BY <1>1, LimitsAssumption DEF TypeOK
<1>3. failures' \in [Rows -> Nat] /\ \A r \in Rows : failures[r] <= failures'[r]
  BY <1>1 DEF TypeOK
<1>4. Idle \in Run /\ Knows(Idle, accepted', failures')
  BY DEF Idle, Run, Knows
<1>5. relay' \in [Relays -> Run] /\ RunsKnow'
  BY <1>1, <1>3, <1>4, OneRunChanges
<1> QED BY <1>1, <1>2, <1>3, <1>5, RunStep

LEMMA CrashStep ==
  ASSUME IInv, NEW p \in Relays, Crash(p)
  PROVE  IInv'
<1>1. /\ TypeOK /\ RunsKnow /\ Becomes(p, Idle)
      /\ faults < MaxFaults /\ faults' = faults + 1
      /\ channel' = [channel EXCEPT ![p] = [e \in Events |-> 0]]
      /\ UNCHANGED <<table, accepted, failures>> /\ UNCHANGED accepted
  BY DEF IInv, Crash
<1>2. faults' \in 0 .. MaxFaults
  BY <1>1, LimitsAssumption DEF TypeOK
<1>3. failures' \in [Rows -> Nat] /\ \A r \in Rows : failures[r] <= failures'[r]
  BY <1>1 DEF TypeOK
<1>4. Idle \in Run /\ Knows(Idle, accepted', failures')
  BY DEF Idle, Run, Knows
<1>5. relay' \in [Relays -> Run] /\ RunsKnow'
  BY <1>1, <1>3, <1>4, OneRunChanges
<1>6. channel' \in [Relays -> [Events -> Nat]]
  BY <1>1 DEF TypeOK
<1>7. ChannelsInOrder'
  BY <1>1 DEF TypeOK, IInv, ChannelsInOrder
<1> QED BY <1>1, <1>2, <1>3, <1>5, <1>6, <1>7, ChannelStep

\* A run goes on with the rest of its batch, and what it has read stays right.
LEMMA NextRowKnows ==
  ASSUME IInv, UNCHANGED <<accepted, failures>>, NEW p \in Relays,
         relay[p].pc # "idle", NextRow(p)
  PROVE  relay' \in [Relays -> Run] /\ RunsKnow'
<1> DEFINE batch == relay[p].batch \ {relay[p].row}
<1>1. TypeOK /\ RunsKnow
  BY DEF IInv
<1>2. /\ batch \in SUBSET Rows /\ relay[p].read \in [Rows -> Nat]
      /\ \A r \in Rows : relay[p].read[r] <= failures[r]
  BY <1>1, AtHand
<1>3. failures' \in [Rows -> Nat] /\ \A r \in Rows : failures[r] <= failures'[r]
  BY <1>1 DEF TypeOK
<1>4. Loop(p, batch, relay[p].read)
  BY DEF NextRow
<1> QED BY <1>1, <1>2, <1>3, <1>4, LoopKnows

\* A run that is past the last event of its row has all of them accepted.
LEMMA AllAccepted ==
  ASSUME IInv, NEW p \in Relays, relay[p].pc # "idle", Current(p) \notin Events
  PROVE  relay[p].row \in Rows /\ EventsOf(relay[p].row) \subseteq accepted
<1>1. /\ relay[p].row \in Rows /\ relay[p].next \in Nat /\ relay[p].next >= 1
      /\ \A k \in Nat : 1 <= k /\ k < relay[p].next => <<relay[p].row, k>> \in accepted
  BY AtHand DEF IInv
<1>2. relay[p].next > Sends[relay[p].row]
  BY <1>1, EventFacts, RowsAssumption DEF Current
<1>3. ASSUME NEW e \in EventsOf(relay[p].row)
      PROVE  e \in accepted
  <2>1. /\ e \in Events /\ e[1] = relay[p].row
        /\ e[2] \in Nat /\ e[2] >= 1 /\ e[2] <= Sends[e[1]] /\ e = <<e[1], e[2]>>
    BY EventFacts DEF EventsOf
  <2>2. Sends[relay[p].row] \in Nat
    BY <1>1, RowsAssumption
  <2> QED BY <1>1, <1>2, <2>1, <2>2
<1> QED BY <1>1, <1>3

LEMMA MarkStep ==
  ASSUME IInv, NEW p \in Relays, Mark(p)
  PROVE  IInv'
<1> DEFINE row == relay[p].row
           marked == [status EXCEPT ![row] = IF @ = "gone" THEN "gone" ELSE "published"]
<1>1. /\ TypeOK /\ RunsKnow /\ relay[p].pc # "idle"
      /\ UNCHANGED <<retry, waiting, channel, accepted, faults>>
      /\ UNCHANGED accepted
  BY DEF IInv, Mark
<1>2. row \in Rows /\ EventsOf(row) \subseteq accepted
  BY <1>1, AllAccepted DEF Mark
<1>3. status' \in {status, marked}
  BY DEF Mark
<1>4. /\ failures' \in [Rows -> Nat] /\ \A r \in Rows : failures[r] <= failures'[r]
      /\ relay' \in [Relays -> Run] /\ RunsKnow'
  <2>1. CASE NextRow(p) /\ UNCHANGED failures
    <3>1. failures' \in [Rows -> Nat] /\ \A r \in Rows : failures[r] <= failures'[r]
      BY <1>1, <2>1 DEF TypeOK
    <3> QED BY <1>1, <2>1, <3>1, NextRowKnows
  <2>2. CASE Failed(p)
    BY <1>1, <2>2, FailedKnows
  <2> QED BY <2>1, <2>2 DEF Mark
<1>5. status' \in [Rows -> {"none", "pending", "published", "gone"}]
      /\ \A r \in Rows : status'[r] \in {"published", "gone"} =>
           status[r] \in {"published", "gone"} \/ r = row
  BY <1>1, <1>2, <1>3 DEF TypeOK
<1> HIDE DEF row, marked
<1>6. TypeOK'
  BY <1>1, <1>4, <1>5 DEF TypeOK, RunsKnow, Knows
<1>7. ChannelsInOrder' /\ EventsInOrder'
  BY <1>1 DEF IInv, ChannelsInOrder, EventsInOrder
<1>8. MarkedMeansAccepted'
  BY <1>1, <1>2, <1>5 DEF IInv, MarkedMeansAccepted
<1>9. RetriesAreFailures'
  <2> SUFFICES ASSUME NEW r \in Rows PROVE retry[r] <= failures'[r]
    BY <1>1 DEF RetriesAreFailures
  <2> retry[r] \in Nat /\ failures[r] \in Nat /\ failures'[r] \in Nat
    BY <1>1, <1>4 DEF TypeOK
  <2> QED BY <1>4 DEF IInv, RetriesAreFailures
<1> QED BY <1>4, <1>6, <1>7, <1>8, <1>9 DEF IInv

\* The count written is one more than the one read, and the failure it stands for
\* came after the reading.
LEMMA BackOffStep ==
  ASSUME IInv, NEW p \in Relays, BackOff(p)
  PROVE  IInv'
<1> DEFINE row == relay[p].row
           count == relay[p].read[row] + 1
<1>1. /\ TypeOK /\ RunsKnow /\ relay[p].pc = "failed" /\ relay[p].pc # "idle"
      /\ UNCHANGED <<status, channel, accepted, failures, faults>>
      /\ UNCHANGED <<accepted, failures>>
  BY DEF IInv, BackOff
<1>2. NextRow(p)
  BY DEF BackOff
<1>3. relay' \in [Relays -> Run] /\ RunsKnow'
  BY <1>1, <1>2, NextRowKnows
<1>4. /\ row \in Rows /\ relay[p].read[row] \in Nat
      /\ relay[p].read[row] < failures[row] /\ failures[row] \in Nat
  <2>1. row \in Rows /\ relay[p].read \in [Rows -> Nat]
    BY <1>1, AtHand
  <2> QED BY <1>1, <2>1 DEF RunsKnow, Knows, TypeOK
<1>5. \/ retry' = retry /\ waiting' = waiting
      \/ /\ retry' = [retry EXCEPT ![row] = count]
         /\ waiting' = [waiting EXCEPT ![row] = TRUE]
  BY DEF BackOff
<1>6. /\ retry \in [Rows -> Nat] /\ waiting \in [Rows -> BOOLEAN]
      /\ count \in Nat /\ count <= failures[row]
  BY <1>1, <1>4 DEF TypeOK
<1> HIDE DEF row, count
<1>7. retry' \in [Rows -> Nat] /\ waiting' \in [Rows -> BOOLEAN]
  BY <1>4, <1>5, <1>6
<1>8. TypeOK'
  BY <1>1, <1>3, <1>7 DEF TypeOK, RunsKnow, Knows
<1>9. ChannelsInOrder' /\ EventsInOrder' /\ MarkedMeansAccepted'
  BY <1>1 DEF IInv, ChannelsInOrder, EventsInOrder, MarkedMeansAccepted
<1>10. RetriesAreFailures'
  <2> SUFFICES ASSUME NEW r \in Rows PROVE retry'[r] <= failures[r]
    BY <1>1 DEF RetriesAreFailures
  <2>1. retry[r] <= failures[r]
    BY DEF IInv, RetriesAreFailures
  <2>2. retry'[r] = retry[r] \/ (r = row /\ retry'[r] = count)
    BY <1>4, <1>5, <1>6
  <2> QED BY <1>6, <2>1, <2>2
<1> QED BY <1>3, <1>8, <1>9, <1>10 DEF IInv

\* RabbitMQ accepts an event only from a channel, so the one before it came first.
LEMMA AcceptFacts ==
  ASSUME IInv, NEW p \in Relays, NEW e \in Events, channel[p][e] > 0, Accept(e)
  PROVE  /\ accepted' \subseteq Events
         /\ accepted \subseteq accepted'
         /\ EventsInOrder'
<1>1. accepted' = accepted \cup {e}
  BY DEF Accept
<1>2. accepted' \subseteq Events
  BY <1>1 DEF Accept, IInv, TypeOK
<1>3. e[2] > 1 => <<e[1], e[2] - 1>> \in accepted
  BY EventFacts DEF IInv, ChannelsInOrder
<1>4. EventsInOrder'
  BY <1>1, <1>3 DEF IInv, EventsInOrder
<1> QED BY <1>1, <1>2, <1>4

\* The wait ends with the event at hand accepted: the run knows it and goes on.
LEMMA ConfirmStep ==
  ASSUME IInv, NEW p \in Relays, NEW e \in Events, Confirm(p, e) \/ LoseConfirm(p, e)
  PROVE  IInv'
<1>1. /\ TypeOK /\ RunsKnow /\ channel[p][e] > 0 /\ Accept(e)
      /\ UNCHANGED <<status, retry, waiting, failures, faults>>
  BY DEF IInv, Confirm, LoseConfirm, table
<1>2. /\ accepted' \subseteq Events
      /\ accepted \subseteq accepted' /\ EventsInOrder'
  BY <1>1, AcceptFacts
<1>3. e \in accepted'
  BY <1>1 DEF Accept
<1>4. failures' \in [Rows -> Nat] /\ \A r \in Rows : failures[r] <= failures'[r]
  BY <1>1 DEF TypeOK
<1>5. channel' = channel \/ channel' = [channel EXCEPT ![p][e] = @ - 1]
  BY DEF Confirm, LoseConfirm
<1>6. /\ channel' \in [Relays -> [Events -> Nat]]
      /\ \A q \in Relays, f \in Events : channel'[q][f] > 0 => channel[q][f] > 0
  <2>1. channel \in [Relays -> [Events -> Nat]] /\ channel[p][e] - 1 \in Nat
    BY <1>1 DEF TypeOK
  <2>2. CASE channel' = [channel EXCEPT ![p][e] = @ - 1]
    <3> DEFINE less == channel[p][e] - 1
    <3>1. channel' = [channel EXCEPT ![p][e] = less] /\ less \in Nat
      BY <2>1, <2>2
    <3> HIDE DEF less
    <3>2. channel' \in [Relays -> [Events -> Nat]]
      BY <2>1, <3>1
    <3>3. \A q \in Relays, f \in Events :
            channel'[q][f] = channel[q][f] \/ (q = p /\ f = e)
      BY <2>1, <3>1
    <3> QED BY <1>1, <3>2, <3>3
  <2> QED BY <1>5, <2>1, <2>2
<1>7. relay' \in [Relays -> Run] /\ RunsKnow'
  <2>1. CASE UNCHANGED relay
    BY <1>1, <1>2, <2>1, NoRunChanges DEF TypeOK
  <2>2. CASE /\ relay[p].pc = "wait" /\ Current(p) = e
             /\ Becomes(p, [relay[p] EXCEPT !.pc = "send", !.next = @ + 1])
    <3> DEFINE run == [relay[p] EXCEPT !.pc = "send", !.next = @ + 1]
    <3>1. /\ relay[p] \in Run
          /\ relay[p].row \in Rows /\ relay[p].row \in relay[p].batch
          /\ relay[p].next \in Nat /\ relay[p].next >= 1
          /\ \A k \in Nat : 1 <= k /\ k < relay[p].next =>
               <<relay[p].row, k>> \in accepted
          /\ \A r \in Rows : relay[p].read[r] <= failures[r]
      BY <1>1, <2>2, AtHand
    <3>2. /\ run \in Run /\ run.pc = "send" /\ run.row = relay[p].row
          /\ run.batch = relay[p].batch /\ run.next = relay[p].next + 1
          /\ run.read = relay[p].read
      <4>1. relay[p].next + 1 \in Nat
        BY <3>1
      <4> QED BY <3>1, <4>1 DEF Run
    <3>3. e = <<relay[p].row, relay[p].next>> /\ Becomes(p, run)
      BY <2>2 DEF Current
    <3> HIDE DEF run
    <3>4. \A k \in Nat : 1 <= k /\ k < run.next => <<run.row, k>> \in accepted'
      <4> SUFFICES ASSUME NEW k \in Nat, 1 <= k, k < run.next
                   PROVE  <<run.row, k>> \in accepted'
        OBVIOUS
      <4>1. k < relay[p].next \/ k = relay[p].next
        BY <3>1, <3>2
      <4> QED BY <1>2, <1>3, <3>1, <3>2, <3>3, <4>1
    <3>5. Knows(run, accepted', failures')
      BY <1>1, <3>1, <3>2, <3>4 DEF Knows
    <3> QED BY <1>1, <1>2, <1>4, <3>2, <3>3, <3>5, OneRunChanges
  <2> QED BY <2>1, <2>2 DEF Confirm, LoseConfirm
<1>8. TypeOK'
  BY <1>1, <1>2, <1>4, <1>6, <1>7 DEF TypeOK, RunsKnow, Knows
<1>9. ChannelsInOrder'
  BY <1>2, <1>6 DEF IInv, ChannelsInOrder
<1>10. MarkedMeansAccepted' /\ RetriesAreFailures'
  BY <1>1, <1>2 DEF IInv, MarkedMeansAccepted, RetriesAreFailures
<1> QED BY <1>2, <1>7, <1>8, <1>9, <1>10 DEF IInv

-----------------------------------------------------------------------------
LEMMA StutterStep == IInv /\ UNCHANGED vars => IInv'
<1> SUFFICES ASSUME IInv, UNCHANGED vars PROVE IInv'
  OBVIOUS
<1>1. RunsKnow'
  BY NoRunChanges DEF IInv, vars
<1> QED BY <1>1 DEF IInv, vars, TypeOK, ChannelsInOrder, EventsInOrder,
                    MarkedMeansAccepted, RetriesAreFailures

LEMMA NextInv == IInv /\ [Next]_vars => IInv'
<1> SUFFICES ASSUME IInv, [Next]_vars PROVE IInv'
  OBVIOUS
<1>1. CASE \E r \in Rows : Insert(r) \/ Elapse(r) \/ Cleanup(r)
  BY <1>1, TableSteps
<1>2. CASE \E p \in Relays : Scan(p)
  BY <1>2, ScanStep
<1>3. CASE \E p \in Relays : Proceed(p)
  BY <1>3, SendStep, TimeoutStep, MarkStep, BackOffStep DEF Proceed
<1>4. CASE \E p \in Relays : Refuse(p) \/ BackOffFails(p) \/ Crash(p)
  BY <1>4, RefuseStep, BackOffFailsStep, CrashStep
<1>5. CASE \E p \in Relays, e \in Events : Confirm(p, e) \/ LoseConfirm(p, e)
  BY <1>5, ConfirmStep
<1>6. CASE UNCHANGED vars
  BY <1>6, StutterStep
<1> QED BY <1>1, <1>2, <1>3, <1>4, <1>5, <1>6 DEF Next

THEOREM Inductive == Spec => []IInv
BY InitInv, NextInv, PTL DEF Spec

\* Every state has its type, for any rows, sends, relays and limits.
THEOREM TypeCorrect == Spec => []TypeOK
<1>1. IInv => TypeOK
  BY DEF IInv
<1> QED BY <1>1, Inductive, PTL

\* A row that has been marked has had every event of it accepted by RabbitMQ.
THEOREM NothingMarkedUnsent == Spec => []MarkedMeansAccepted
<1>1. IInv => MarkedMeansAccepted
  BY DEF IInv
<1> QED BY <1>1, Inductive, PTL

\* RabbitMQ accepts the events of a row in their order, whatever is sent again.
THEOREM OrderKept == Spec => []EventsInOrder
<1>1. IInv => EventsInOrder
  BY DEF IInv
<1> QED BY <1>1, Inductive, PTL

\* retryCount never exceeds the failures of the row, so overlapping runs that write it
\* from stale reads never make the relay give a row up early.
THEOREM NotGivenUpEarly == Spec => []RetriesAreFailures
<1>1. IInv => RetriesAreFailures
  BY DEF IInv
<1> QED BY <1>1, Inductive, PTL

-----------------------------------------------------------------------------
(***************************************************************************)
(* The relay implements EventDelivery                                      *)
(***************************************************************************)
\* What the runs work on and the channels keep comes from committed rows.
OnlyCommitted ==
  /\ \A p \in Relays : \A r \in relay[p].batch : status[r] # "none"
  /\ \A p \in Relays, e \in Events : channel[p][e] > 0 => status[e[1]] # "none"

\* A row stays committed: it is marked, and cleaned up, at most.
LEMMA StaysCommitted ==
  ASSUME IInv, [Next]_vars, NEW r \in Rows, status[r] # "none"
  PROVE  status'[r] # "none"
<1>1. status \in [Rows -> {"none", "pending", "published", "gone"}]
  BY DEF IInv, TypeOK
<1>2. CASE \E s \in Rows : Insert(s) \/ Elapse(s) \/ Cleanup(s)
  BY <1>1, <1>2 DEF Insert, Elapse, Cleanup
<1>3. CASE \E p \in Relays : Mark(p)
  BY <1>1, <1>3 DEF Mark
<1>4. CASE UNCHANGED status
  BY <1>4
<1>5. QED
  BY <1>2, <1>3, <1>4 DEF Next, Proceed, Scan, Send, Timeout, BackOff, Refuse, BackOffFails,
     Crash, Confirm, LoseConfirm, table, vars

LEMMA NewRun ==
  ASSUME TypeOK, NEW p \in Relays, NEW run, Becomes(p, run), NEW q \in Relays
  PROVE  relay'[q] = relay[q] \/ (q = p /\ relay'[q] = run)
BY DEF Becomes, TypeOK

\* A run that goes on has nothing in its batch that was not in it.
LEMMA LoopBatch ==
  ASSUME TypeOK, NEW p \in Relays, NEW batch, NEW read, Loop(p, batch, read)
  PROVE  \A q \in Relays : \A r \in relay'[q].batch :
           r \in relay[q].batch \/ (q = p /\ r \in batch)
<1>1. CASE Becomes(p, Idle)
  BY <1>1, NewRun DEF Idle
<1>2. CASE \E row : Becomes(p, [pc |-> "send", batch |-> batch, row |-> row, next |-> 1,
                               read |-> read])
  BY <1>2, NewRun
<1>3. QED
  BY <1>1, <1>2 DEF Loop

LEMMA BatchesCommitted ==
  ASSUME IInv, OnlyCommitted, [Next]_vars, NEW q \in Relays, NEW r \in relay'[q].batch
  PROVE  r \in Rows /\ status[r] # "none"
<1>1. /\ TypeOK /\ relay \in [Relays -> Run]
      /\ \A p \in Relays : relay[p].batch \subseteq Rows
  BY DEF IInv, TypeOK, Run
<1>2. SUFFICES r \in relay[q].batch \/ r \in Eligible
  BY <1>1 DEF OnlyCommitted, Eligible
<1>3. CASE UNCHANGED relay
  BY <1>3
<1>4. CASE \E p \in Relays : Scan(p)
  <2>1. PICK p \in Relays, batch \in SUBSET Eligible : Loop(p, batch, retry)
    BY <1>4 DEF Scan
  <2>2. QED
    BY <1>1, <2>1, LoopBatch
<1>5. CASE \E p \in Relays : NextRow(p)
  <2>1. PICK p \in Relays : NextRow(p)
    BY <1>5
  <2>2. QED
    BY <1>1, <2>1, LoopBatch DEF NextRow
<1>6. ASSUME NEW p \in Relays, NEW run, Becomes(p, run), run.batch \in {{}, relay[p].batch}
      PROVE  r \in relay[q].batch
  BY <1>1, <1>6, NewRun
<1>7. CASE \E p \in Relays : Send(p) \/ Failed(p) \/ Becomes(p, Idle)
  <2>1. PICK p \in Relays : Send(p) \/ Failed(p) \/ Becomes(p, Idle)
    BY <1>7
  <2>2. /\ [relay[p] EXCEPT !.pc = "wait"].batch = relay[p].batch
        /\ [relay[p] EXCEPT !.pc = "failed"].batch = relay[p].batch
        /\ Idle.batch = {}
    BY <1>1 DEF Run, Idle
  <2>3. QED
    BY <1>6, <2>1, <2>2 DEF Send, Failed
<1>8. CASE \E p \in Relays, e \in Events : Confirm(p, e)
  <2>1. PICK p \in Relays : \/ UNCHANGED relay
                           \/ Becomes(p, [relay[p] EXCEPT !.pc = "send", !.next = @ + 1])
    BY <1>8 DEF Confirm
  <2>2. [relay[p] EXCEPT !.pc = "send", !.next = @ + 1].batch = relay[p].batch
    BY <1>1 DEF Run
  <2>3. QED
    BY <1>6, <2>1, <2>2
<1>9. QED
  BY <1>3, <1>4, <1>5, <1>6, <1>7, <1>8 DEF Next, Proceed, Insert, Elapse, Cleanup, Timeout,
     Mark, BackOff, Refuse, BackOffFails, Crash, LoseConfirm, vars

LEMMA ChannelsCommitted ==
  ASSUME IInv, OnlyCommitted, [Next]_vars, NEW q \in Relays, NEW e \in Events,
         channel'[q][e] > 0
  PROVE  e[1] \in Rows /\ status[e[1]] # "none"
<1>1. TypeOK /\ channel \in [Relays -> [Events -> Nat]] /\ e[1] \in Rows
  BY EventFacts DEF IInv, TypeOK
<1>2. CASE channel[q][e] > 0
  BY <1>1, <1>2 DEF OnlyCommitted
<1>3. CASE UNCHANGED channel
  BY <1>2, <1>3
<1>4. CASE \E p \in Relays : Send(p)
  <2>1. PICK p \in Relays : Send(p)
    BY <1>4
  <2>2. Current(p) \in Events /\ channel' = [channel EXCEPT ![p][Current(p)] = @ + 1]
    BY <2>1 DEF Send
  <2>3. channel'[q][e] = channel[q][e] \/ e = Current(p)
    BY <1>1, <2>2
  <2>4. relay[p].row \in relay[p].batch
    BY <2>1 DEF IInv, TypeOK, Send
  <2>5. QED
    BY <1>1, <1>2, <2>3, <2>4 DEF OnlyCommitted, Current
<1>5. CASE \E p \in Relays : Refuse(p)
  BY <1>1, <1>2, <1>5 DEF Refuse
<1>6. CASE \E p \in Relays : Crash(p)
  BY <1>1, <1>2, <1>6 DEF Crash
<1>7. CASE \E p \in Relays, f \in Events : Confirm(p, f)
  <2>1. PICK p \in Relays, f \in Events : Confirm(p, f)
    BY <1>7
  <2> DEFINE less == channel[p][f] - 1
  <2>2. channel[p][f] > 0 /\ channel' = [channel EXCEPT ![p][f] = less]
    BY <2>1 DEF Confirm
  <2> HIDE DEF less
  <2>3. channel'[q][e] = channel[q][e] \/ (p = q /\ f = e)
    BY <1>1, <2>2
  <2>4. QED
    BY <1>2, <2>2, <2>3
<1>8. QED
  BY <1>3, <1>4, <1>5, <1>6, <1>7 DEF Next, Proceed, Insert, Elapse, Cleanup, Scan, Timeout,
     Mark, BackOff, BackOffFails, LoseConfirm, vars

LEMMA CommittedInvariant == Spec => [](IInv /\ OnlyCommitted)
<1>1. Init => OnlyCommitted
  BY DEF Init, OnlyCommitted, Idle
<1>2. IInv /\ OnlyCommitted /\ [Next]_vars => OnlyCommitted'
  <2> SUFFICES ASSUME IInv, OnlyCommitted, [Next]_vars PROVE OnlyCommitted'
    OBVIOUS
  <2>1. ASSUME NEW q \in Relays, NEW r \in relay'[q].batch PROVE status'[r] # "none"
    BY BatchesCommitted, StaysCommitted
  <2>2. ASSUME NEW q \in Relays, NEW e \in Events, channel'[q][e] > 0
        PROVE  status'[e[1]] # "none"
    BY <2>2, ChannelsCommitted, StaysCommitted
  <2>3. QED
    BY <2>1, <2>2 DEF OnlyCommitted
<1>3. QED
  BY <1>1, <1>2, Inductive, PTL DEF Spec

LEMMA SameEvents == \A r \in Rows : ED!EventsOf(r) = EventsOf(r)
<1> SUFFICES ASSUME NEW r \in Rows PROVE ED!EventsOf(r) = EventsOf(r)
  OBVIOUS
<1>1. \A e \in EventsOf(r) : e \in ED!EventsOf(r)
  BY EventFacts DEF EventsOf, ED!EventsOf
<1>2. \A e \in ED!EventsOf(r) : e \in EventsOf(r)
  BY DEF EventsOf, ED!EventsOf, Events
<1>3. QED
  BY <1>1, <1>2

\* A mark puts its row away, or finds that another run has done so.
LEMMA MarkRefines ==
  ASSUME IInv, OnlyCommitted, NEW p \in Relays, Mark(p)
  PROVE  ED!PutAway(relay[p].row) \/ UNCHANGED <<status, accepted>>
<1>1. relay[p].row \in Rows /\ EventsOf(relay[p].row) \subseteq accepted
  BY AllAccepted DEF Mark
<1>2. status[relay[p].row] \in {"pending", "published", "gone"}
  BY <1>1 DEF OnlyCommitted, IInv, TypeOK, Mark
<1>3. /\ accepted' = accepted /\ status \in [Rows -> {"none", "pending", "published", "gone"}]
      /\ \/ status' = status
         \/ status' = [status EXCEPT ![relay[p].row] = IF @ = "gone" THEN "gone" ELSE "published"]
  BY DEF Mark, IInv, TypeOK
<1>4. CASE status[relay[p].row] = "pending"
  BY <1>1, <1>3, <1>4, SameEvents DEF ED!PutAway, ED!Becomes
<1>5. CASE status[relay[p].row] \in {"published", "gone"}
  BY <1>1, <1>3, <1>5
<1>6. QED
  BY <1>2, <1>4, <1>5

\* What RabbitMQ accepts is of a committed row, after the events before it.
LEMMA AcceptRefines ==
  ASSUME IInv, OnlyCommitted, NEW p \in Relays, NEW e \in Events,
         Confirm(p, e) \/ LoseConfirm(p, e)
  PROVE  e[1] \in Rows /\ ED!Accept(e[1])
<1>1. /\ channel[p][e] > 0 /\ status' = status /\ accepted' = accepted \cup {e}
  BY DEF Confirm, LoseConfirm, Accept, table
<1>2. e[1] \in Rows /\ status[e[1]] # "none" /\ e \in EventsOf(e[1])
  BY <1>1, EventFacts DEF OnlyCommitted, EventsOf
<1>3. ASSUME NEW earlier \in EventsOf(e[1]), earlier[2] < e[2] PROVE earlier \in accepted
  BY <1>1, <1>3, EventFacts DEF IInv, ChannelsInOrder, EventsOf
<1>4. QED
  BY <1>1, <1>2, <1>3, SameEvents DEF ED!Accept

\* Whatever overlaps, times out, is refused, loses its confirm or dies: RabbitMQ hears
\* only of committed rows, of each row's events in their order, and a row is put away
\* when all of its events have been heard.
THEOREM RelayImplementsDelivery == Spec => ImplementsDelivery
<1>1. Init => ED!Init
  BY DEF Init, ED!Init
<1>2. IInv /\ OnlyCommitted /\ [Next]_vars => [ED!Next]_<<status, accepted>>
  <2> SUFFICES ASSUME IInv, OnlyCommitted, Next
               PROVE  ED!Next \/ UNCHANGED <<status, accepted>>
    BY DEF vars
  <2>1. ASSUME NEW r \in Rows, Insert(r) \/ Cleanup(r) PROVE ED!Next
    BY <2>1 DEF Insert, Cleanup, ED!Commit, ED!CleanUp, ED!Becomes, ED!Next
  <2>2. ASSUME NEW p \in Relays, Mark(p) PROVE ED!Next \/ UNCHANGED <<status, accepted>>
    <3>1. relay[p].row \in Rows
      BY <2>2, AllAccepted DEF Mark
    <3>2. QED
      BY <2>2, <3>1, MarkRefines DEF ED!Next
  <2>3. ASSUME NEW p \in Relays, NEW e \in Events, Confirm(p, e) \/ LoseConfirm(p, e)
        PROVE  ED!Next
    BY <2>3, AcceptRefines DEF ED!Next
  <2>4. ASSUME NEW p \in Relays, \/ Scan(p) \/ Send(p) \/ Timeout(p) \/ BackOff(p)
                                 \/ Refuse(p) \/ BackOffFails(p) \/ Crash(p)
        PROVE  UNCHANGED <<status, accepted>>
    BY <2>4 DEF Scan, Send, Timeout, BackOff, Refuse, BackOffFails, Crash, table
  <2>5. ASSUME NEW r \in Rows, Elapse(r) PROVE UNCHANGED <<status, accepted>>
    BY <2>5 DEF Elapse
  <2>6. QED
    BY <2>1, <2>2, <2>3, <2>4, <2>5 DEF Next, Proceed
<1>3. QED
  BY <1>1, <1>2, CommittedInvariant, PTL DEF Spec, ImplementsDelivery, ED!Spec

\* EventDelivery is the promise it is meant to be: whatever implements it lets RabbitMQ
\* hear of nothing that was not committed, nor out of order, and puts nothing away unheard.
THEOREM DeliveryKeepsItsPromise == ImplementsDelivery => []ED!Heard
<1>1. ED!Init => ED!Heard
  BY DEF ED!Init, ED!Heard
<1>2. ASSUME ED!Heard, NEW r \in Rows, ED!Commit(r) PROVE ED!Heard'
  BY <1>2 DEF ED!Heard, ED!Commit, ED!Becomes
<1>3. ASSUME ED!Heard, NEW r \in Rows, ED!Accept(r) PROVE ED!Heard'
  BY <1>3 DEF ED!Heard, ED!Accept, ED!EventsOf
<1>4. ASSUME ED!Heard, NEW r \in Rows, ED!PutAway(r) PROVE ED!Heard'
  BY <1>4 DEF ED!Heard, ED!PutAway, ED!Becomes
<1>5. ASSUME ED!Heard, NEW r \in Rows, ED!CleanUp(r) PROVE ED!Heard'
  BY <1>5 DEF ED!Heard, ED!CleanUp, ED!Becomes
<1>6. ASSUME ED!Heard, UNCHANGED <<status, accepted>> PROVE ED!Heard'
  BY <1>6 DEF ED!Heard
<1>7. ED!Heard /\ [ED!Next]_<<status, accepted>> => ED!Heard'
  BY <1>2, <1>3, <1>4, <1>5, <1>6 DEF ED!Next
<1>8. QED
  BY <1>1, <1>7, PTL DEF ImplementsDelivery, ED!Spec

-----------------------------------------------------------------------------
(***************************************************************************)
(* What is left of NoEventLost, which the second event of a row violates:  *)
(* a run publishes the first event of a row before it can fail at the row, *)
(* and what it has published stays in its channel till RabbitMQ has it.    *)
(***************************************************************************)
\* RabbitMQ has the event, or some channel keeps it.
Kept(e) == e \in accepted \/ \E p \in Relays : channel[p][e] > 0

\* A run that waits for a confirm has the event at hand in its channel.
WaitsKept ==
  \A p \in Relays :
    relay[p].pc = "wait" => Current(p) \in Events /\ channel[p][Current(p)] > 0

\* The first event of a row whose relay has failed is on its way for good.
FirstEventsKept ==
  faults = 0 => \A e \in Events : e[2] = 1 /\ failures[e[1]] > 0 => Kept(e)

KInv == IInv /\ WaitsKept /\ FirstEventsKept

\* A run begins to wait only by sending.
LEMMA BeginsToWait ==
  ASSUME TypeOK, [Next]_vars, NEW p \in Relays, relay'[p].pc = "wait"
  PROVE  relay'[p] = relay[p] \/ Send(p)
<1>1. ASSUME NEW q \in Relays, NEW batch, NEW read, Loop(q, batch, read)
      PROVE  relay'[p] = relay[p]
  BY <1>1 DEF Loop, Becomes, Idle, TypeOK
<1>2. ASSUME NEW q \in Relays, Failed(q)
      PROVE  relay'[p] = relay[p]
  BY <1>2 DEF Failed, Becomes, TypeOK, Run
<1>3. ASSUME NEW q \in Relays, Becomes(q, Idle)
      PROVE  relay'[p] = relay[p]
  BY <1>3 DEF Becomes, Idle, TypeOK
<1>4. ASSUME NEW q \in Relays, Send(q)
      PROVE  relay'[p] = relay[p] \/ Send(p)
  BY <1>4 DEF Send, Becomes, TypeOK
<1>5. ASSUME NEW q \in Relays, NEW e \in Events, Confirm(q, e) \/ LoseConfirm(q, e)
      PROVE  relay'[p] = relay[p]
  BY <1>5 DEF Confirm, LoseConfirm, Becomes, TypeOK, Run
<1>6. CASE UNCHANGED relay
  BY <1>6
<1> QED BY <1>1, <1>2, <1>3, <1>4, <1>5, <1>6
        DEF Next, Proceed, Insert, Elapse, Cleanup, Scan, Timeout, Mark, BackOff, NextRow,
            Refuse, BackOffFails, Crash, vars

\* A channel loses an event only to RabbitMQ, which has it then, or to a fault of the
\* channel's own run, which no longer waits.
LEMMA ChannelLoses ==
  ASSUME TypeOK, [Next]_vars, NEW p \in Relays, NEW e \in Events,
         channel[p][e] > 0, ~ channel'[p][e] > 0
  PROVE  \/ e \in accepted' /\ ~ (relay'[p].pc = "wait" /\ relay'[p] = relay[p]
                                  /\ Current(p) = e)
         \/ faults' = faults + 1 /\ relay'[p].pc # "wait"
<1> USE DEF TypeOK
<1>1. ASSUME NEW q \in Relays, Send(q) PROVE FALSE
  <2>1. channel' = [channel EXCEPT ![q][Current(q)] = @ + 1] /\ Current(q) \in Events
    BY <1>1 DEF Send
  <2> DEFINE more == channel[q][Current(q)] + 1
  <2>2. channel' = [channel EXCEPT ![q][Current(q)] = more] /\ more \in Nat /\ more > 0
    BY <2>1
  <2> HIDE DEF more
  <2>3. channel'[p][e] = channel[p][e] \/ channel'[p][e] = more
    BY <2>1, <2>2
  <2> QED BY <2>2, <2>3
<1>2. ASSUME NEW q \in Relays, Refuse(q)
      PROVE  faults' = faults + 1 /\ relay'[p].pc # "wait"
  <2>1. q = p
    BY <1>2 DEF Refuse
  <2> QED BY <1>2, <2>1 DEF Refuse, Failed, Becomes, Run
<1>3. ASSUME NEW q \in Relays, Crash(q)
      PROVE  faults' = faults + 1 /\ relay'[p].pc # "wait"
  <2>1. q = p
    BY <1>3 DEF Crash
  <2> QED BY <1>3, <2>1 DEF Crash, Becomes, Idle
<1>4. ASSUME NEW q \in Relays, NEW f \in Events, Confirm(q, f)
      PROVE  e \in accepted' /\ ~ (relay'[p].pc = "wait" /\ relay'[p] = relay[p]
                                   /\ Current(p) = e)
  <2> DEFINE less == channel[q][f] - 1
  <2>1. channel' = [channel EXCEPT ![q][f] = less] /\ less \in Nat
    BY <1>4 DEF Confirm
  <2> HIDE DEF less
  <2>2. q = p /\ f = e /\ channel'[p][e] = less
    BY <2>1
  <2>3. channel[p][e] = 1
    BY <2>2 DEF less
  <2>4. e \in accepted'
    BY <1>4, <2>2 DEF Confirm, Accept
  <2>5. relay[p].pc = "wait" /\ Current(p) = e => relay'[p].pc = "send"
    <3> SUFFICES ASSUME relay[p].pc = "wait", Current(p) = e PROVE relay'[p].pc = "send"
      OBVIOUS
    <3> DEFINE run == [relay[p] EXCEPT !.pc = "send", !.next = @ + 1]
    <3>1. relay' = [relay EXCEPT ![p] = run]
      BY <1>4, <2>2, <2>3 DEF Confirm, Becomes
    <3>2. run.pc = "send"
      BY DEF Run
    <3> HIDE DEF run
    <3> QED BY <3>1, <3>2
  <2> QED BY <2>4, <2>5
<1>5. CASE UNCHANGED channel
  BY <1>5
<1> QED BY <1>1, <1>2, <1>3, <1>4, <1>5
        DEF Next, Proceed, Insert, Elapse, Cleanup, Scan, Timeout, Mark, BackOff,
            BackOffFails, LoseConfirm, vars

LEMMA WaitsInductive ==
  ASSUME IInv, WaitsKept, [Next]_vars
  PROVE  WaitsKept'
<1> SUFFICES ASSUME NEW p \in Relays, relay'[p].pc = "wait"
             PROVE  Current(p)' \in Events /\ channel'[p][Current(p)'] > 0
  BY DEF WaitsKept
<1>1. TypeOK
  BY DEF IInv
<1>2. CASE relay'[p] = relay[p]
  <2>1. Current(p)' = Current(p) /\ Current(p) \in Events /\ channel[p][Current(p)] > 0
    BY <1>2 DEF WaitsKept, Current
  <2> QED BY <1>1, <1>2, <2>1, ChannelLoses
<1>3. CASE Send(p)
  <2>1. /\ channel' = [channel EXCEPT ![p][Current(p)] = @ + 1]
        /\ Current(p) \in Events /\ Becomes(p, [relay[p] EXCEPT !.pc = "wait"])
    BY <1>3 DEF Send
  <2>2. Current(p)' = Current(p)
    BY <1>1, <2>1 DEF Current, Becomes, TypeOK, Run
  <2> DEFINE more == channel[p][Current(p)] + 1
  <2>3. channel' = [channel EXCEPT ![p][Current(p)] = more] /\ more > 0
    BY <1>1, <2>1 DEF TypeOK
  <2> HIDE DEF more
  <2>4. channel'[p][Current(p)] = more
    BY <1>1, <2>1, <2>3 DEF TypeOK
  <2> QED BY <2>1, <2>2, <2>3, <2>4
<1> QED BY <1>1, <1>2, <1>3, BeginsToWait

\* What is kept stays so while no fault happens, and faults are never forgotten.
LEMMA KeptStays ==
  ASSUME TypeOK, [Next]_vars, faults' = 0
  PROVE  faults = 0 /\ \A e \in Events : Kept(e) => Kept(e)'
<1>1. faults' = faults \/ faults' = faults + 1
  BY DEF Next, Proceed, Insert, Elapse, Cleanup, Scan, Send, Timeout, Mark, BackOff,
         Refuse, BackOffFails, Crash, Confirm, LoseConfirm, vars
<1>2. faults \in Nat
  BY LimitsAssumption DEF TypeOK
<1>3. faults = 0 /\ faults' # faults + 1
  BY <1>1, <1>2
<1>4. accepted \subseteq accepted'
  BY DEF Next, Proceed, Insert, Elapse, Cleanup, Scan, Send, Timeout, Mark, BackOff,
         Refuse, BackOffFails, Crash, Confirm, LoseConfirm, Accept, vars
<1>5. ASSUME NEW e \in Events, NEW p \in Relays, channel[p][e] > 0
      PROVE  Kept(e)'
  BY <1>3, <1>5, ChannelLoses DEF Kept
<1> QED BY <1>3, <1>4, <1>5 DEF Kept

\* A run fails at a row only after its first event, if the row has one, is kept.
LEMMA FailedKept ==
  ASSUME IInv, WaitsKept, NEW p \in Relays, Timeout(p) \/ Mark(p),
         NEW e \in Events, e[2] = 1, e[1] = relay[p].row
  PROVE  Kept(e)
<1>1. relay[p].pc # "idle" /\ TypeOK /\ RunsKnow
  BY DEF Timeout, Mark, IInv
<1>2. /\ relay[p].next \in Nat /\ relay[p].next >= 1
      /\ \A k \in Nat : 1 <= k /\ k < relay[p].next => <<relay[p].row, k>> \in accepted
  BY <1>1, AtHand
<1>3. e = <<relay[p].row, 1>>
  BY EventFacts
<1>4. CASE relay[p].next = 1
  <2>1. Current(p) = e
    BY <1>3, <1>4 DEF Current
  <2> QED BY <2>1 DEF Timeout, Mark, WaitsKept, Kept
<1>5. CASE relay[p].next > 1
  BY <1>2, <1>3, <1>5 DEF Kept
<1> QED BY <1>2, <1>4, <1>5

LEMMA FirstEventsInductive ==
  ASSUME IInv, WaitsKept, FirstEventsKept, [Next]_vars
  PROVE  FirstEventsKept'
<1> SUFFICES ASSUME faults' = 0, NEW e \in Events, e[2] = 1, failures'[e[1]] > 0
             PROVE  Kept(e)'
  BY DEF FirstEventsKept
<1>1. TypeOK /\ e[1] \in Rows
  BY EventFacts DEF IInv
<1>2. faults = 0 /\ (Kept(e) => Kept(e)')
  BY <1>1, KeptStays
<1>3. CASE failures'[e[1]] = failures[e[1]]
  BY <1>2, <1>3 DEF FirstEventsKept
<1>4. CASE failures'[e[1]] # failures[e[1]]
  <2>1. PICK p \in Relays : (Timeout(p) \/ Mark(p) \/ Refuse(p)) /\ Failed(p)
    BY <1>4 DEF Next, Proceed, Insert, Elapse, Cleanup, Scan, Send, Timeout, Mark, BackOff,
                Refuse, BackOffFails, Crash, Confirm, LoseConfirm, vars
  <2>2. ~ Refuse(p)
    BY <1>1, <1>2, LimitsAssumption DEF Refuse
  <2>3. e[1] = relay[p].row
    BY <1>1, <1>4, <2>1 DEF Failed, TypeOK
  <2> QED BY <1>2, <2>1, <2>2, <2>3, FailedKept
<1> QED BY <1>3, <1>4

LEMMA KeptInvariant == Spec => []KInv
<1>1. Init => KInv
  <2> SUFFICES ASSUME Init PROVE KInv
    OBVIOUS
  <2>1. \A p \in Relays : relay[p].pc = "idle"
    BY DEF Init, Idle
  <2>2. \A r \in Rows : failures[r] = 0
    BY DEF Init
  <2>3. WaitsKept
    BY <2>1 DEF WaitsKept
  <2>4. FirstEventsKept
    BY <2>2, EventFacts DEF FirstEventsKept
  <2> QED BY <2>3, <2>4, InitInv DEF KInv
<1>2. KInv /\ [Next]_vars => KInv'
  BY NextInv, WaitsInductive, FirstEventsInductive DEF KInv
<1> QED BY <1>1, <1>2, PTL DEF Spec

\* While no process dies, nothing is refused and no catch block fails, a row's first
\* event is accepted or on its way from the first failure of the row's relay on,
\* although the relay itself has given the event up.
THEOREM FirstEventsNotLost == Spec => []FirstEventsKept
<1>1. KInv => FirstEventsKept
  BY DEF KInv
<1> QED BY <1>1, KeptInvariant, PTL

\* So rows that stand for one event each, as those of reservation_events_outbox and
\* sales_outbox do, lose none: only a second event can be given up unsent.
THEOREM SingleEventsNotLost ==
  ASSUME MaxRetry > 0, \A r \in Rows : Sends[r] <= 1
  PROVE  Spec => [](faults = 0 => NoEventLost)
<1>1. KInv => (faults = 0 => NoEventLost)
  <2> SUFFICES ASSUME KInv, faults = 0, NEW r \in Rows, retry[r] >= MaxRetry,
                      NEW e \in EventsOf(r)
               PROVE  Kept(e)
    BY DEF NoEventLost, Kept
  <2>1. e \in Events /\ e[1] = r /\ e[2] = 1
    BY EventFacts, RowsAssumption DEF EventsOf
  <2>2. failures[r] > 0
    <3>1. retry[r] \in Nat /\ failures[r] \in Nat /\ retry[r] <= failures[r]
      BY DEF KInv, IInv, TypeOK, RetriesAreFailures
    <3> QED BY <3>1, LimitsAssumption
  <2> QED BY <2>1, <2>2 DEF KInv, FirstEventsKept
<1> QED BY <1>1, KeptInvariant, PTL
=============================================================================
