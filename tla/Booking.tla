------------------------------ MODULE Booking ------------------------------
(***************************************************************************)
(* Reservation, cancellation, expiration, payment and administration of    *)
(* the seats of one session, as concurrent PostgreSQL transactions.        *)
(*                                                                         *)
(* Every handler of the reservations and sales modules runs one READ       *)
(* COMMITTED transaction; a process of this module is one such handler (or *)
(* one run of the expiration job) and an action is one statement of it     *)
(* that takes a row lock or reads a row another handler may be changing,   *)
(* with the statements that follow it and touch only rows it has locked.   *)
(* The tables hold committed rows only: what a transaction has written     *)
(* shows when it commits, and Fail drops it.                               *)
(*                                                                         *)
(* PostgreSQL is modelled by what the handlers rely on:                    *)
(*   - UPDATE ... WHERE id AND status looks at the committed row first: a  *)
(*     row that does not match is not waited for; one that matches and is  *)
(*     locked is waited for and looked at again;                           *)
(*   - SELECT ... FOR UPDATE by id waits whatever the row's status is;     *)
(*   - an INSERT into a unique index waits for a transaction that is       *)
(*     changing a conflicting row, and fails on a conflicting row that no  *)
(*     transaction has written (a row that is merely locked counts);       *)
(*   - a row lock is held until its transaction ends.                      *)
(*                                                                         *)
(* Abstracted: the session (one, ACTIVE, with enough seats), the caller    *)
(* (always the owner: anybody else is refused before anything is written), *)
(* seat versions, identifiers and prices.  A request that a check refuses  *)
(* on its first lock changes nothing and is a stuttering step.             *)
(*                                                                         *)
(* StartCreateUnsorted, InsertUnchecked, LockForSaleUnchecked,             *)
(* CommitSaleUnsaved, CommitSaleMixedUp, ReleaseEventsAlways,              *)
(* CommitReleaseKeepingSeat, DueLater and LockExpiredUnchecked are faulty  *)
(* variants of the definitions that follow them, which Spec does not use.  *)
(***************************************************************************)
EXTENDS Naturals, Sequences, FiniteSets

CONSTANTS
  Seats,         \* the seats of the session, by position in the order of their ids
  Clients,       \* concurrent HTTP requests
  Jobs,          \* concurrent runs of the expiration job
  AdminStatuses, \* the statuses an administrator sets (ADMIN_ALLOWED_STATUSES)
  MaxGen,        \* bound: reservations ever made for one seat
  MaxSeatIds,    \* ArrayMaxSize of the request's seatIds
  BatchSize,     \* BATCH_SIZE: reservations one run of the job takes
  TTL,           \* RESERVATION_TTL_MS, in ticks
  MaxTime        \* bound: last tick of the clock

ASSUME SeatsAssumption  == Seats \subseteq Nat
ASSUME ProcsAssumption  == Clients \cap Jobs = {}
ASSUME AdminAssumption  == AdminStatuses \subseteq {"available", "blocked", "maintenance"}
ASSUME BoundsAssumption == /\ MaxGen \in Nat /\ MaxSeatIds \in Nat /\ BatchSize \in Nat
                           /\ TTL \in Nat /\ MaxTime \in Nat

VARIABLES
  seat,      \* table seats: the committed status of each seat
  res,       \* table reservations: committed rows, by reservation id
  sales,     \* table sales: the reservations that have a sale row
  outbox,    \* the outbox tables: how many rows of each event a reservation has
  now,       \* the application's clock
  tx,        \* the transaction each process runs
  overridden \* history: the seats an administrator has written while they were held

vars == <<seat, res, sales, outbox, now, tx, overridden>>

Procs == Clients \cup Jobs

SeatStatus == {"available", "reserved", "sold", "blocked", "maintenance"}

\* The column's values; "none" is a row not inserted yet, "deleted" one deleted.
ReservationStatus ==
  {"none", "pending", "confirmed", "expired", "cancelled", "deleted"}

\* The n-th reservation ever made for a seat: the database makes a fresh id of it.
Rids == Seats \X (1 .. MaxGen)
SeatOf(r) == r[1]
NoRow == <<0, 0>>

Times == 0 .. MaxTime
Reservation == [status: ReservationStatus, expiresAt: Times]

\* reservation_events_outbox holds "created"; reservation_expiration_outbox holds
\* "expired" and "cancelled" (its reason), and "released" counts those of its rows
\* with seatReleased; sales_outbox holds "paid" (PaymentConfirmed).
Events == {"created", "expired", "cancelled", "released", "paid"}

\* The seatIds of a request: the validation lets one name a seat twice.
SeatIdLists == UNION {[1 .. n -> Seats] : n \in 1 .. MaxSeatIds}

PCs == {"idle", "reserve", "insert", "commitCreate",
        "saleSeat", "commitSale",
        "releaseSeat", "commitRelease", "commitTouch",
        "expire", "adminWrite"}

\* todo: the seats still to reserve, in order; made: the reservations inserted;
\* seats: the seat rows locked and written; row: the reservation row locked; to:
\* the status it is to get; batch: what the job has still to look at.
Tx == [pc: PCs, todo: Seq(Seats), made: SUBSET Rids, expiresAt: Times,
       seats: SUBSET Seats, row: Rids \cup {NoRow},
       to: ReservationStatus \cup SeatStatus, batch: SUBSET Rids]

NoTx == [pc |-> "idle", todo |-> << >>, made |-> {}, expiresAt |-> 0,
         seats |-> {}, row |-> NoRow, to |-> "none", batch |-> {}]

Init ==
  /\ seat = [s \in Seats |-> "available"]
  /\ res = [r \in Rids |-> [status |-> "none", expiresAt |-> 0]]
  /\ sales = {}
  /\ outbox = [r \in Rids |-> [e \in Events |-> 0]]
  /\ now = 0
  /\ tx = [p \in Procs |-> NoTx]
  /\ overridden = {}

tables == <<seat, res, sales, outbox, overridden>>

-----------------------------------------------------------------------------
(***************************************************************************)
(* Rows, locks and indexes                                                 *)
(***************************************************************************)
PendingOn(s) == {r \in Rids : SeatOf(r) = s /\ res[r].status = "pending"}

\* No other transaction has locked the seat row.
SeatFree(p, s) == \A q \in Procs \ {p} : s \notin tx[q].seats

\* No other transaction has locked the reservation row.
RowFree(p, r) == \A q \in Procs \ {p} : tx[q].row # r

\* q has written reservation row r and not committed: the expiration writes it
\* before the seat, the other handlers after.
Writing(q, r) ==
  /\ tx[q].row = r
  /\ \/ tx[q].pc \in {"commitSale", "commitRelease", "commitTouch"}
     \/ tx[q].pc = "releaseSeat" /\ tx[q].to = "expired"

\* The partial unique index on the pending reservation of a seat makes an insert
\* wait for q.
IndexWait(q, s) == \E r \in PendingOn(s) : Writing(q, r)

\* The id of the next reservation of a seat.
NextId(r) ==
  /\ res[r].status = "none"
  /\ \A n \in 1 .. MaxGen : n < r[2] => res[<<SeatOf(r), n>>].status # "none"

\* Statuses AVAILABLE, RESERVED and SOLD tell who holds the seat; RESERVED and
\* SOLD are the reservation and payment flow's.
Held == {"reserved", "sold"}

\* What a process does when its transaction has ended: the job looks at the rest of
\* its batch, a request is answered.
Resume(batch) == IF batch = {} THEN NoTx
                 ELSE [NoTx EXCEPT !.pc = "expire", !.batch = batch]

Becomes(p, t) == tx' = [tx EXCEPT ![p] = t]

CountEvents(r, kinds) ==
  outbox' = [outbox EXCEPT ![r] =
              [e \in Events |-> IF e \in kinds THEN @[e] + 1 ELSE @[e]]]

-----------------------------------------------------------------------------
(***************************************************************************)
(* CreateReservationsUseCase                                               *)
(***************************************************************************)
Ascending(ids) == \A i, j \in 1 .. Len(ids) : i <= j => ids[i] <= ids[j]

StartCreateUnsorted(p) ==
  /\ tx[p].pc = "idle"
  /\ now + TTL \in Times
  /\ \E ids \in SeatIdLists :
       Becomes(p, [NoTx EXCEPT !.pc = "reserve", !.todo = ids,
                               !.expiresAt = now + TTL])
  /\ UNCHANGED <<tables, now>>

\* The request's seats are taken in ascending order, whatever order it names them
\* in, and expiresAt is computed before any of them is locked.
StartCreate(p) ==
  /\ tx[p].pc = "idle"
  /\ now + TTL \in Times
  /\ \E ids \in SeatIdLists :
       /\ Ascending(ids)
       /\ Becomes(p, [NoTx EXCEPT !.pc = "reserve", !.todo = ids,
                                  !.expiresAt = now + TTL])
  /\ UNCHANGED <<tables, now>>

\* The loop's conditional UPDATE.  A seat that is not AVAILABLE (one the request
\* names for the second time is RESERVED by the request itself), or, to bound the
\* model, one whose ids are used up, fails the whole request.
ReserveSeat(p) ==
  /\ tx[p].pc = "reserve"
  /\ LET s == Head(tx[p].todo)
         matches == /\ seat[s] = "available" /\ s \notin tx[p].seats
                    /\ \E r \in Rids : SeatOf(r) = s /\ NextId(r)
     IN \/ /\ matches
           /\ SeatFree(p, s)
           /\ Becomes(p, [tx[p] EXCEPT !.pc = "insert", !.seats = @ \cup {s}])
        \/ /\ ~ matches
           /\ Becomes(p, NoTx)
  /\ UNCHANGED <<tables, now>>

AfterInsert(p) == IF Tail(tx[p].todo) = << >> THEN "commitCreate" ELSE "reserve"

InsertUnchecked(p) ==
  /\ tx[p].pc = "insert"
  /\ \E r \in Rids :
       /\ SeatOf(r) = Head(tx[p].todo) /\ NextId(r)
       /\ Becomes(p, [tx[p] EXCEPT !.pc = AfterInsert(p), !.todo = Tail(@),
                                   !.made = @ \cup {r}])
  /\ UNCHANGED <<tables, now>>

\* The INSERT of the reservation, under the partial unique index, and of its
\* outbox row.
InsertReservation(p) ==
  /\ tx[p].pc = "insert"
  /\ LET s == Head(tx[p].todo)
     IN /\ \A q \in Procs \ {p} : ~ IndexWait(q, s)
        /\ \/ /\ PendingOn(s) = {}
              /\ \E r \in Rids :
                   /\ SeatOf(r) = s /\ NextId(r)
                   /\ Becomes(p, [tx[p] EXCEPT !.pc = AfterInsert(p), !.todo = Tail(@),
                                               !.made = @ \cup {r}])
           \/ /\ PendingOn(s) # {}
              /\ Becomes(p, NoTx)
  /\ UNCHANGED <<tables, now>>

CommitCreate(p) ==
  /\ tx[p].pc = "commitCreate"
  /\ seat' = [s \in Seats |-> IF s \in tx[p].seats THEN "reserved" ELSE seat[s]]
  /\ res' = [r \in Rids |->
               IF r \in tx[p].made
               THEN [status |-> "pending", expiresAt |-> tx[p].expiresAt]
               ELSE res[r]]
  /\ outbox' = [r \in Rids |->
                  IF r \in tx[p].made THEN [outbox[r] EXCEPT !["created"] = @ + 1]
                  ELSE outbox[r]]
  /\ Becomes(p, NoTx)
  /\ UNCHANGED <<sales, now, overridden>>

-----------------------------------------------------------------------------
(***************************************************************************)
(* CreateSalesUseCase                                                      *)
(***************************************************************************)

LockForSaleUnchecked(p) ==
  /\ tx[p].pc = "idle"
  /\ \E r \in Rids :
       /\ RowFree(p, r)
       /\ res[r].status # "none"
       /\ now <= res[r].expiresAt
       /\ Becomes(p, [NoTx EXCEPT !.pc = "saleSeat", !.row = r,
                                  !.to = "confirmed"])
  /\ UNCHANGED <<tables, now>>

\* SELECT ... FOR UPDATE of the reservation, then its checks.  A reservation can
\* still be paid at the very instant it expires.
LockForSale(p) ==
  /\ tx[p].pc = "idle"
  /\ \E r \in Rids :
       /\ RowFree(p, r)
       /\ res[r].status = "pending"
       /\ now <= res[r].expiresAt
       /\ Becomes(p, [NoTx EXCEPT !.pc = "saleSeat", !.row = r,
                                  !.to = "confirmed"])
  /\ UNCHANGED <<tables, now>>

\* SELECT ... FOR UPDATE of the seat, its check, the writes and the INSERT of the
\* sale, under the unique index on the seats sold.
SellSeat(p) ==
  /\ tx[p].pc = "saleSeat"
  /\ LET s == SeatOf(tx[p].row)
         sellable == /\ seat[s] = "reserved"
                     /\ \A r \in sales : SeatOf(r) # s
     IN /\ SeatFree(p, s)
        /\ \/ /\ sellable
              /\ Becomes(p, [tx[p] EXCEPT !.pc = "commitSale", !.seats = {s}])
           \/ /\ ~ sellable
              /\ Becomes(p, NoTx)
  /\ UNCHANGED <<tables, now>>

CommitSaleUnsaved(p) ==
  /\ tx[p].pc = "commitSale"
  /\ LET r == tx[p].row
     IN /\ res' = [res EXCEPT ![r].status = "confirmed"]
        /\ sales' = sales \cup {r}
        /\ CountEvents(r, {"paid"})
  /\ Becomes(p, NoTx)
  /\ UNCHANGED <<seat, now, overridden>>

CommitSaleMixedUp(p) ==
  /\ tx[p].pc = "commitSale"
  /\ LET r == tx[p].row
     IN /\ res' = [res EXCEPT ![r].status = tx[p].to]
        /\ seat' = [seat EXCEPT ![SeatOf(r)] = tx[p].to]
        /\ sales' = sales \cup {r}
        /\ CountEvents(r, {"paid"})
  /\ Becomes(p, NoTx)
  /\ UNCHANGED <<now, overridden>>

CommitSale(p) ==
  /\ tx[p].pc = "commitSale"
  /\ LET r == tx[p].row
     IN /\ res' = [res EXCEPT ![r].status = tx[p].to]
        /\ seat' = [seat EXCEPT ![SeatOf(r)] = "sold"]
        /\ sales' = sales \cup {r}
        /\ CountEvents(r, {"paid"})
  /\ Becomes(p, NoTx)
  /\ UNCHANGED <<now, overridden>>

-----------------------------------------------------------------------------
(***************************************************************************)
(* DeleteReservationsUseCase, UpdateReservationsUseCase and                *)
(* ExpireReservationsUseCase: the three ways a pending reservation gives   *)
(* its seat back                                                           *)
(***************************************************************************)

\* DELETE /reservations/:id and PATCH to CANCELLED, up to the checks on the
\* reservation they lock.
LockForRelease(p) ==
  /\ tx[p].pc = "idle"
  /\ \E r \in Rids, to \in {"deleted", "cancelled"} :
       /\ RowFree(p, r)
       /\ res[r].status = "pending"
       /\ Becomes(p, [NoTx EXCEPT !.pc = "releaseSeat", !.row = r,
                                  !.to = to])
  /\ UNCHANGED <<tables, now>>

\* PATCH with no status: the row is locked and rewritten as it was.
LockForTouch(p) ==
  /\ tx[p].pc = "idle"
  /\ \E r \in Rids :
       /\ RowFree(p, r)
       /\ res[r].status \notin {"none", "deleted"}
       /\ Becomes(p, [NoTx EXCEPT !.pc = "commitTouch", !.row = r])
  /\ UNCHANGED <<tables, now>>

CommitTouch(p) ==
  /\ tx[p].pc = "commitTouch"
  /\ Becomes(p, NoTx)
  /\ UNCHANGED <<tables, now>>

\* The conditional UPDATE that gives the seat back if it is still RESERVED, and
\* the INSERT of the expiration event.
ReleaseSeat(p) ==
  /\ tx[p].pc = "releaseSeat"
  /\ LET s == SeatOf(tx[p].row)
     IN \/ /\ seat[s] = "reserved"
           /\ SeatFree(p, s)
           /\ Becomes(p, [tx[p] EXCEPT !.pc = "commitRelease", !.seats = {s}])
        \/ /\ seat[s] # "reserved"
           /\ Becomes(p, [tx[p] EXCEPT !.pc = "commitRelease"])
  /\ UNCHANGED <<tables, now>>

ReleaseEventsAlways(p) ==
  {IF tx[p].to = "expired" THEN "expired" ELSE "cancelled", "released"}

\* What the expiration event of a reservation says.
ReleaseEvents(p) ==
  (IF tx[p].to = "expired" THEN {"expired"} ELSE {"cancelled"})
    \cup (IF tx[p].seats # {} THEN {"released"} ELSE {})

CommitReleaseKeepingSeat(p) ==
  /\ tx[p].pc = "commitRelease"
  /\ res' = [res EXCEPT ![tx[p].row].status = tx[p].to]
  /\ CountEvents(tx[p].row, ReleaseEvents(p))
  /\ Becomes(p, Resume(tx[p].batch))
  /\ UNCHANGED <<seat, sales, now, overridden>>

CommitRelease(p) ==
  /\ tx[p].pc = "commitRelease"
  /\ res' = [res EXCEPT ![tx[p].row].status = tx[p].to]
  /\ seat' = [s \in Seats |-> IF s \in tx[p].seats THEN "available" ELSE seat[s]]
  /\ CountEvents(tx[p].row, ReleaseEvents(p))
  /\ Becomes(p, Resume(tx[p].batch))
  /\ UNCHANGED <<sales, now, overridden>>

DueLater == {r \in Rids : res[r].status = "pending" /\ res[r].expiresAt > now}

Due == {r \in Rids : res[r].status = "pending" /\ res[r].expiresAt <= now}

\* The rows of R that come first by expiresAt.
Earliest(R) == {r \in R : \A other \in R : res[r].expiresAt <= res[other].expiresAt}

\* The job's query, outside any transaction: the earliest BatchSize reservations
\* due.
ScanExpired(p) ==
  /\ tx[p].pc = "idle"
  /\ \E batch \in (SUBSET Due) \ {{}} :
       /\ Cardinality(batch) <= BatchSize
       /\ \A r \in Due \ batch :
            /\ Cardinality(batch) = BatchSize
            /\ \A b \in batch : res[b].expiresAt <= res[r].expiresAt
       /\ Becomes(p, [NoTx EXCEPT !.pc = "expire", !.batch = batch])
  /\ UNCHANGED <<tables, now>>

LockExpiredUnchecked(p) ==
  /\ tx[p].pc = "expire"
  /\ \E r \in Earliest(tx[p].batch) :
       /\ RowFree(p, r)
       /\ Becomes(p, [tx[p] EXCEPT !.pc = "releaseSeat", !.row = r,
                                   !.to = "expired", !.batch = @ \ {r}])
  /\ UNCHANGED <<tables, now>>

\* SELECT ... FOR UPDATE of the next reservation if it is still pending; one that
\* no longer is, is skipped.
LockExpired(p) ==
  /\ tx[p].pc = "expire"
  /\ \E r \in Earliest(tx[p].batch) :
       \/ /\ res[r].status = "pending"
          /\ RowFree(p, r)
          /\ Becomes(p, [tx[p] EXCEPT !.pc = "releaseSeat", !.row = r,
                                      !.to = "expired", !.batch = @ \ {r}])
       \/ /\ res[r].status # "pending"
          /\ Becomes(p, Resume(tx[p].batch \ {r}))
  /\ UNCHANGED <<tables, now>>

-----------------------------------------------------------------------------
(***************************************************************************)
(* UpdateSeatsUseCase                                                      *)
(***************************************************************************)

\* findOne, and the SELECT with which save decides whether there is anything to
\* write; no lock is taken.
ReadSeatForUpdate(p) ==
  /\ tx[p].pc = "idle"
  /\ \E s \in Seats, to \in AdminStatuses :
       /\ seat[s] # to
       /\ Becomes(p, [NoTx EXCEPT !.pc = "adminWrite", !.todo = <<s>>,
                                  !.to = to])
  /\ UNCHANGED <<tables, now>>

\* save's UPDATE of the seat by id, whatever its status has become.
WriteSeat(p) ==
  /\ tx[p].pc = "adminWrite"
  /\ LET s == Head(tx[p].todo)
     IN /\ SeatFree(p, s)
        /\ seat' = [seat EXCEPT ![s] = tx[p].to]
        /\ overridden' = IF seat[s] \in Held THEN overridden \cup {s} ELSE overridden
  /\ Becomes(p, NoTx)
  /\ UNCHANGED <<res, sales, outbox, now>>

-----------------------------------------------------------------------------
(***************************************************************************)
(* Failures, time and the specification                                    *)
(***************************************************************************)

\* A statement fails, the process dies or PostgreSQL aborts the transaction: it
\* is rolled back.  A job that survives goes on with the rest of its batch.
Fail(p) ==
  /\ tx[p].pc # "idle"
  /\ \/ Becomes(p, NoTx)
     \/ /\ tx[p].row # NoRow
        /\ Becomes(p, Resume(tx[p].batch))
     \/ \E r \in Earliest(tx[p].batch) :
          /\ tx[p].pc = "expire"
          /\ Becomes(p, Resume(tx[p].batch \ {r}))
  /\ UNCHANGED <<tables, now>>

Tick ==
  /\ now < MaxTime
  /\ now' = now + 1
  /\ UNCHANGED <<tables, tx>>

\* A transaction under way takes its next step.
Proceed(p) ==
  \/ ReserveSeat(p) \/ InsertReservation(p) \/ CommitCreate(p)
  \/ SellSeat(p) \/ CommitSale(p)
  \/ ReleaseSeat(p) \/ CommitRelease(p) \/ CommitTouch(p)
  \/ LockExpired(p)
  \/ WriteSeat(p)

Request(p) ==
  \/ StartCreate(p)
  \/ LockForSale(p)
  \/ LockForRelease(p)
  \/ LockForTouch(p)
  \/ ReadSeatForUpdate(p)

Next ==
  \/ \E p \in Clients : Request(p)
  \/ \E p \in Jobs : ScanExpired(p)
  \/ \E p \in Procs : Proceed(p) \/ Fail(p)
  \/ Tick

Spec == Init /\ [][Next]_vars

\* A transaction goes on, and is granted a row lock it keeps waiting for: PostgreSQL
\* queues them.  The scheduler starts the job again and again, and the job's
\* transactions do not fail for ever.
Fairness ==
  /\ WF_vars(Tick)
  /\ \A p \in Procs : SF_vars(Proceed(p))
  /\ \A p \in Jobs : WF_vars(ScanExpired(p)) /\ <>[][~ Fail(p)]_vars

FairSpec == Spec /\ Fairness

-----------------------------------------------------------------------------
(***************************************************************************)
(* Properties                                                              *)
(***************************************************************************)

\* The tables and the transactions have the shape of their declarations.
TypeOK ==
  /\ seat \in [Seats -> SeatStatus]
  /\ res \in [Rids -> Reservation]
  /\ sales \subseteq Rids
  /\ outbox \in [Rids -> [Events -> Nat]]
  /\ now \in Times
  /\ tx \in [Procs -> Tx]
  /\ overridden \subseteq Seats

\* No seat has two pending reservations or two sales, even when an administrator
\* makes a held seat available again behind the flow's back.
NoDoubleBooking ==
  /\ \A r1, r2 \in Rids : /\ SeatOf(r1) = SeatOf(r2)
                          /\ res[r1].status = "pending"
                          /\ res[r2].status = "pending"
                          => r1 = r2
  /\ \A r1, r2 \in sales : SeatOf(r1) = SeatOf(r2) => r1 = r2

\* A seat is RESERVED or SOLD only for somebody: RESERVED has a pending
\* reservation behind it, SOLD a sale.  No order of payment, cancellation,
\* expiration and administration leaves a seat held for nobody.
HeldSeatHasHolder ==
  \A s \in Seats :
    /\ seat[s] = "reserved" => PendingOn(s) # {}
    /\ seat[s] = "sold" => \E r \in sales : SeatOf(r) = s

\* A seat no administrator has overwritten while held is RESERVED as long as
\* its reservation is pending and SOLD once it is sold: the create, sale, cancel
\* and expire transactions never take a seat from each other.
HolderKeepsSeat ==
  \A r \in Rids :
    SeatOf(r) \notin overridden =>
      /\ res[r].status = "pending" => seat[SeatOf(r)] = "reserved"
      /\ r \in sales => seat[SeatOf(r)] = "sold"

\* The outbox says exactly once what happened to a reservation: one creation, one
\* outcome, the outcome its row has; and there is a sale exactly for CONFIRMED.
OutcomeOf(r) ==
  LET once(e, S) == outbox[r][e] = IF res[r].status \in S THEN 1 ELSE 0
  IN /\ once("created", ReservationStatus \ {"none"})
     /\ once("paid", {"confirmed"})
     /\ once("expired", {"expired"})
     /\ once("cancelled", {"cancelled", "deleted"})
     /\ outbox[r]["released"] <= outbox[r]["expired"] + outbox[r]["cancelled"]
     /\ r \in sales <=> res[r].status = "confirmed"

OutboxTellsOutcome == \A r \in Rids : OutcomeOf(r)

\* What the transactions under way rely on, statement by statement.  A row lock has
\* one owner, and what a transaction has read of the rows it locks stays true until
\* it commits: the reservation is still pending, the seat still AVAILABLE to a
\* request that is reserving it and RESERVED to a sale, nobody else has a pending
\* reservation of a seat being reserved nor a sale of a seat being sold, and a seat
\* that an ending reservation found not to be RESERVED has not become so.
TxReliesOn(t) ==
  LET reserved == {SeatOf(r) : r \in t.made}
      building(S) ==
        /\ t.seats = S
        /\ \A s \in S : seat[s] = "available"
        /\ \A r \in t.made : res[r].status = "none" /\ PendingOn(SeatOf(r)) = {}
        /\ \A r1, r2 \in t.made : SeatOf(r1) = SeatOf(r2) => r1 = r2
      owning == t.row \in Rids /\ res[t.row].status = "pending"
      nothing == t.seats = {} /\ t.row = NoRow
  IN /\ t.pc \in {"idle", "expire"} => nothing
     /\ t.pc = "reserve" => building(reserved) /\ t.row = NoRow /\ t.todo # << >>
     /\ t.pc = "insert" =>
          /\ building(reserved \cup {Head(t.todo)})
          /\ t.row = NoRow /\ t.todo # << >> /\ Head(t.todo) \notin reserved
     /\ t.pc = "commitCreate" => building(reserved) /\ t.row = NoRow
     /\ t.pc = "saleSeat" => owning /\ t.seats = {} /\ t.to = "confirmed"
     /\ t.pc = "commitSale" =>
          /\ owning /\ t.seats = {SeatOf(t.row)} /\ t.to = "confirmed"
          /\ seat[SeatOf(t.row)] = "reserved"
          /\ \A r \in sales : SeatOf(r) # SeatOf(t.row)
     /\ t.pc \in {"releaseSeat", "commitRelease"} =>
          owning /\ t.to \in {"expired", "cancelled", "deleted"}
     /\ t.pc = "releaseSeat" => t.seats = {}
     /\ t.pc = "commitRelease" =>
          \/ t.seats = {} /\ seat[SeatOf(t.row)] # "reserved"
          \/ t.seats = {SeatOf(t.row)} /\ seat[SeatOf(t.row)] = "reserved"
     /\ t.pc = "commitTouch" => t.row \in Rids /\ t.seats = {}
     /\ t.pc = "adminWrite" => nothing /\ t.todo # << >> /\ t.to \in AdminStatuses

LocksExclusive ==
  \A p \in Procs : \A q \in Procs \ {p} :
    /\ tx[p].seats \cap tx[q].seats = {}
    /\ tx[p].row = tx[q].row => tx[p].row = NoRow

TransactionsIsolated == LocksExclusive /\ \A p \in Procs : TxReliesOn(tx[p])

\* p's next statement waits for a row, or an index entry, that q is holding.
WaitsFor(p, q) ==
  /\ p # q
  /\ \/ /\ tx[p].pc = "reserve"
        /\ seat[Head(tx[p].todo)] = "available"
        /\ Head(tx[p].todo) \in tx[q].seats
     \/ /\ tx[p].pc = "insert"
        /\ IndexWait(q, Head(tx[p].todo))
     \/ /\ tx[p].pc = "saleSeat"
        /\ SeatOf(tx[p].row) \in tx[q].seats
     \/ /\ tx[p].pc = "releaseSeat"
        /\ seat[SeatOf(tx[p].row)] = "reserved"
        /\ SeatOf(tx[p].row) \in tx[q].seats
     \/ /\ tx[p].pc = "expire"
        /\ \E r \in Earliest(tx[p].batch) : res[r].status = "pending" /\ tx[q].row = r
     \/ /\ tx[p].pc = "adminWrite"
        /\ Head(tx[p].todo) \in tx[q].seats

\* Transactions never wait for each other in a circle: the create transactions
\* lock seats in one order, and no transaction that has written a reservation waits
\* for a seat whose holder may be waiting for that reservation.
NoDeadlock ==
  \A S \in (SUBSET Procs) \ {{}} :
    \E p \in S : \A q \in S : ~ WaitsFor(p, q)

\* A reservation leaves PENDING once and for all, and only a pending one is
\* confirmed, expired, cancelled or deleted: a payment and an expiration of the
\* same reservation never both take effect.
OutcomeIsFinal ==
  [][\A r \in Rids :
       /\ res[r].status \notin {"none", "pending"} => res'[r].status = res[r].status
       /\ res[r].status = "none" => res'[r].status \in {"none", "pending"}]_vars

\* An event that says a seat was released is written in the step that makes the
\* seat AVAILABLE again, and in no other step.
ReleasedMeansFreed ==
  [][\A r \in Rids :
       outbox'[r]["released"] > outbox[r]["released"] =>
         /\ seat[SeatOf(r)] = "reserved"
         /\ seat'[SeatOf(r)] = "available"]_vars

\* Every request that starts gets an answer: no transaction is left waiting for a
\* lock for ever.
RequestsEndEventually ==
  \A p \in Clients : tx[p].pc # "idle" ~> tx[p].pc = "idle"

\* No reservation stays pending: it is paid, cancelled or deleted, or the job
\* expires it.
PendingEndsEventually ==
  \A r \in Rids : res[r].status = "pending" ~> res[r].status # "pending"
=============================================================================
