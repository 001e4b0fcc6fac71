--------------------------- MODULE BookingProofs ---------------------------
(***************************************************************************)
(* Booking's safety properties for any number of seats, requests and runs  *)
(* of the expiration job.  The inductive invariant adds to them what a     *)
(* transaction under way relies on (TransactionsIsolated): a commit writes *)
(* rows read several statements earlier, so each property needs the reads  *)
(* to be still true at the commit.                                         *)
(*                                                                         *)
(* The same invariant is what makes the transactions implement             *)
(* TicketSales: the commits are its steps, everything else stutters.       *)
(***************************************************************************)
EXTENDS BookingRefinement, TLAPS

IInv ==
  /\ TypeOK
  /\ TransactionsIsolated
  /\ NoDoubleBooking
  /\ HeldSeatHasHolder
  /\ HolderKeepsSeat
  /\ OutboxTellsOutcome

\* A reservation is of a seat of the session, and "no row" is none.
LEMMA RidFacts ==
  /\ \A r \in Rids : SeatOf(r) \in Seats
  /\ NoRow \notin Rids
BY BoundsAssumption DEF Rids, SeatOf, NoRow

\* A process without a transaction holds nothing.
LEMMA NoTxFacts ==
  /\ NoTx \in Tx
  /\ TxReliesOn(NoTx)
  /\ NoTx.seats = {}
  /\ NoTx.row = NoRow
<1>1. NoTx \in Tx
  BY BoundsAssumption DEF NoTx, Tx, PCs, Times, ReservationStatus
<1>2. QED
  BY <1>1 DEF NoTx, TxReliesOn

\* Neither does one that goes on with the rest of a batch.
LEMMA ResumeFacts ==
  ASSUME NEW batch \in SUBSET Rids
  PROVE  /\ Resume(batch) \in Tx
         /\ TxReliesOn(Resume(batch))
         /\ Resume(batch).seats = {}
         /\ Resume(batch).row = NoRow
<1>1. Resume(batch) \in Tx
  BY NoTxFacts DEF Resume, NoTx, Tx, PCs
<1>2. QED
  BY <1>1, NoTxFacts DEF Resume, NoTx, TxReliesOn

LEMMA InitInv == Init => IInv
<1> SUFFICES ASSUME Init PROVE IInv
  OBVIOUS
<1>1. TypeOK
  BY NoTxFacts, BoundsAssumption
  DEF Init, TypeOK, SeatStatus, Reservation, ReservationStatus, Times
<1>2. TransactionsIsolated
  BY NoTxFacts DEF Init, TransactionsIsolated, LocksExclusive
<1>3. NoDoubleBooking /\ HeldSeatHasHolder /\ HolderKeepsSeat
  BY DEF Init, NoDoubleBooking, HeldSeatHasHolder, HolderKeepsSeat
<1>4. OutboxTellsOutcome
  BY DEF Init, OutboxTellsOutcome, OutcomeOf, Events, ReservationStatus
<1>5. QED
  BY <1>1, <1>2, <1>3, <1>4 DEF IInv

\* A statement that only changes its own transaction, locks what nobody holds and
\* has read what it relies on, preserves the invariant.
LEMMA LocalStep ==
  ASSUME IInv, UNCHANGED tables, now' \in Times,
         NEW p \in Procs, NEW t \in Tx, Becomes(p, t),
         TxReliesOn(t),
         \A s \in t.seats : SeatFree(p, s),
         t.row = NoRow \/ RowFree(p, t.row)
  PROVE  IInv'
<1> USE DEF IInv, tables
<1>1. /\ \A q \in Procs \ {p} : tx'[q] = tx[q]
      /\ tx'[p] = t
  BY DEF Becomes, TypeOK
<1>2. TypeOK'
  BY DEF TypeOK, Becomes
<1>3. LocksExclusive'
  BY <1>1 DEF TransactionsIsolated, LocksExclusive, SeatFree, RowFree
<1>4. \A q \in Procs : TxReliesOn(tx[q])'
  <2>1. TxReliesOn(t)'
    BY DEF TxReliesOn, PendingOn
  <2>2. ASSUME NEW q \in Procs \ {p} PROVE TxReliesOn(tx[q])'
    BY <1>1 DEF TransactionsIsolated, TxReliesOn, PendingOn
  <2>3. QED
    BY <1>1, <2>1, <2>2 DEF TxReliesOn, PendingOn
<1>5. NoDoubleBooking' /\ HeldSeatHasHolder' /\ HolderKeepsSeat' /\ OutboxTellsOutcome'
  BY DEF NoDoubleBooking, HeldSeatHasHolder, HolderKeepsSeat, OutboxTellsOutcome, OutcomeOf, PendingOn
<1>6. QED
  BY <1>2, <1>3, <1>4, <1>5 DEF TransactionsIsolated

\* What the invariant says of one transaction.
LEMMA OwnTx ==
  ASSUME IInv, NEW p \in Procs
  PROVE  /\ tx[p] \in Tx
         /\ TxReliesOn(tx[p])
         /\ \A s \in tx[p].seats : SeatFree(p, s)
         /\ tx[p].row = NoRow \/ RowFree(p, tx[p].row)
BY DEF IInv, TypeOK, TransactionsIsolated, LocksExclusive, SeatFree, RowFree

\* A rollback, and the end of a transaction that wrote nothing.
LEMMA LocalEnd ==
  ASSUME IInv, UNCHANGED <<tables, now>>, NEW p \in Procs,
         NEW batch \in SUBSET Rids, Becomes(p, Resume(batch)) \/ Becomes(p, NoTx)
  PROVE  IInv'
<1>1. now' \in Times
  BY DEF IInv, TypeOK
<1>2. CASE Becomes(p, NoTx)
  BY <1>1, <1>2, NoTxFacts, LocalStep
<1>3. CASE Becomes(p, Resume(batch))
  BY <1>1, <1>3, ResumeFacts, LocalStep
<1>4. QED
  BY <1>2, <1>3

LEMMA StartCreateInv ==
  ASSUME IInv, NEW p \in Procs, StartCreate(p)
  PROVE  IInv'
<1>1. PICK ids \in SeatIdLists :
         Becomes(p, [NoTx EXCEPT !.pc = "reserve", !.todo = ids, !.expiresAt = now + TTL])
  BY DEF StartCreate
<1> DEFINE t == [NoTx EXCEPT !.pc = "reserve", !.todo = ids, !.expiresAt = now + TTL]
<1>2. ids \in Seq(Seats) /\ ids # << >>
  BY BoundsAssumption DEF SeatIdLists
<1>3. t \in Tx
  BY <1>2, NoTxFacts DEF StartCreate, NoTx, Tx, PCs
<1>4. TxReliesOn(t)
  BY <1>2 DEF TxReliesOn, NoTx
<1>5. t.seats = {} /\ t.row = NoRow
  BY DEF NoTx
<1>6. UNCHANGED tables /\ now' \in Times
  BY DEF StartCreate, IInv, TypeOK
<1> HIDE DEF t
<1>7. QED
  BY <1>1, <1>3, <1>4, <1>5, <1>6, LocalStep DEF t

LEMMA ReserveSeatInv ==
  ASSUME IInv, NEW p \in Procs, ReserveSeat(p)
  PROVE  IInv'
<1> DEFINE s == Head(tx[p].todo)
           t == [tx[p] EXCEPT !.pc = "insert", !.seats = @ \cup {s}]
<1>1. UNCHANGED <<tables, now>>
  BY DEF ReserveSeat
<1>2. CASE Becomes(p, NoTx)
  BY <1>1, <1>2, LocalEnd
<1>3. CASE /\ seat[s] = "available" /\ s \notin tx[p].seats
           /\ SeatFree(p, s)
           /\ Becomes(p, t)
  <2>1. /\ tx[p] \in Tx /\ TxReliesOn(tx[p]) /\ tx[p].pc = "reserve"
    BY OwnTx DEF ReserveSeat
  <2>2. /\ tx[p].todo # << >> /\ tx[p].todo \in Seq(Seats) /\ s \in Seats
    BY <2>1 DEF TxReliesOn, Tx
  <2>3. t \in Tx
    BY <2>1, <2>2 DEF Tx, PCs
  <2>4. TxReliesOn(t)
    BY <1>3, <2>1, <2>2 DEF TxReliesOn, Tx
  <2>5. /\ \A x \in t.seats : SeatFree(p, x)
        /\ t.row = NoRow \/ RowFree(p, t.row)
    BY <1>3, <2>1, OwnTx DEF Tx
  <2>6. now' \in Times /\ UNCHANGED tables
    BY <1>1 DEF IInv, TypeOK
  <2> HIDE DEF t
  <2>7. QED
    BY <1>3, <2>3, <2>4, <2>5, <2>6, LocalStep
<1>4. QED
  BY <1>2, <1>3 DEF ReserveSeat

LEMMA InsertReservationInv ==
  ASSUME IInv, NEW p \in Procs, InsertReservation(p)
  PROVE  IInv'
<1> DEFINE s == Head(tx[p].todo)
           t(r) == [tx[p] EXCEPT !.pc = AfterInsert(p), !.todo = Tail(@),
                                 !.made = @ \cup {r}]
<1>1. UNCHANGED <<tables, now>>
  BY DEF InsertReservation
<1>2. CASE Becomes(p, NoTx)
  BY <1>1, <1>2, LocalEnd
<1>3. ASSUME NEW r \in Rids, SeatOf(r) = s, NextId(r), PendingOn(s) = {}, Becomes(p, t(r))
      PROVE  IInv'
  <2>1. /\ tx[p] \in Tx /\ TxReliesOn(tx[p]) /\ tx[p].pc = "insert"
    BY OwnTx DEF InsertReservation
  <2>2. /\ tx[p].todo # << >> /\ tx[p].todo \in Seq(Seats) /\ Tail(tx[p].todo) \in Seq(Seats)
    BY <2>1 DEF TxReliesOn, Tx
  <2>3. t(r) \in Tx
    BY <2>1, <2>2 DEF Tx, PCs, AfterInsert
  <2>4. TxReliesOn(t(r))
    <3>1. res[r].status = "none"
      BY <1>3 DEF NextId
    <3>2. {SeatOf(x) : x \in t(r).made} = {SeatOf(x) : x \in tx[p].made} \cup {s}
      BY <1>3, <2>1 DEF Tx
    <3>3. /\ t(r).seats = tx[p].seats
          /\ tx[p].seats = {SeatOf(x) : x \in tx[p].made} \cup {s}
          /\ \A x \in tx[p].seats : seat[x] = "available"
          /\ t(r).row = NoRow
      BY <2>1 DEF Tx, TxReliesOn
    <3>4. /\ \A x \in t(r).made : res[x].status = "none" /\ PendingOn(SeatOf(x)) = {}
          /\ \A x, y \in t(r).made : SeatOf(x) = SeatOf(y) => x = y
      BY <1>3, <2>1, <3>1 DEF Tx, TxReliesOn
    <3>5. \/ t(r).pc = "commitCreate"
          \/ t(r).pc = "reserve" /\ t(r).todo # << >>
      BY <2>1, <2>2 DEF Tx, AfterInsert
    <3> HIDE DEF t, s
    <3>6. QED
      BY <3>2, <3>3, <3>4, <3>5 DEF TxReliesOn
  <2>5. /\ \A x \in t(r).seats : SeatFree(p, x)
        /\ t(r).row = NoRow \/ RowFree(p, t(r).row)
    BY <2>1, OwnTx DEF Tx
  <2>6. now' \in Times /\ UNCHANGED tables
    BY <1>1 DEF IInv, TypeOK
  <2> HIDE DEF t
  <2>7. QED
    BY <1>3, <2>3, <2>4, <2>5, <2>6, LocalStep
<1>4. QED
  BY <1>2, <1>3 DEF InsertReservation

\* A transaction that has just locked a reservation row and nothing else.
LEMMA LockRow ==
  ASSUME IInv, UNCHANGED <<tables, now>>, NEW p \in Procs, NEW t \in Tx, Becomes(p, t),
         t.row \in Rids, RowFree(p, t.row), t.seats = {},
         \/ t.pc = "saleSeat" /\ t.to = "confirmed" /\ res[t.row].status = "pending"
         \/ /\ t.pc = "releaseSeat" /\ t.to \in {"expired", "cancelled", "deleted"}
            /\ res[t.row].status = "pending"
         \/ t.pc = "commitTouch"
  PROVE  IInv'
<1>1. TxReliesOn(t)
  BY DEF TxReliesOn
<1>2. now' \in Times
  BY DEF IInv, TypeOK
<1>3. QED
  BY <1>1, <1>2, LocalStep

LEMMA LockForSaleInv ==
  ASSUME IInv, NEW p \in Procs, LockForSale(p)
  PROVE  IInv'
<1>1. PICK r \in Rids :
        /\ RowFree(p, r) /\ res[r].status = "pending"
        /\ Becomes(p, [NoTx EXCEPT !.pc = "saleSeat", !.row = r, !.to = "confirmed"])
  BY DEF LockForSale
<1> DEFINE t == [NoTx EXCEPT !.pc = "saleSeat", !.row = r, !.to = "confirmed"]
<1>2. /\ t \in Tx /\ t.row = r /\ t.seats = {}
      /\ t.pc = "saleSeat" /\ t.to = "confirmed"
  BY NoTxFacts DEF NoTx, Tx, PCs, ReservationStatus
<1>3. UNCHANGED <<tables, now>>
  BY DEF LockForSale
<1> HIDE DEF t
<1>4. QED
  BY <1>1, <1>2, <1>3, LockRow DEF t

LEMMA LockForReleaseInv ==
  ASSUME IInv, NEW p \in Procs, LockForRelease(p)
  PROVE  IInv'
<1>1. PICK r \in Rids, to \in {"deleted", "cancelled"} :
        /\ RowFree(p, r) /\ res[r].status = "pending"
        /\ Becomes(p, [NoTx EXCEPT !.pc = "releaseSeat", !.row = r, !.to = to])
  BY DEF LockForRelease
<1> DEFINE t == [NoTx EXCEPT !.pc = "releaseSeat", !.row = r, !.to = to]
<1>2. /\ t \in Tx /\ t.row = r /\ t.seats = {}
      /\ t.pc = "releaseSeat" /\ t.to = to
  BY NoTxFacts DEF NoTx, Tx, PCs, ReservationStatus
<1>3. UNCHANGED <<tables, now>>
  BY DEF LockForRelease
<1> HIDE DEF t
<1>4. QED
  BY <1>1, <1>2, <1>3, LockRow DEF t

LEMMA LockForTouchInv ==
  ASSUME IInv, NEW p \in Procs, LockForTouch(p)
  PROVE  IInv'
<1>1. PICK r \in Rids :
        /\ RowFree(p, r)
        /\ Becomes(p, [NoTx EXCEPT !.pc = "commitTouch", !.row = r])
  BY DEF LockForTouch
<1> DEFINE t == [NoTx EXCEPT !.pc = "commitTouch", !.row = r]
<1>2. t \in Tx /\ t.row = r /\ t.seats = {} /\ t.pc = "commitTouch"
  BY NoTxFacts DEF NoTx, Tx, PCs
<1>3. UNCHANGED <<tables, now>>
  BY DEF LockForTouch
<1> HIDE DEF t
<1>4. QED
  BY <1>1, <1>2, <1>3, LockRow DEF t

LEMMA LockExpiredInv ==
  ASSUME IInv, NEW p \in Procs, LockExpired(p)
  PROVE  IInv'
<1>1. tx[p] \in Tx /\ TxReliesOn(tx[p]) /\ tx[p].pc = "expire"
  BY OwnTx DEF LockExpired
<1>2. UNCHANGED <<tables, now>>
  BY DEF LockExpired
<1>3. ASSUME NEW r \in tx[p].batch, Becomes(p, Resume(tx[p].batch \ {r}))
      PROVE  IInv'
  <2>1. tx[p].batch \ {r} \in SUBSET Rids
    BY <1>1 DEF Tx
  <2>2. QED
    BY <1>2, <1>3, <2>1, LocalEnd
<1>4. ASSUME NEW r \in tx[p].batch, res[r].status = "pending", RowFree(p, r),
             Becomes(p, [tx[p] EXCEPT !.pc = "releaseSeat", !.row = r,
                                      !.to = "expired", !.batch = @ \ {r}])
      PROVE  IInv'
  <2> DEFINE t == [tx[p] EXCEPT !.pc = "releaseSeat", !.row = r,
                                !.to = "expired", !.batch = @ \ {r}]
  <2>1. /\ t \in Tx /\ t.row = r /\ r \in Rids
        /\ t.pc = "releaseSeat" /\ t.to = "expired"
    BY <1>1 DEF Tx, PCs, ReservationStatus
  <2>2. t.seats = {}
    BY <1>1 DEF Tx, TxReliesOn
  <2> HIDE DEF t
  <2>3. QED
    BY <1>2, <1>4, <2>1, <2>2, LockRow DEF t
<1>5. QED
  BY <1>3, <1>4 DEF LockExpired, Earliest

LEMMA SellSeatInv ==
  ASSUME IInv, NEW p \in Procs, SellSeat(p)
  PROVE  IInv'
<1> DEFINE s == SeatOf(tx[p].row)
           t == [tx[p] EXCEPT !.pc = "commitSale", !.seats = {s}]
<1>1. UNCHANGED <<tables, now>>
  BY DEF SellSeat
<1>2. CASE Becomes(p, NoTx)
  BY <1>1, <1>2, LocalEnd
<1>3. CASE /\ SeatFree(p, s) /\ seat[s] = "reserved"
           /\ \A r \in sales : SeatOf(r) # s
           /\ Becomes(p, t)
  <2>1. tx[p] \in Tx /\ TxReliesOn(tx[p]) /\ tx[p].pc = "saleSeat"
    BY OwnTx DEF SellSeat
  <2>2. /\ tx[p].row \in Rids /\ res[tx[p].row].status = "pending"
        /\ tx[p].to = "confirmed" /\ s \in Seats
    BY <2>1, RidFacts DEF TxReliesOn
  <2>3. /\ t \in Tx /\ t.pc = "commitSale" /\ t.row = tx[p].row
        /\ t.seats = {s} /\ t.to = "confirmed"
    BY <2>1, <2>2 DEF Tx, PCs
  <2>4. TxReliesOn(t)
    BY <1>3, <2>2, <2>3 DEF TxReliesOn
  <2>5. /\ \A x \in t.seats : SeatFree(p, x)
        /\ t.row = NoRow \/ RowFree(p, t.row)
    BY <1>3, <2>3, OwnTx
  <2>6. now' \in Times /\ UNCHANGED tables
    BY <1>1 DEF IInv, TypeOK
  <2> HIDE DEF t
  <2>7. QED
    BY <1>3, <2>3, <2>4, <2>5, <2>6, LocalStep
<1>4. QED
  BY <1>2, <1>3 DEF SellSeat

LEMMA ReleaseSeatInv ==
  ASSUME IInv, NEW p \in Procs, ReleaseSeat(p)
  PROVE  IInv'
<1> DEFINE s == SeatOf(tx[p].row)
           t(S) == [tx[p] EXCEPT !.pc = "commitRelease", !.seats = S]
<1>1. now' \in Times /\ UNCHANGED tables
  BY DEF ReleaseSeat, IInv, TypeOK
<1>2. tx[p] \in Tx /\ TxReliesOn(tx[p]) /\ tx[p].pc = "releaseSeat"
  BY OwnTx DEF ReleaseSeat
<1>3. /\ tx[p].row \in Rids /\ res[tx[p].row].status = "pending" /\ s \in Seats
      /\ tx[p].to \in {"expired", "cancelled", "deleted"} /\ tx[p].seats = {}
  BY <1>2, RidFacts DEF TxReliesOn
<1>4. ASSUME NEW S \in SUBSET Seats, Becomes(p, t(S)), \A x \in S : SeatFree(p, x),
             \/ S = {s} /\ seat[s] = "reserved"
             \/ S = {} /\ seat[s] # "reserved"
      PROVE  IInv'
  <2>1. /\ t(S) \in Tx /\ t(S).pc = "commitRelease" /\ t(S).row = tx[p].row
        /\ t(S).seats = S /\ t(S).to = tx[p].to
    BY <1>2 DEF Tx, PCs
  <2>2. TxReliesOn(t(S))
    BY <1>3, <1>4, <2>1 DEF TxReliesOn
  <2>3. t(S).row = NoRow \/ RowFree(p, t(S).row)
    BY <2>1, OwnTx
  <2> HIDE DEF t
  <2>4. QED
    BY <1>1, <1>4, <2>1, <2>2, <2>3, LocalStep
<1>5. CASE /\ seat[s] = "reserved" /\ SeatFree(p, s)
           /\ Becomes(p, [tx[p] EXCEPT !.pc = "commitRelease", !.seats = {s}])
  BY <1>3, <1>4, <1>5
<1>6. CASE /\ seat[s] # "reserved"
           /\ Becomes(p, [tx[p] EXCEPT !.pc = "commitRelease"])
  <2>1. [tx[p] EXCEPT !.pc = "commitRelease"] = t({})
    BY <1>2, <1>3 DEF Tx
  <2>2. QED
    BY <1>4, <1>6, <2>1
<1>7. QED
  BY <1>5, <1>6 DEF ReleaseSeat

LEMMA ScanExpiredInv ==
  ASSUME IInv, NEW p \in Procs, ScanExpired(p)
  PROVE  IInv'
<1>1. PICK batch \in (SUBSET Due) \ {{}} :
        Becomes(p, [NoTx EXCEPT !.pc = "expire", !.batch = batch])
  BY DEF ScanExpired
<1>2. batch \in SUBSET Rids /\ Becomes(p, Resume(batch))
  BY <1>1 DEF Due, Resume
<1>3. QED
  BY <1>2, LocalEnd DEF ScanExpired

LEMMA ReadSeatForUpdateInv ==
  ASSUME IInv, NEW p \in Procs, ReadSeatForUpdate(p)
  PROVE  IInv'
<1>1. PICK s \in Seats, to \in AdminStatuses :
        Becomes(p, [NoTx EXCEPT !.pc = "adminWrite", !.todo = <<s>>, !.to = to])
  BY DEF ReadSeatForUpdate
<1> DEFINE t == [NoTx EXCEPT !.pc = "adminWrite", !.todo = <<s>>, !.to = to]
<1>2. t \in Tx
  <2>1. to \in SeatStatus /\ <<s>> \in Seq(Seats)
    BY AdminAssumption DEF SeatStatus
  <2>2. QED
    BY <2>1, NoTxFacts DEF NoTx, Tx, PCs
<1>3. TxReliesOn(t) /\ t.seats = {} /\ t.row = NoRow
  BY DEF TxReliesOn, NoTx
<1>4. now' \in Times /\ UNCHANGED tables
  BY DEF ReadSeatForUpdate, IInv, TypeOK
<1> HIDE DEF t
<1>5. QED
  BY <1>1, <1>2, <1>3, <1>4, LocalStep DEF t

LEMMA FailInv ==
  ASSUME IInv, NEW p \in Procs, Fail(p)
  PROVE  IInv'
<1>1. \A r : tx[p].batch \ {r} \in SUBSET Rids
  BY OwnTx DEF Tx
<1>2. tx[p].batch \in SUBSET Rids
  BY OwnTx DEF Tx
<1>3. UNCHANGED <<tables, now>>
  BY DEF Fail
<1>4. CASE Becomes(p, NoTx)
  BY <1>3, <1>4, LocalEnd
<1>5. CASE Becomes(p, Resume(tx[p].batch))
  BY <1>2, <1>3, <1>5, LocalEnd
<1>6. ASSUME NEW r, Becomes(p, Resume(tx[p].batch \ {r}))
      PROVE  IInv'
  BY <1>1, <1>3, <1>6, LocalEnd
<1>7. QED
  BY <1>4, <1>5, <1>6 DEF Fail

\* The clock, and stuttering.
LEMMA ClockInv ==
  ASSUME IInv, Tick \/ UNCHANGED vars
  PROVE  IInv'
<1>1. UNCHANGED tables /\ UNCHANGED tx /\ now' \in Times
  BY BoundsAssumption DEF Tick, vars, tables, IInv, TypeOK, Times
<1> USE <1>1 DEF IInv, tables
<1>2. TypeOK'
  BY DEF TypeOK
<1>3. TransactionsIsolated'
  BY DEF TransactionsIsolated, LocksExclusive, TxReliesOn, PendingOn
<1>4. NoDoubleBooking' /\ HeldSeatHasHolder' /\ HolderKeepsSeat' /\ OutboxTellsOutcome'
  BY DEF NoDoubleBooking, HeldSeatHasHolder, HolderKeepsSeat, OutboxTellsOutcome, OutcomeOf, PendingOn
<1>5. QED
  BY <1>2, <1>3, <1>4

-----------------------------------------------------------------------------
(***************************************************************************)
(* The commits                                                             *)
(***************************************************************************)

\* What the invariant says of the transactions beside p, which p's steps leave alone.
LEMMA OtherTx ==
  ASSUME IInv, NEW p \in Procs, NEW q \in Procs \ {p}, NEW t, Becomes(p, t)
  PROVE  /\ tx'[q] = tx[q]
         /\ tx[q] \in Tx
         /\ TxReliesOn(tx[q])
         /\ tx[q].seats \cap tx[p].seats = {}
         /\ tx[q].row = tx[p].row => tx[p].row = NoRow
BY DEF Becomes, IInv, TypeOK, TransactionsIsolated, LocksExclusive

\* A transaction that ends gives up its locks, and relies on nothing more.
LEMMA EndOfTx ==
  ASSUME IInv, NEW p \in Procs, NEW batch \in SUBSET Rids,
         Becomes(p, NoTx) \/ Becomes(p, Resume(batch))
  PROVE  /\ tx' \in [Procs -> Tx]
         /\ LocksExclusive'
         /\ TxReliesOn(tx[p])'
<1>1. ASSUME NEW t \in Tx, Becomes(p, t), t.seats = {}, t.row = NoRow, t.pc \in {"idle", "expire"}
      PROVE  tx' \in [Procs -> Tx] /\ LocksExclusive' /\ TxReliesOn(tx[p])'
  <2>1. /\ tx' \in [Procs -> Tx] /\ tx'[p] = t
        /\ \A q \in Procs \ {p} : tx'[q] = tx[q]
    BY <1>1 DEF Becomes, IInv, TypeOK
  <2>2. LocksExclusive'
    BY <1>1, <2>1 DEF IInv, TransactionsIsolated, LocksExclusive
  <2>3. TxReliesOn(tx[p])'
    BY <1>1, <2>1 DEF TxReliesOn
  <2>4. QED
    BY <2>1, <2>2, <2>3
<1>2. NoTx.pc = "idle" /\ Resume(batch).pc \in {"idle", "expire"}
  BY DEF NoTx, Resume
<1>3. QED
  BY <1>1, <1>2, NoTxFacts, ResumeFacts

\* What the outbox holds of a reservation that has no outcome yet.
LEMMA NoOutcomeYet ==
  ASSUME IInv, NEW r \in Rids, res[r].status \in {"none", "pending"}
  PROVE  /\ outbox[r] \in [Events -> Nat]
         /\ outbox[r]["created"] = IF res[r].status = "none" THEN 0 ELSE 1
         /\ \A e \in Events \ {"created"} : outbox[r][e] = 0
         /\ r \notin sales
<1>1. OutcomeOf(r) /\ outbox[r] \in [Events -> Nat]
  BY DEF IInv, OutboxTellsOutcome, TypeOK
<1>2. /\ outbox[r]["created"] = IF res[r].status = "none" THEN 0 ELSE 1
      /\ outbox[r]["expired"] = 0 /\ outbox[r]["cancelled"] = 0 /\ outbox[r]["paid"] = 0
      /\ outbox[r]["released"] <= 0 + 0
      /\ r \notin sales
  BY <1>1 DEF OutcomeOf, ReservationStatus
<1>3. outbox[r]["released"] = 0
  BY <1>1, <1>2 DEF Events
<1>4. QED
  BY <1>1, <1>2, <1>3 DEF Events

LEMMA CommitCreateInv ==
  ASSUME IInv, NEW p \in Procs, CommitCreate(p)
  PROVE  IInv'
<1> DEFINE S == tx[p].seats
           M == tx[p].made
<1>1. /\ tx[p] \in Tx /\ TxReliesOn(tx[p]) /\ tx[p].pc = "commitCreate"
      /\ Becomes(p, NoTx)
  BY OwnTx DEF CommitCreate
<1>2. /\ S = {SeatOf(r) : r \in M} /\ S \subseteq Seats /\ M \subseteq Rids
      /\ \A s \in S : seat[s] = "available"
      /\ \A r \in M : res[r].status = "none" /\ PendingOn(SeatOf(r)) = {}
      /\ \A r1, r2 \in M : SeatOf(r1) = SeatOf(r2) => r1 = r2
      /\ tx[p].expiresAt \in Times
  BY <1>1 DEF TxReliesOn, Tx
<1>3. /\ \A s \in Seats : seat'[s] = IF s \in S THEN "reserved" ELSE seat[s]
      /\ \A r \in Rids : res'[r] = IF r \in M
                                  THEN [status |-> "pending", expiresAt |-> tx[p].expiresAt]
                                  ELSE res[r]
      /\ \A r \in Rids : outbox'[r] = IF r \in M
                                     THEN [outbox[r] EXCEPT !["created"] = @ + 1]
                                     ELSE outbox[r]
      /\ sales' = sales /\ now' = now /\ overridden' = overridden
  BY DEF CommitCreate
<1>4. TypeOK'
  <2>1. seat' \in [Seats -> SeatStatus]
    BY DEF CommitCreate, IInv, TypeOK, SeatStatus
  <2>2. res' \in [Rids -> Reservation]
    BY <1>2 DEF CommitCreate, IInv, TypeOK, Reservation, ReservationStatus
  <2>3. outbox' \in [Rids -> [Events -> Nat]]
    BY DEF CommitCreate, IInv, TypeOK, Events
  <2>4. QED
    BY <1>1, <1>3, <2>1, <2>2, <2>3, EndOfTx DEF IInv, TypeOK
<1>5. \A s \in Seats \ S : PendingOn(s)' = PendingOn(s)
  BY <1>2, <1>3 DEF PendingOn
<1> HIDE DEF S, M
<1>6. ASSUME NEW q \in Procs \ {p} PROVE TxReliesOn(tx[q])'
  <2>1. /\ tx'[q] = tx[q] /\ tx[q] \in Tx /\ TxReliesOn(tx[q])
        /\ tx[q].seats \cap S = {}
    BY <1>1, OtherTx DEF S
  <2>2. \A s \in tx[q].seats : s \in Seats \ S /\ seat'[s] = seat[s] /\ PendingOn(s)' = PendingOn(s)
    BY <1>3, <1>5, <2>1 DEF Tx
  <2>3. \A r \in Rids : res[r].status # "none" => res'[r] = res[r]
    BY <1>2, <1>3
  <2>4. \A r \in Rids : SeatOf(r) \notin S => res'[r] = res[r]
    BY <1>2, <1>3
  <2>5. \A r \in Rids : res[r].status = "pending" => SeatOf(r) \in Seats \ S
    BY <1>2, RidFacts DEF PendingOn
  <2>6. CASE tx[q].pc \in {"reserve", "insert", "commitCreate"}
    <3>1. \A r \in tx[q].made : SeatOf(r) \in tx[q].seats /\ r \in Rids
      BY <2>1, <2>6 DEF TxReliesOn, Tx
    <3>2. \A r \in tx[q].made : res'[r] = res[r] /\ PendingOn(SeatOf(r))' = PendingOn(SeatOf(r))
      BY <2>2, <2>4, <3>1
    <3>3. QED
      BY <2>1, <2>2, <2>6, <3>2 DEF TxReliesOn
  <2>7. CASE tx[q].pc \in {"saleSeat", "commitSale", "releaseSeat", "commitRelease"}
    <3>1. /\ tx[q].row \in Rids /\ res[tx[q].row].status = "pending"
      BY <2>1, <2>7 DEF TxReliesOn
    <3>2. /\ res'[tx[q].row] = res[tx[q].row]
          /\ seat'[SeatOf(tx[q].row)] = seat[SeatOf(tx[q].row)]
      BY <1>3, <2>3, <2>5, <3>1
    <3>3. QED
      BY <1>3, <2>1, <2>7, <3>1, <3>2 DEF TxReliesOn
  <2>8. CASE tx[q].pc \in {"idle", "expire", "commitTouch", "adminWrite"}
    BY <2>1, <2>8 DEF TxReliesOn
  <2>9. QED
    BY <2>1, <2>6, <2>7, <2>8 DEF Tx, PCs
<1>7. TransactionsIsolated'
  <2>1. LocksExclusive' /\ TxReliesOn(tx[p])'
    BY <1>1, EndOfTx
  <2>2. QED
    BY <1>6, <2>1 DEF TransactionsIsolated
<1>8. NoDoubleBooking'
  <2>1. \A r \in Rids : res'[r].status = "pending" =>
          IF SeatOf(r) \in S THEN r \in M ELSE res[r].status = "pending"
    BY <1>2, <1>3 DEF PendingOn
  <2>2. QED
    BY <1>2, <1>3, <2>1 DEF IInv, NoDoubleBooking
<1>9. HeldSeatHasHolder'
  <2>1. ASSUME NEW s \in Seats, seat'[s] = "reserved" PROVE PendingOn(s)' # {}
    <3>1. CASE s \in S
      BY <1>2, <1>3, <3>1 DEF PendingOn
    <3>2. CASE s \notin S
      BY <1>3, <1>5, <2>1, <3>2 DEF IInv, HeldSeatHasHolder
    <3>3. QED
      BY <3>1, <3>2
  <2>2. ASSUME NEW s \in Seats, seat'[s] = "sold" PROVE \E r \in sales' : SeatOf(r) = s
    BY <1>3, <2>2 DEF IInv, HeldSeatHasHolder
  <2>3. QED
    BY <2>1, <2>2 DEF HeldSeatHasHolder
<1>10. HolderKeepsSeat'
  <2> SUFFICES ASSUME NEW r \in Rids, SeatOf(r) \notin overridden
               PROVE  /\ res'[r].status = "pending" => seat'[SeatOf(r)] = "reserved"
                      /\ r \in sales => seat'[SeatOf(r)] = "sold"
    BY <1>3 DEF HolderKeepsSeat
  <2>1. SeatOf(r) \in Seats
    BY RidFacts
  <2>2. /\ res[r].status = "pending" => seat[SeatOf(r)] = "reserved"
        /\ r \in sales => seat[SeatOf(r)] = "sold"
    BY DEF IInv, HolderKeepsSeat
  <2>3. QED
    BY <1>2, <1>3, <2>1, <2>2
<1>11. OutboxTellsOutcome'
  <2> SUFFICES ASSUME NEW r \in Rids
               PROVE  OutcomeOf(r)'
    BY DEF OutboxTellsOutcome
  <2>1. OutcomeOf(r) /\ outbox[r] \in [Events -> Nat]
    BY DEF IInv, OutboxTellsOutcome, TypeOK
  <2>2. CASE r \notin M
    BY <1>3, <2>1, <2>2 DEF OutcomeOf
  <2>3. CASE r \in M
    <3>1. /\ outbox[r] \in [Events -> Nat] /\ r \notin sales
          /\ \A e \in Events : outbox[r][e] = 0
      BY <1>2, <2>3, NoOutcomeYet
    <3>2. res'[r].status = "pending" /\ outbox'[r] = [outbox[r] EXCEPT !["created"] = @ + 1]
      BY <1>3, <2>3
    <3>3. /\ outbox'[r]["created"] = 1
          /\ \A e \in Events \ {"created"} : outbox'[r][e] = 0
      BY <3>1, <3>2 DEF Events
    <3>4. QED
      BY <1>3, <3>1, <3>2, <3>3 DEF OutcomeOf, Events, ReservationStatus
  <2>4. QED
    BY <2>2, <2>3
<1>12. QED
  BY <1>4, <1>7, <1>8, <1>9, <1>10, <1>11 DEF IInv

\* What the other transactions rely on survives a pending reservation of p's getting
\* its outcome, whatever happens to its seat if p holds it.
LEMMA OutcomeFrame ==
  ASSUME IInv, NEW p \in Procs, NEW q \in Procs \ {p}, NEW t, Becomes(p, t),
         NEW r \in Rids, tx[p].row = r, res[r].status = "pending",
         tx[p].seats \subseteq {SeatOf(r)},
         NEW o, o \notin {"none", "pending"},
         res' = [res EXCEPT ![r].status = o],
         \A s \in Seats \ tx[p].seats : seat'[s] = seat[s],
         sales' \subseteq sales \cup {r}
  PROVE  TxReliesOn(tx[q])'
<1>1. /\ tx'[q] = tx[q] /\ tx[q] \in Tx /\ TxReliesOn(tx[q])
      /\ tx[q].seats \cap tx[p].seats = {}
      /\ tx[q].row # r
  BY OtherTx, RidFacts
<1>2. /\ \A x \in Rids \ {r} : res'[x] = res[x]
      /\ res'[r].status = o
  BY DEF IInv, TypeOK, Reservation
<1>3. \A s \in Seats : PendingOn(s)' \subseteq PendingOn(s)
  BY <1>2 DEF PendingOn
<1>4. \A s \in tx[q].seats : s \in Seats /\ seat'[s] = seat[s]
  BY <1>1 DEF Tx
<1>5. CASE tx[q].pc \in {"reserve", "insert", "commitCreate"}
  <2>1. \A x \in tx[q].made : x \in Rids \ {r} /\ SeatOf(x) \in Seats
    BY <1>1, <1>5, RidFacts DEF TxReliesOn, Tx
  <2>2. \A x \in tx[q].made : res'[x] = res[x] /\ PendingOn(SeatOf(x))' \subseteq PendingOn(SeatOf(x))
    BY <1>2, <1>3, <2>1
  <2>3. QED
    BY <1>1, <1>4, <1>5, <2>2 DEF TxReliesOn
<1>6. CASE tx[q].pc \in {"saleSeat", "commitSale", "releaseSeat", "commitRelease"}
  <2>1. /\ tx[q].row \in Rids \ {r} /\ res[tx[q].row].status = "pending"
    BY <1>1, <1>6 DEF TxReliesOn
  <2>2. SeatOf(tx[q].row) \in Seats /\ SeatOf(tx[q].row) # SeatOf(r)
    BY <2>1, RidFacts DEF IInv, NoDoubleBooking
  <2>3. /\ res'[tx[q].row] = res[tx[q].row]
        /\ seat'[SeatOf(tx[q].row)] = seat[SeatOf(tx[q].row)]
    BY <1>2, <2>1, <2>2
  <2>4. QED
    BY <1>1, <1>6, <2>1, <2>2, <2>3 DEF TxReliesOn
<1>7. CASE tx[q].pc \in {"idle", "expire", "commitTouch", "adminWrite"}
  BY <1>1, <1>7 DEF TxReliesOn
<1>8. QED
  BY <1>1, <1>5, <1>6, <1>7 DEF Tx, PCs

LEMMA CommitSaleInv ==
  ASSUME IInv, NEW p \in Procs, CommitSale(p)
  PROVE  IInv'
<1> DEFINE r == tx[p].row
           s == SeatOf(r)
<1>1. /\ tx[p] \in Tx /\ TxReliesOn(tx[p]) /\ tx[p].pc = "commitSale"
      /\ Becomes(p, NoTx)
  BY OwnTx DEF CommitSale
<1>2. /\ r \in Rids /\ res[r].status = "pending" /\ tx[p].to = "confirmed"
      /\ s \in Seats /\ tx[p].seats = {s} /\ seat[s] = "reserved"
      /\ \A x \in sales : SeatOf(x) # s
  BY <1>1, RidFacts DEF TxReliesOn
<1>3. /\ res' = [res EXCEPT ![r].status = "confirmed"]
      /\ seat' = [seat EXCEPT ![s] = "sold"]
      /\ sales' = sales \cup {r}
      /\ CountEvents(r, {"paid"})
      /\ now' = now /\ overridden' = overridden
  BY <1>2 DEF CommitSale
<1> HIDE DEF r, s
<1>4. TypeOK'
  <2>1. seat' \in [Seats -> SeatStatus] /\ res' \in [Rids -> Reservation]
    BY <1>2, <1>3 DEF IInv, TypeOK, SeatStatus, Reservation, ReservationStatus
  <2>2. outbox' \in [Rids -> [Events -> Nat]]
    BY <1>2, <1>3 DEF CountEvents, IInv, TypeOK
  <2>3. QED
    BY <1>1, <1>2, <1>3, <2>1, <2>2, EndOfTx DEF IInv, TypeOK
<1>5. /\ \A x \in Rids \ {r} : res'[x] = res[x]
      /\ res'[r].status = "confirmed"
      /\ \A x \in Seats \ {s} : seat'[x] = seat[x]
      /\ seat'[s] = "sold"
  BY <1>2, <1>3 DEF IInv, TypeOK, Reservation
<1>6. \A x \in Rids \ {r} : res[x].status = "pending" => SeatOf(x) # s
  BY <1>2 DEF IInv, NoDoubleBooking, s
<1>7. TransactionsIsolated'
  <2>1. LocksExclusive' /\ TxReliesOn(tx[p])'
    BY <1>1, EndOfTx
  <2>2. ASSUME NEW q \in Procs \ {p} PROVE TxReliesOn(tx[q])'
    BY <1>1, <1>2, <1>3, <1>5, OutcomeFrame DEF r, s
  <2>3. QED
    BY <2>1, <2>2 DEF TransactionsIsolated
<1>8. NoDoubleBooking'
  <2>1. \A x \in Rids : res'[x].status = "pending" => res[x].status = "pending"
    BY <1>5
  <2>2. SeatOf(r) = s
    BY DEF s
  <2>3. QED
    BY <1>2, <1>3, <2>1, <2>2 DEF IInv, NoDoubleBooking
<1>9. HeldSeatHasHolder'
  <2>1. \A x \in Seats \ {s} : PendingOn(x) \subseteq PendingOn(x)'
    BY <1>5 DEF PendingOn, s
  <2>2. SeatOf(r) = s
    BY DEF s
  <2>3. QED
    BY <1>2, <1>3, <1>5, <2>1, <2>2 DEF IInv, HeldSeatHasHolder
<1>10. HolderKeepsSeat'
  <2> SUFFICES ASSUME NEW x \in Rids, SeatOf(x) \notin overridden
               PROVE  /\ res'[x].status = "pending" => seat'[SeatOf(x)] = "reserved"
                      /\ x \in sales' => seat'[SeatOf(x)] = "sold"
    BY <1>3 DEF HolderKeepsSeat
  <2>1. SeatOf(x) \in Seats /\ SeatOf(r) = s
    BY RidFacts DEF s
  <2>2. /\ res[x].status = "pending" => seat[SeatOf(x)] = "reserved"
        /\ x \in sales => seat[SeatOf(x)] = "sold"
    BY DEF IInv, HolderKeepsSeat
  <2>3. QED
    BY <1>2, <1>3, <1>5, <1>6, <2>1, <2>2
<1>11. OutboxTellsOutcome'
  <2> SUFFICES ASSUME NEW x \in Rids
               PROVE  OutcomeOf(x)'
    BY DEF OutboxTellsOutcome
  <2>1. OutcomeOf(x) /\ outbox[x] \in [Events -> Nat]
    BY DEF IInv, OutboxTellsOutcome, TypeOK
  <2>2. CASE x # r
    <3>1. outbox'[x] = outbox[x] /\ res'[x] = res[x] /\ (x \in sales' <=> x \in sales)
      BY <1>3, <1>5, <2>2 DEF CountEvents, IInv, TypeOK
    <3>2. QED
      BY <2>1, <3>1 DEF OutcomeOf
  <2>3. CASE x = r
    <3>1. /\ outbox[r] \in [Events -> Nat] /\ outbox[r]["created"] = 1
          /\ \A e \in Events \ {"created"} : outbox[r][e] = 0
      BY <1>2, NoOutcomeYet
    <3>2. outbox'[r] = [e \in Events |-> IF e \in {"paid"} THEN outbox[r][e] + 1 ELSE outbox[r][e]]
      BY <1>2, <1>3 DEF CountEvents, IInv, TypeOK
    <3>3. /\ outbox'[r]["created"] = 1 /\ outbox'[r]["paid"] = 1
          /\ outbox'[r]["expired"] = 0 /\ outbox'[r]["cancelled"] = 0
          /\ outbox'[r]["released"] = 0
      BY <3>1, <3>2 DEF Events
    <3>4. QED
      BY <1>3, <1>5, <2>3, <3>3 DEF OutcomeOf, ReservationStatus
  <2>4. QED
    BY <2>2, <2>3
<1>12. QED
  BY <1>4, <1>7, <1>8, <1>9, <1>10, <1>11 DEF IInv

LEMMA CommitReleaseInv ==
  ASSUME IInv, NEW p \in Procs, CommitRelease(p)
  PROVE  IInv'
<1> DEFINE r == tx[p].row
           s == SeatOf(r)
           o == tx[p].to
           batch == tx[p].batch
<1>1. /\ tx[p] \in Tx /\ TxReliesOn(tx[p]) /\ tx[p].pc = "commitRelease"
      /\ batch \in SUBSET Rids /\ Becomes(p, Resume(batch))
  BY OwnTx DEF CommitRelease, Tx
<1>2. /\ r \in Rids /\ res[r].status = "pending" /\ o \in {"expired", "cancelled", "deleted"}
      /\ s \in Seats
      /\ \/ tx[p].seats = {} /\ seat[s] # "reserved"
         \/ tx[p].seats = {s} /\ seat[s] = "reserved"
  BY <1>1, RidFacts DEF TxReliesOn
<1>3. /\ res' = [res EXCEPT ![r].status = o]
      /\ seat' = [x \in Seats |-> IF x \in tx[p].seats THEN "available" ELSE seat[x]]
      /\ sales' = sales
      /\ CountEvents(r, ReleaseEvents(p))
      /\ now' = now /\ overridden' = overridden
  BY <1>1 DEF CommitRelease
<1>4. /\ ReleaseEvents(p) \subseteq {"expired", "cancelled", "released"}
      /\ "expired" \in ReleaseEvents(p) <=> o = "expired"
      /\ "cancelled" \in ReleaseEvents(p) <=> o # "expired"
  BY DEF ReleaseEvents
<1> HIDE DEF r, s, o, batch
<1>5. TypeOK'
  <2>1. seat' \in [Seats -> SeatStatus] /\ res' \in [Rids -> Reservation]
    BY <1>2, <1>3 DEF IInv, TypeOK, SeatStatus, Reservation, ReservationStatus
  <2>2. outbox' \in [Rids -> [Events -> Nat]]
    BY <1>2, <1>3 DEF CountEvents, IInv, TypeOK
  <2>3. QED
    BY <1>1, <1>3, <2>1, <2>2, EndOfTx DEF IInv, TypeOK
<1>6. /\ \A x \in Rids \ {r} : res'[x] = res[x]
      /\ res'[r].status = o
      /\ \A x \in Seats \ {s} : seat'[x] = seat[x]
      /\ seat'[s] = IF seat[s] = "reserved" THEN "available" ELSE seat[s]
  BY <1>2, <1>3 DEF IInv, TypeOK, Reservation
<1>7. \A x \in Rids \ {r} : res[x].status = "pending" => SeatOf(x) # s
  BY <1>2 DEF IInv, NoDoubleBooking, s
<1>8. TransactionsIsolated'
  <2>1. LocksExclusive' /\ TxReliesOn(tx[p])'
    BY <1>1, EndOfTx
  <2>2. /\ \A x \in Seats \ tx[p].seats : seat'[x] = seat[x]
        /\ tx[p].seats \subseteq {SeatOf(r)}
        /\ o \notin {"none", "pending"}
    BY <1>2, <1>3 DEF s
  <2>3. ASSUME NEW q \in Procs \ {p} PROVE TxReliesOn(tx[q])'
    BY <1>1, <1>2, <1>3, <2>2, OutcomeFrame DEF r
  <2>4. QED
    BY <2>1, <2>3 DEF TransactionsIsolated
<1>9. NoDoubleBooking'
  BY <1>2, <1>3, <1>6 DEF IInv, NoDoubleBooking
<1>10. HeldSeatHasHolder'
  <2>1. \A x \in Seats \ {s} : PendingOn(x) \subseteq PendingOn(x)'
    BY <1>6 DEF PendingOn, s
  <2>2. QED
    BY <1>3, <1>6, <2>1 DEF IInv, HeldSeatHasHolder
<1>11. HolderKeepsSeat'
  <2> SUFFICES ASSUME NEW x \in Rids, SeatOf(x) \notin overridden
               PROVE  /\ res'[x].status = "pending" => seat'[SeatOf(x)] = "reserved"
                      /\ x \in sales => seat'[SeatOf(x)] = "sold"
    BY <1>3 DEF HolderKeepsSeat
  <2>1. SeatOf(x) \in Seats /\ SeatOf(r) = s
    BY RidFacts DEF s
  <2>2. /\ res[x].status = "pending" => seat[SeatOf(x)] = "reserved"
        /\ x \in sales => seat[SeatOf(x)] = "sold"
    BY DEF IInv, HolderKeepsSeat
  <2>3. QED
    BY <1>2, <1>6, <1>7, <2>1, <2>2
<1>12. OutboxTellsOutcome'
  <2> SUFFICES ASSUME NEW x \in Rids
               PROVE  OutcomeOf(x)'
    BY DEF OutboxTellsOutcome
  <2>1. OutcomeOf(x) /\ outbox[x] \in [Events -> Nat]
    BY DEF IInv, OutboxTellsOutcome, TypeOK
  <2>2. CASE x # r
    <3>1. outbox'[x] = outbox[x] /\ res'[x] = res[x] /\ (x \in sales' <=> x \in sales)
      BY <1>3, <1>6, <2>2 DEF CountEvents, IInv, TypeOK
    <3>2. QED
      BY <2>1, <3>1 DEF OutcomeOf
  <2>3. CASE x = r
    <3>1. /\ outbox[r] \in [Events -> Nat] /\ outbox[r]["created"] = 1
          /\ \A e \in Events \ {"created"} : outbox[r][e] = 0
          /\ r \notin sales
      BY <1>2, NoOutcomeYet
    <3>2. outbox'[r] = [e \in Events |-> IF e \in ReleaseEvents(p) THEN outbox[r][e] + 1
                                                                ELSE outbox[r][e]]
      BY <1>2, <1>3 DEF CountEvents, IInv, TypeOK
    <3>3. /\ outbox'[r]["created"] = 1 /\ outbox'[r]["paid"] = 0
          /\ outbox'[r]["expired"] = IF o = "expired" THEN 1 ELSE 0
          /\ outbox'[r]["cancelled"] = IF o = "expired" THEN 0 ELSE 1
          /\ outbox'[r]["released"] \in {0, 1}
      BY <1>4, <3>1, <3>2 DEF Events
    <3>4. QED
      BY <1>2, <1>3, <1>6, <2>3, <3>1, <3>3 DEF OutcomeOf, ReservationStatus
  <2>4. QED
    BY <2>2, <2>3
<1>13. QED
  BY <1>5, <1>8, <1>9, <1>10, <1>11, <1>12 DEF IInv

LEMMA CommitTouchInv ==
  ASSUME IInv, NEW p \in Procs, CommitTouch(p)
  PROVE  IInv'
BY LocalEnd DEF CommitTouch

LEMMA WriteSeatInv ==
  ASSUME IInv, NEW p \in Procs, WriteSeat(p)
  PROVE  IInv'
<1> DEFINE s == Head(tx[p].todo)
           to == tx[p].to
<1>1. /\ tx[p] \in Tx /\ TxReliesOn(tx[p]) /\ tx[p].pc = "adminWrite"
      /\ Becomes(p, NoTx)
  BY OwnTx DEF WriteSeat
<1>2. /\ s \in Seats /\ to \in {"available", "blocked", "maintenance"}
      /\ tx[p].seats = {} /\ tx[p].row = NoRow
  <2>1. tx[p].todo \in Seq(Seats) /\ tx[p].todo # << >>
    BY <1>1 DEF TxReliesOn, Tx
  <2>2. s \in Seats
    BY <2>1
  <2>3. QED
    BY <1>1, <2>2, AdminAssumption DEF TxReliesOn
<1>3. /\ SeatFree(p, s)
      /\ seat' = [seat EXCEPT ![s] = to]
      /\ overridden' = IF seat[s] \in Held THEN overridden \cup {s} ELSE overridden
      /\ res' = res /\ sales' = sales /\ outbox' = outbox /\ now' = now
  BY DEF WriteSeat
<1> HIDE DEF s, to
<1>4. TypeOK'
  <2>1. seat' \in [Seats -> SeatStatus] /\ overridden' \subseteq Seats
    BY <1>2, <1>3 DEF IInv, TypeOK, SeatStatus
  <2>2. QED
    BY <1>1, <1>3, <2>1, EndOfTx DEF IInv, TypeOK
<1>5. /\ \A x \in Seats \ {s} : seat'[x] = seat[x]
      /\ seat'[s] \notin {"reserved", "sold"}
      /\ \A x : PendingOn(x)' = PendingOn(x)
  BY <1>2, <1>3 DEF IInv, TypeOK, PendingOn
<1>6. TransactionsIsolated'
  <2>1. LocksExclusive' /\ TxReliesOn(tx[p])'
    BY <1>1, EndOfTx
  <2>2. ASSUME NEW q \in Procs \ {p} PROVE TxReliesOn(tx[q])'
    <3>1. tx'[q] = tx[q] /\ tx[q] \in Tx /\ TxReliesOn(tx[q])
      BY <1>1, OtherTx
    <3>2. \A x \in tx[q].seats : x \in Seats /\ seat'[x] = seat[x]
      BY <1>3, <1>5, <3>1 DEF SeatFree, Tx
    <3>3. CASE tx[q].pc \in {"saleSeat", "commitSale", "releaseSeat", "commitRelease"}
      <4>1. SeatOf(tx[q].row) \in Seats
        BY <3>1, <3>3, RidFacts DEF TxReliesOn
      <4>2. QED
        BY <1>3, <1>5, <3>1, <3>2, <3>3, <4>1 DEF TxReliesOn
    <3>4. CASE tx[q].pc \notin {"saleSeat", "commitSale", "releaseSeat", "commitRelease"}
      BY <1>3, <1>5, <3>1, <3>2, <3>4 DEF TxReliesOn, Tx, PCs
    <3>5. QED
      BY <3>3, <3>4
  <2>3. QED
    BY <2>1, <2>2 DEF TransactionsIsolated
<1>7. NoDoubleBooking' /\ OutboxTellsOutcome'
  BY <1>3 DEF IInv, NoDoubleBooking, OutboxTellsOutcome, OutcomeOf
<1>8. HeldSeatHasHolder'
  <2>1. \A x \in Seats : seat'[x] \in {"reserved", "sold"} => seat'[x] = seat[x]
    BY <1>5
  <2>2. QED
    BY <1>3, <1>5, <2>1 DEF IInv, HeldSeatHasHolder
<1>9. HolderKeepsSeat'
  <2> SUFFICES ASSUME NEW x \in Rids, SeatOf(x) \notin overridden'
               PROVE  /\ res[x].status = "pending" => seat'[SeatOf(x)] = "reserved"
                      /\ x \in sales => seat'[SeatOf(x)] = "sold"
    BY <1>3 DEF HolderKeepsSeat
  <2>1. SeatOf(x) \in Seats /\ SeatOf(x) \notin overridden
    BY <1>3, RidFacts
  <2>2. /\ res[x].status = "pending" => seat[SeatOf(x)] = "reserved"
        /\ x \in sales => seat[SeatOf(x)] = "sold"
    BY <2>1 DEF IInv, HolderKeepsSeat
  <2>3. QED
    BY <1>3, <1>5, <2>1, <2>2 DEF Held
<1>10. QED
  BY <1>4, <1>6, <1>7, <1>8, <1>9 DEF IInv

-----------------------------------------------------------------------------
(***************************************************************************)
(* The invariant and the theorems                                          *)
(***************************************************************************)
LEMMA NextInv == IInv /\ [Next]_vars => IInv'
<1> SUFFICES ASSUME IInv, [Next]_vars PROVE IInv'
  OBVIOUS
<1>1. ASSUME NEW p \in Procs, Request(p) PROVE IInv'
  BY <1>1, StartCreateInv, LockForSaleInv, LockForReleaseInv, LockForTouchInv,
     ReadSeatForUpdateInv DEF Request
<1>2. ASSUME NEW p \in Procs, Proceed(p) PROVE IInv'
  BY <1>2, ReserveSeatInv, InsertReservationInv, CommitCreateInv, SellSeatInv,
     CommitSaleInv, ReleaseSeatInv, CommitReleaseInv, CommitTouchInv, LockExpiredInv,
     WriteSeatInv DEF Proceed
<1>3. Clients \subseteq Procs /\ Jobs \subseteq Procs
  BY DEF Procs
<1>4. QED
  BY <1>1, <1>2, <1>3, ScanExpiredInv, FailInv, ClockInv DEF Next

LEMMA Inductive == Spec => []IInv
<1>1. Init => IInv
  BY InitInv
<1>2. IInv /\ [Next]_vars => IInv'
  BY NextInv
<1>3. QED
  BY <1>1, <1>2, PTL DEF Spec

\* The tables and the transactions always have the shape of their declarations.
THEOREM TypeCorrect == Spec => []TypeOK
<1>1. IInv => TypeOK
  BY DEF IInv
<1>2. QED
  BY <1>1, Inductive, PTL

\* What a handler has read of the rows it locked is still true when it commits,
\* and no row has two owners, for every interleaving of requests and jobs.
THEOREM Isolation == Spec => []TransactionsIsolated
<1>1. IInv => TransactionsIsolated
  BY DEF IInv
<1>2. QED
  BY <1>1, Inductive, PTL

\* No seat is ever reserved twice or sold twice, whatever requests, jobs and
\* administrators do at the same time and wherever they fail.
THEOREM SeatsBookedOnce == Spec => []NoDoubleBooking
<1>1. IInv => NoDoubleBooking
  BY DEF IInv
<1>2. QED
  BY <1>1, Inductive, PTL

\* A seat is never held for nobody: RESERVED has a pending reservation behind it
\* and SOLD a sale.
THEOREM HoldersExist == Spec => []HeldSeatHasHolder
<1>1. IInv => HeldSeatHasHolder
  BY DEF IInv
<1>2. QED
  BY <1>1, Inductive, PTL

\* The create, sale, cancel and expire transactions never take a seat from each
\* other: only an administrator's write does.
THEOREM HoldersKeepSeats == Spec => []HolderKeepsSeat
<1>1. IInv => HolderKeepsSeat
  BY DEF IInv
<1>2. QED
  BY <1>1, Inductive, PTL

\* The outbox says exactly once what happened to each reservation.
THEOREM OutboxIsExact == Spec => []OutboxTellsOutcome
<1>1. IInv => OutboxTellsOutcome
  BY DEF IInv
<1>2. QED
  BY <1>1, Inductive, PTL

\* The commits: the only steps that change a reservation or an outbox row.
Commit(p) == CommitCreate(p) \/ CommitSale(p) \/ CommitRelease(p)

LEMMA OnlyCommitsWrite ==
  ASSUME [Next]_vars, \A p \in Procs : ~ Commit(p)
  PROVE  res' = res /\ outbox' = outbox
<1> USE DEF tables
<1>1. ASSUME NEW p \in Procs, Request(p) PROVE res' = res /\ outbox' = outbox
  BY <1>1 DEF Request, StartCreate, LockForSale, LockForRelease, LockForTouch, ReadSeatForUpdate
<1>2. ASSUME NEW p \in Procs, Proceed(p) PROVE res' = res /\ outbox' = outbox
  BY <1>2 DEF Proceed, Commit, ReserveSeat, InsertReservation, SellSeat, ReleaseSeat,
     CommitTouch, LockExpired, WriteSeat
<1>3. ASSUME NEW p \in Procs, ScanExpired(p) \/ Fail(p) PROVE res' = res /\ outbox' = outbox
  BY <1>3 DEF ScanExpired, Fail
<1>4. CASE Tick \/ UNCHANGED vars
  BY <1>4 DEF Tick, vars
<1>5. QED
  BY <1>1, <1>2, <1>3, <1>4 DEF Next, Procs

\* A reservation's outcome is final: no payment, cancellation or expiration takes
\* effect on a reservation that has left PENDING.
THEOREM OutcomesAreFinal == Spec => OutcomeIsFinal
<1> DEFINE Final ==
      \A r \in Rids :
        /\ res[r].status \notin {"none", "pending"} => res'[r].status = res[r].status
        /\ res[r].status = "none" => res'[r].status \in {"none", "pending"}
<1>1. ASSUME IInv, [Next]_vars PROVE Final
  <2>1. CASE \A p \in Procs : ~ Commit(p)
    BY <1>1, <2>1, OnlyCommitsWrite
  <2>2. ASSUME NEW p \in Procs, CommitCreate(p) PROVE Final
    <3>1. \A r \in tx[p].made : res[r].status = "none"
      BY <1>1, <2>2, OwnTx DEF CommitCreate, TxReliesOn
    <3>2. QED
      BY <2>2, <3>1 DEF CommitCreate
  <2>3. ASSUME NEW p \in Procs, CommitSale(p) \/ CommitRelease(p) PROVE Final
    <3>1. res[tx[p].row].status = "pending"
      BY <1>1, <2>3, OwnTx DEF CommitSale, CommitRelease, TxReliesOn
    <3>2. \A r \in Rids \ {tx[p].row} : res'[r] = res[r]
      BY <1>1, <2>3 DEF CommitSale, CommitRelease, IInv, TypeOK
    <3>3. QED
      BY <3>1, <3>2
  <2>4. QED
    BY <2>1, <2>2, <2>3 DEF Commit
<1>2. ASSUME IInv, [Next]_vars PROVE [Final]_vars
  BY <1>1, <1>2
<1>3. QED
  BY <1>2, Inductive, PTL DEF Spec, OutcomeIsFinal

\* An event says that a seat was released exactly when the transaction that writes
\* it makes the seat AVAILABLE.
THEOREM ReleasesAreReal == Spec => ReleasedMeansFreed
<1> DEFINE Freed ==
      \A r \in Rids :
        outbox'[r]["released"] > outbox[r]["released"] =>
          /\ seat[SeatOf(r)] = "reserved"
          /\ seat'[SeatOf(r)] = "available"
<1>1. ASSUME IInv, [Next]_vars PROVE Freed
  <2>1. ASSUME NEW r \in Rids, outbox'[r] = outbox[r]
        PROVE  ~ (outbox'[r]["released"] > outbox[r]["released"])
    BY <1>1, <2>1 DEF IInv, TypeOK, Events
  <2>2. CASE \A p \in Procs : ~ Commit(p)
    BY <1>1, <2>1, <2>2, OnlyCommitsWrite
  <2>3. ASSUME NEW p \in Procs, CommitCreate(p), NEW r \in Rids
        PROVE  outbox'[r]["released"] = outbox[r]["released"]
    BY <1>1, <2>3 DEF CommitCreate, IInv, TypeOK, Events
  <2>4. ASSUME NEW p \in Procs, CommitSale(p), NEW r \in Rids
        PROVE  outbox'[r]["released"] = outbox[r]["released"]
    BY <1>1, <2>4 DEF CommitSale, CountEvents, IInv, TypeOK, Events
  <2>5. ASSUME NEW p \in Procs, CommitRelease(p) PROVE Freed
    <3>1. /\ tx[p].row \in Rids
          /\ \/ tx[p].seats = {}
             \/ /\ tx[p].seats = {SeatOf(tx[p].row)}
                /\ seat[SeatOf(tx[p].row)] = "reserved"
      BY <1>1, <2>5, OwnTx DEF CommitRelease, TxReliesOn
    <3>2. CASE tx[p].seats = {}
      <4>1. "released" \notin ReleaseEvents(p)
        BY <3>2 DEF ReleaseEvents
      <4>2. \A r \in Rids : outbox'[r]["released"] = outbox[r]["released"]
        BY <1>1, <2>5, <4>1 DEF CommitRelease, CountEvents, IInv, TypeOK, Events
      <4>3. \A r \in Rids : outbox[r]["released"] \in Nat
        BY <1>1 DEF IInv, TypeOK, Events
      <4>4. QED
        BY <4>2, <4>3
    <3>3. CASE /\ tx[p].seats = {SeatOf(tx[p].row)}
               /\ seat[SeatOf(tx[p].row)] = "reserved"
      <4>1. seat'[SeatOf(tx[p].row)] = "available"
        BY <2>5, <3>1, <3>3, RidFacts DEF CommitRelease
      <4>2. \A r \in Rids \ {tx[p].row} : outbox'[r] = outbox[r]
        BY <1>1, <2>5 DEF CommitRelease, CountEvents, IInv, TypeOK
      <4>3. QED
        BY <2>1, <3>3, <4>1, <4>2
    <3>4. QED
      BY <3>1, <3>2, <3>3
  <2>6. \A r \in Rids : outbox[r]["released"] \in Nat
    BY <1>1 DEF IInv, TypeOK, Events
  <2>7. QED
    BY <2>2, <2>3, <2>4, <2>5, <2>6 DEF Commit
<1>2. ASSUME IInv, [Next]_vars PROVE [Freed]_vars
  BY <1>1, <1>2
<1>3. QED
  BY <1>2, Inductive, PTL DEF Spec, ReleasedMeansFreed

-----------------------------------------------------------------------------
(***************************************************************************)
(* The refinement                                                          *)
(***************************************************************************)
\* What TicketSales sees.
Bar == <<[r \in Rids |-> res[r].status], sales>>

LEMMA InitRefines == Init => TS!Init
BY DEF Init, TS!Init, TS!Tickets, Rids

\* Only commits show.
LEMMA StatementsStutter ==
  ASSUME [Next]_vars, \A p \in Procs : ~ Commit(p)
  PROVE  UNCHANGED Bar
<1> USE DEF tables
<1>1. ASSUME NEW p \in Procs, Request(p) PROVE sales' = sales
  BY <1>1 DEF Request, StartCreate, LockForSale, LockForRelease, LockForTouch, ReadSeatForUpdate
<1>2. ASSUME NEW p \in Procs, Proceed(p) PROVE sales' = sales
  BY <1>2 DEF Proceed, Commit, ReserveSeat, InsertReservation, SellSeat, ReleaseSeat,
     CommitTouch, LockExpired, WriteSeat
<1>3. ASSUME NEW p \in Procs, ScanExpired(p) \/ Fail(p) PROVE sales' = sales
  BY <1>3 DEF ScanExpired, Fail
<1>4. CASE Tick \/ UNCHANGED vars
  BY <1>4, OnlyCommitsWrite DEF Tick, vars, Bar
<1>5. QED
  BY <1>1, <1>2, <1>3, <1>4, OnlyCommitsWrite DEF Next, Procs, Bar

LEMMA CreateRefines ==
  ASSUME IInv, NEW p \in Procs, CommitCreate(p)
  PROVE  TS!Reserve \/ UNCHANGED Bar
<1> DEFINE M == tx[p].made
<1>1. /\ M \subseteq Rids
      /\ \A r \in M : res[r].status = "none" /\ PendingOn(SeatOf(r)) = {}
      /\ \A r1, r2 \in M : SeatOf(r1) = SeatOf(r2) => r1 = r2
  BY OwnTx DEF CommitCreate, TxReliesOn, Tx
<1>2. /\ \A r \in Rids : res'[r].status = IF r \in M THEN "pending" ELSE res[r].status
      /\ sales' = sales
  BY DEF CommitCreate
<1>3. CASE M = {}
  BY <1>2, <1>3 DEF Bar
<1>4. CASE M # {}
  <2>1. \A r \in M, u \in Rids : res[u].status = "pending" => r[1] # u[1]
    BY <1>1 DEF PendingOn, SeatOf
  <2>2. \A r1, r2 \in M : r1[1] = r2[1] => r1 = r2
    BY <1>1 DEF SeatOf
  <2> HIDE DEF M
  <2>3. QED
    BY <1>1, <1>2, <1>4, <2>1, <2>2 DEF TS!Reserve, TS!Tickets, Rids
<1>5. QED
  BY <1>3, <1>4

LEMMA SaleRefines ==
  ASSUME IInv, NEW p \in Procs, CommitSale(p)
  PROVE  \E r \in Rids : TS!Sell(r)
<1>1. PICK r \in Rids :
        /\ r = tx[p].row /\ res[r].status = "pending" /\ tx[p].to = "confirmed"
        /\ \A x \in sales : x[1] # r[1]
  BY OwnTx DEF CommitSale, TxReliesOn, SeatOf
<1>2. /\ \A x \in Rids : res'[x].status = IF x = r THEN "confirmed" ELSE res[x].status
      /\ sales' = sales \cup {r}
  BY <1>1 DEF CommitSale, IInv, TypeOK, Reservation
<1>3. [x \in Rids |-> res'[x].status]
        = [[x \in Rids |-> res[x].status] EXCEPT ![r] = "confirmed"]
  BY <1>2
<1>4. TS!Sell(r)
  BY <1>1, <1>2, <1>3 DEF TS!Sell
<1>5. QED
  BY <1>1, <1>4

LEMMA ReleaseRefines ==
  ASSUME IInv, NEW p \in Procs, CommitRelease(p)
  PROVE  \E r \in Rids : TS!Release(r)
<1>1. PICK r \in Rids, o \in {"expired", "cancelled", "deleted"} :
        r = tx[p].row /\ o = tx[p].to /\ res[r].status = "pending"
  BY OwnTx DEF CommitRelease, TxReliesOn
<1>2. /\ \A x \in Rids : res'[x].status = IF x = r THEN o ELSE res[x].status
      /\ sales' = sales
  BY <1>1 DEF CommitRelease, IInv, TypeOK, Reservation
<1>3. [x \in Rids |-> res'[x].status] = [[x \in Rids |-> res[x].status] EXCEPT ![r] = o]
  BY <1>2
<1>4. TS!Release(r)
  BY <1>1, <1>2, <1>3 DEF TS!Release, TS!Released
<1>5. QED
  BY <1>1, <1>4

\* Clients, jobs and administrators, interleaved and failing in any way, look from
\* outside like requests that reserve, sell and release tickets one at a time.
THEOREM BookingImplementsTicketSales == Spec => ImplementsTicketSales
<1>1. Init => TS!Init
  BY InitRefines
<1>2. ASSUME IInv, [Next]_vars PROVE TS!Next \/ UNCHANGED Bar
  <2>1. CASE \A p \in Procs : ~ Commit(p)
    BY <1>2, <2>1, StatementsStutter
  <2>2. ASSUME NEW p \in Procs, Commit(p) PROVE TS!Next \/ UNCHANGED Bar
    BY <1>2, <2>2, CreateRefines, SaleRefines, ReleaseRefines DEF Commit, TS!Next, TS!Tickets, Rids
  <2>3. QED
    BY <2>1, <2>2
<1>3. ASSUME IInv, [Next]_vars
      PROVE  [TS!Next]_<<[r \in Rids |-> res[r].status], sales>>
  BY <1>2, <1>3 DEF Bar
<1>4. QED
  BY <1>1, <1>3, Inductive, PTL DEF Spec, ImplementsTicketSales, TS!Spec

\* TicketSales is the promise it is meant to be: whatever implements it never lets two
\* requests hold, or buy, one seat.
THEOREM TicketSalesKeepsItsPromise == ImplementsTicketSales => []TS!OneHolder
<1> USE DEF TS!Tickets, Rids
<1>1. TS!Init => TS!OneHolder
  BY DEF TS!Init, TS!OneHolder
<1>2. ASSUME TS!OneHolder, TS!Reserve PROVE TS!OneHolder'
  <2> DEFINE status == [r \in Rids |-> res[r].status]
  <2>1. PICK T \in (SUBSET Rids) \ {{}} :
          /\ \A t \in T : status[t] = "none"
          /\ \A t, u \in T : t[1] = u[1] => t = u
          /\ \A t \in T, u \in Rids : status[u] = "pending" => t[1] # u[1]
          /\ status' = [t \in Rids |-> IF t \in T THEN "pending" ELSE status[t]]
          /\ sales' = sales
    BY <1>2 DEF TS!Reserve
  <2>2. \A r \in Rids : res'[r].status = IF r \in T THEN "pending" ELSE res[r].status
    <3>1. [r \in Rids |-> res'[r].status]
            = [t \in Rids |-> IF t \in T THEN "pending" ELSE res[t].status]
      BY <2>1
    <3>2. QED
      BY <3>1
  <2>3. \A t \in T : res[t].status = "none"
                   /\ \A u \in Rids : res[u].status = "pending" => t[1] # u[1]
    BY <2>1
  <2> HIDE DEF status
  <2>4. QED
    BY <1>2, <2>1, <2>2, <2>3 DEF TS!OneHolder
<1>3. ASSUME TS!OneHolder, NEW t \in Rids, TS!Sell(t) PROVE TS!OneHolder'
  <2>1. /\ res[t].status = "pending" /\ \A u \in sales : u[1] # t[1]
        /\ [r \in Rids |-> res'[r].status]
             = [[r \in Rids |-> res[r].status] EXCEPT ![t] = "confirmed"]
        /\ sales' = sales \cup {t}
    BY <1>3 DEF TS!Sell
  <2>2. \A r \in Rids : res'[r].status = IF r = t THEN "confirmed" ELSE res[r].status
    BY <2>1
  <2>3. QED
    BY <1>3, <2>1, <2>2 DEF TS!OneHolder
<1>4. ASSUME TS!OneHolder, NEW t \in Rids, TS!Release(t) PROVE TS!OneHolder'
  <2>1. PICK outcome \in {"expired", "cancelled", "deleted"} :
          /\ res[t].status = "pending"
          /\ [r \in Rids |-> res'[r].status]
               = [[r \in Rids |-> res[r].status] EXCEPT ![t] = outcome]
          /\ sales' = sales
    BY <1>4 DEF TS!Release, TS!Released
  <2>2. \A r \in Rids : res'[r].status = IF r = t THEN outcome ELSE res[r].status
    BY <2>1
  <2>3. QED
    BY <1>4, <2>1, <2>2 DEF TS!OneHolder
<1>5. TS!OneHolder /\ [TS!Next]_<<[r \in Rids |-> res[r].status], sales>> => TS!OneHolder'
  <2>1. ASSUME TS!OneHolder, UNCHANGED <<[r \in Rids |-> res[r].status], sales>>
        PROVE  TS!OneHolder'
    <3>1. (\A r \in Rids : res'[r].status = res[r].status) /\ sales' = sales
      BY <2>1
    <3>2. QED
      BY <2>1, <3>1 DEF TS!OneHolder
  <2>2. QED
    BY <1>2, <1>3, <1>4, <2>1 DEF TS!Next
<1>6. QED
  BY <1>1, <1>5, PTL DEF ImplementsTicketSales, TS!Spec
=============================================================================
