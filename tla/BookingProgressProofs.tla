----------------------- MODULE BookingProgressProofs -----------------------
(***************************************************************************)
(* What keeps Booking's transactions going, for any number of seats,       *)
(* requests and runs of the expiration job: they never wait for each other *)
(* in a circle, and each statement brings its transaction nearer to its    *)
(* end.  Fair scheduling adds the rest, and is checked by TLC.             *)
(*                                                                         *)
(* No circle: only creations wait for something that a waiting transaction *)
(* holds, and then for a seat above all those they have locked, because    *)
(* they lock seats in ascending order (SeatsInOrder).  So the creation     *)
(* that waits for the highest seat waits for none of the others.  There is *)
(* a highest one because finitely many transactions are under way          *)
(* (FiniteWork), however many there may ever be.                           *)
(***************************************************************************)
EXTENDS BookingProofs, FiniteSetTheorems, WellFoundedInduction

-----------------------------------------------------------------------------
(***************************************************************************)
(* Finite sets                                                             *)
(***************************************************************************)
\* Some element of a finite set has the greatest value.
LEMMA GreatestElement ==
  ASSUME NEW S, IsFiniteSet(S), S # {}, NEW f \in [S -> Nat]
  PROVE  \E x \in S : \A y \in S : f[y] <= f[x]
<1> DEFINE Top(T) == \E x \in T : \A y \in T : f[y] <= f[x]
           Topless == {T \in FiniteSubsetsOf(S) : T # {} /\ ~ Top(T)}
<1>1. S \in FiniteSubsetsOf(S)
  BY DEF FiniteSubsetsOf
<1>2. SUFFICES Topless = {}
  BY <1>1
<1>3. SUFFICES ASSUME Topless # {} PROVE FALSE
  OBVIOUS
<1>4. PICK T \in Topless : \A U \in Topless : <<U, T>> \notin StrictSubsetOrdering(S)
  <2>1. Topless \subseteq FiniteSubsetsOf(S)
    OBVIOUS
  <2> HIDE DEF Topless
  <2>2. QED
    BY <1>3, <2>1, FS_StrictSubsetOrderingWellFounded, WFMin
<1>5. T \subseteq S /\ IsFiniteSet(T) /\ T # {} /\ ~ Top(T)
  BY DEF FiniteSubsetsOf
<1>6. PICK x \in T : TRUE
  BY <1>5
<1>7. T \ {x} \in FiniteSubsetsOf(S)
  BY <1>5, FS_RemoveElement DEF FiniteSubsetsOf
<1>8. <<T \ {x}, T>> \in StrictSubsetOrdering(S)
  BY <1>5, <1>6 DEF StrictSubsetOrdering
<1>9. T \ {x} = {} \/ Top(T \ {x})
  BY <1>4, <1>7, <1>8
<1>10. CASE T \ {x} = {}
  BY <1>5, <1>6, <1>10
<1>11. CASE Top(T \ {x})
  <2>1. PICK m \in T \ {x} : \A y \in T \ {x} : f[y] <= f[m]
    BY <1>11
  <2>2. \A y \in T : f[y] \in Nat
    BY <1>5
  <2>3. CASE f[x] <= f[m]
    BY <1>5, <2>1, <2>2, <2>3
  <2>4. CASE f[m] < f[x]
    BY <1>5, <1>6, <2>1, <2>2, <2>4
  <2>5. QED
    BY <1>6, <2>1, <2>2, <2>3, <2>4
<1>12. QED
  BY <1>9, <1>10, <1>11

-----------------------------------------------------------------------------
(***************************************************************************)
(* Steps                                                                   *)
(***************************************************************************)
Step(p) == Request(p) \/ ScanExpired(p) \/ Proceed(p) \/ Fail(p)

\* The transaction that p has after its step is this one.
LEMMA OneTransactionMoves ==
  ASSUME TypeOK, [Next]_vars
  PROVE  \/ UNCHANGED tx
         \/ \E p \in Procs : /\ Step(p)
                            /\ \A q \in Procs \ {p} : tx'[q] = tx[q]
<1>1. ASSUME NEW p \in Procs, NEW t, Becomes(p, t)
      PROVE  \A q \in Procs \ {p} : tx'[q] = tx[q]
  BY <1>1 DEF Becomes, TypeOK
<1>2. ASSUME NEW p \in Procs, Step(p) PROVE \E t : Becomes(p, t)
  <2>1. CASE Request(p)
    BY <2>1 DEF Request, StartCreate, LockForSale, LockForRelease, LockForTouch,
       ReadSeatForUpdate
  <2>2. CASE ScanExpired(p)
    BY <2>2 DEF ScanExpired
  <2>3. CASE Fail(p)
    BY <2>3 DEF Fail
  <2>4. CASE Proceed(p)
    BY <2>4 DEF Proceed, ReserveSeat, InsertReservation, CommitCreate, SellSeat, CommitSale,
       ReleaseSeat, CommitRelease, CommitTouch, LockExpired, WriteSeat
  <2>5. QED
    BY <1>2, <2>1, <2>2, <2>3, <2>4 DEF Step
<1>3. CASE Tick \/ UNCHANGED vars
  BY <1>3 DEF Tick, vars
<1>4. ASSUME NEW p \in Procs, Step(p)
      PROVE  \E q \in Procs : /\ Step(q)
                            /\ \A other \in Procs \ {q} : tx'[other] = tx[other]
  BY <1>1, <1>2, <1>4
<1>5. QED
  BY <1>3, <1>4 DEF Next, Step, Procs

\* A process that starts nothing has a transaction that is over, or goes on with a batch.
LEMMA EndedTx ==
  /\ NoTx.pc = "idle" /\ NoTx.batch = {} /\ NoTx.made = {} /\ NoTx.seats = {} /\ NoTx.row = NoRow
  /\ \A batch : /\ Resume(batch).pc = IF batch = {} THEN "idle" ELSE "expire"
                /\ Resume(batch).batch = batch
                /\ Resume(batch).made = {}
BY DEF NoTx, Resume

-----------------------------------------------------------------------------
(***************************************************************************)
(* Creations lock seats in ascending order                                 *)
(***************************************************************************)
Ordered(t) ==
  t.pc \in {"reserve", "insert"} =>
    /\ Ascending(t.todo)
    /\ \A s \in t.seats, i \in 1 .. Len(t.todo) : s <= t.todo[i]

SeatsInOrder == \A p \in Procs : Ordered(tx[p])

LEMMA OrderedStep ==
  ASSUME IInv, SeatsInOrder, NEW p \in Procs, Step(p)
  PROVE  Ordered(tx'[p])
<1>1. tx[p] \in Tx /\ TxReliesOn(tx[p]) /\ Ordered(tx[p]) /\ DOMAIN tx = Procs
  BY OwnTx DEF SeatsInOrder, IInv, TypeOK
<1>2. ASSUME NEW t, Becomes(p, t) PROVE tx'[p] = t
  BY <1>1, <1>2 DEF Becomes
<1>3. ASSUME NEW batch, Becomes(p, NoTx) \/ Becomes(p, Resume(batch)) PROVE Ordered(tx'[p])
  BY <1>2, <1>3, EndedTx DEF Ordered
<1>4. CASE StartCreate(p)
  <2>1. PICK ids \in SeatIdLists :
          /\ Ascending(ids)
          /\ Becomes(p, [NoTx EXCEPT !.pc = "reserve", !.todo = ids, !.expiresAt = now + TTL])
    BY <1>4 DEF StartCreate
  <2>2. tx'[p].todo = ids /\ tx'[p].seats = {}
    BY <1>2, <2>1 DEF NoTx
  <2>3. QED
    BY <2>1, <2>2 DEF Ordered
<1>5. CASE ReserveSeat(p)
  <2> DEFINE s == Head(tx[p].todo)
             t == [tx[p] EXCEPT !.pc = "insert", !.seats = @ \cup {s}]
  <2>1. CASE Becomes(p, NoTx)
    BY <1>3, <2>1
  <2>2. CASE Becomes(p, t)
    <3>1. tx[p].pc = "reserve" /\ tx[p].todo \in Seq(Seats) /\ tx[p].todo # << >>
      BY <1>1, <1>5 DEF ReserveSeat, TxReliesOn, Tx
    <3>2. /\ Ascending(tx[p].todo)
          /\ \A x \in tx[p].seats, i \in 1 .. Len(tx[p].todo) : x <= tx[p].todo[i]
      BY <1>1, <3>1 DEF Ordered
    <3>3. s = tx[p].todo[1] /\ 1 \in 1 .. Len(tx[p].todo) /\ Len(tx[p].todo) \in Nat
      BY <3>1
    <3>4. \A i \in 1 .. Len(tx[p].todo) : s <= tx[p].todo[i]
      BY <3>2, <3>3 DEF Ascending
    <3>5. tx'[p].todo = tx[p].todo /\ tx'[p].seats = tx[p].seats \cup {s}
      BY <1>1, <1>2, <2>2 DEF Tx
    <3>6. QED
      BY <3>2, <3>4, <3>5 DEF Ordered
  <2>3. QED
    BY <1>5, <2>1, <2>2 DEF ReserveSeat
<1>6. CASE InsertReservation(p)
  <2> DEFINE t(r) == [tx[p] EXCEPT !.pc = AfterInsert(p), !.todo = Tail(@),
                                   !.made = @ \cup {r}]
  <2>1. CASE Becomes(p, NoTx)
    BY <1>3, <2>1
  <2>2. ASSUME NEW r \in Rids, Becomes(p, t(r)) PROVE Ordered(tx'[p])
    <3>1. tx[p].pc = "insert" /\ tx[p].todo \in Seq(Seats) /\ tx[p].todo # << >>
      BY <1>1, <1>6 DEF InsertReservation, TxReliesOn, Tx
    <3>2. /\ Ascending(tx[p].todo)
          /\ \A x \in tx[p].seats, i \in 1 .. Len(tx[p].todo) : x <= tx[p].todo[i]
      BY <1>1, <3>1 DEF Ordered
    <3>3. tx'[p].todo = Tail(tx[p].todo) /\ tx'[p].seats = tx[p].seats
      BY <1>1, <1>2, <2>2 DEF Tx
    <3>4. /\ Len(Tail(tx[p].todo)) = Len(tx[p].todo) - 1 /\ Len(tx[p].todo) \in Nat
          /\ \A i \in 1 .. Len(Tail(tx[p].todo)) : /\ i + 1 \in 1 .. Len(tx[p].todo)
                                                  /\ Tail(tx[p].todo)[i] = tx[p].todo[i + 1]
      BY <3>1
    <3>5. Ascending(Tail(tx[p].todo))
      BY <3>2, <3>4 DEF Ascending
    <3>6. QED
      BY <3>2, <3>3, <3>4, <3>5 DEF Ordered
  <2>3. QED
    BY <1>6, <2>1, <2>2 DEF InsertReservation
<1>7. CASE \/ LockForSale(p) \/ LockForRelease(p) \/ LockForTouch(p)
           \/ ReadSeatForUpdate(p) \/ ScanExpired(p)
  <2>1. tx'[p].pc \in {"saleSeat", "releaseSeat", "commitTouch", "adminWrite", "expire"}
    BY <1>2, <1>7 DEF LockForSale, LockForRelease, LockForTouch, ReadSeatForUpdate,
       ScanExpired, NoTx
  <2>2. QED
    BY <2>1 DEF Ordered
<1>8. CASE SellSeat(p) \/ ReleaseSeat(p)
  <2>1. tx'[p].pc \in {"commitSale", "commitRelease", "idle"}
    BY <1>1, <1>2, <1>8, EndedTx DEF SellSeat, ReleaseSeat, Tx
  <2>2. QED
    BY <2>1 DEF Ordered
<1>9. CASE LockExpired(p)
  <2>1. ASSUME NEW r, Becomes(p, [tx[p] EXCEPT !.pc = "releaseSeat", !.row = r,
                                               !.to = "expired", !.batch = @ \ {r}])
        PROVE  Ordered(tx'[p])
    BY <1>1, <1>2, <2>1 DEF Ordered, Tx
  <2>2. QED
    BY <1>3, <1>9, <2>1 DEF LockExpired
<1>10. CASE CommitCreate(p) \/ CommitSale(p) \/ CommitRelease(p) \/ CommitTouch(p) \/ WriteSeat(p)
  BY <1>3, <1>10 DEF CommitCreate, CommitSale, CommitRelease, CommitTouch, WriteSeat
<1>11. CASE Fail(p)
  BY <1>3, <1>11 DEF Fail
<1>12. QED
  BY <1>4, <1>5, <1>6, <1>7, <1>8, <1>9, <1>10, <1>11 DEF Step, Request, Proceed

LEMMA OrderInductive == IInv /\ SeatsInOrder /\ [Next]_vars => SeatsInOrder'
<1> SUFFICES ASSUME IInv, SeatsInOrder, [Next]_vars PROVE SeatsInOrder'
  OBVIOUS
<1>1. TypeOK
  BY DEF IInv
<1>2. CASE UNCHANGED tx
  BY <1>2 DEF SeatsInOrder, Ordered
<1>3. ASSUME NEW p \in Procs, Step(p), \A q \in Procs \ {p} : tx'[q] = tx[q]
      PROVE  SeatsInOrder'
  <2>1. Ordered(tx'[p])
    BY <1>3, OrderedStep
  <2>2. \A q \in Procs \ {p} : Ordered(tx'[q])
    BY <1>3 DEF SeatsInOrder
  <2>3. QED
    BY <2>1, <2>2 DEF SeatsInOrder, Ordered
<1>4. QED
  BY <1>1, <1>2, <1>3, OneTransactionMoves

-----------------------------------------------------------------------------
(***************************************************************************)
(* Finitely many transactions are under way                                *)
(***************************************************************************)
Busy == {p \in Procs : tx[p].pc # "idle"}

FiniteWork == IsFiniteSet(Busy)

LEMMA WorkInductive == TypeOK /\ FiniteWork /\ [Next]_vars => FiniteWork'
<1> SUFFICES ASSUME TypeOK, FiniteWork, [Next]_vars PROVE FiniteWork'
  OBVIOUS
<1>1. CASE UNCHANGED tx
  BY <1>1 DEF FiniteWork, Busy
<1>2. ASSUME NEW p \in Procs, \A q \in Procs \ {p} : tx'[q] = tx[q]
      PROVE  FiniteWork'
  <2>1. Busy' \in SUBSET (Busy \cup {p})
    BY <1>2 DEF Busy
  <2>2. IsFiniteSet(Busy \cup {p})
    BY FS_AddElement DEF FiniteWork
  <2>3. IsFiniteSet(Busy')
    BY <2>1, <2>2, FS_Subset
  <2>4. QED
    BY <2>3 DEF FiniteWork
<1>3. QED
  BY <1>1, <1>2, OneTransactionMoves

LEMMA ProgressInvariant == Spec => [](IInv /\ SeatsInOrder /\ FiniteWork)
<1>1. Init => SeatsInOrder
  BY DEF Init, SeatsInOrder, Ordered, NoTx
<1>2. Init => FiniteWork
  <2>1. Init => Busy = {}
    BY DEF Init, Busy, NoTx
  <2>2. QED
    BY <2>1, FS_EmptySet DEF FiniteWork
<1>3. IInv => TypeOK
  BY DEF IInv
<1>4. QED
  BY <1>1, <1>2, <1>3, Inductive, OrderInductive, WorkInductive, PTL DEF Spec

-----------------------------------------------------------------------------
(***************************************************************************)
(* Nobody waits in a circle                                                *)
(***************************************************************************)
\* A seat is locked AVAILABLE by a creation, or RESERVED by a transaction about to commit.
LEMMA SeatHolders ==
  ASSUME IInv, NEW q \in Procs, NEW s \in tx[q].seats
  PROVE  \/ tx[q].pc \in {"reserve", "insert", "commitCreate"} /\ seat[s] = "available"
         \/ tx[q].pc \in {"commitSale", "commitRelease"} /\ seat[s] = "reserved"
<1>1. tx[q] \in Tx /\ TxReliesOn(tx[q])
  BY OwnTx
<1>2. tx[q].pc \in PCs
  BY <1>1 DEF Tx
<1>3. QED
  BY <1>1, <1>2 DEF TxReliesOn, PCs

\* Whoever an INSERT waits for goes on: the seat of the reservation it writes is locked
\* AVAILABLE, so its own release does not wait for it.
LEMMA WritersGoOn ==
  ASSUME IInv, NEW p \in Procs, NEW q \in Procs, tx[p].pc = "insert", WaitsFor(p, q),
         NEW other \in Procs, WaitsFor(q, other)
  PROVE  FALSE
<1>1. PICK r \in PendingOn(Head(tx[p].todo)) : Writing(q, r)
  BY DEF WaitsFor, IndexWait
<1>2. tx[q].pc = "releaseSeat" /\ seat[SeatOf(tx[q].row)] = "reserved"
  BY <1>1 DEF Writing, WaitsFor
<1>3. SeatOf(tx[q].row) = Head(tx[p].todo)
  BY <1>1 DEF Writing, PendingOn
<1>4. seat[Head(tx[p].todo)] = "available"
  BY OwnTx DEF TxReliesOn
<1>5. QED
  BY <1>2, <1>3, <1>4

\* A waiting transaction that has locked a seat is a creation: one that waits for its
\* next seat, or for an INSERT.
LEMMA WaitingHolders ==
  ASSUME IInv, NEW q \in Procs, tx[q].seats # {}, NEW other \in Procs, WaitsFor(q, other)
  PROVE  tx[q].pc \in {"reserve", "insert"}
BY SeatHolders DEF WaitsFor

\* Transactions never wait for each other in a circle, however many requests and jobs
\* there are and whatever seats they name: PostgreSQL has no deadlock to break.
THEOREM NobodyWaitsInACircle == Spec => []NoDeadlock
<1>1. ASSUME IInv, SeatsInOrder, FiniteWork PROVE NoDeadlock
  <2> SUFFICES ASSUME NEW S \in (SUBSET Procs) \ {{}}, \A p \in S : \E q \in S : WaitsFor(p, q)
               PROVE  FALSE
    BY DEF NoDeadlock
  <2> USE <1>1
  <2> DEFINE Creating == {p \in S : tx[p].pc = "reserve"}
  <2>1. \A p \in S : tx[p].seats # {} => p \in Creating
    BY WaitingHolders, WritersGoOn
  <2>2. Creating # {}
    <3>1. PICK p \in S, q \in S : WaitsFor(p, q)
      OBVIOUS
    <3>2. PICK other \in S : WaitsFor(q, other)
      OBVIOUS
    <3>3. CASE tx[p].pc = "insert"
      BY <3>1, <3>2, <3>3, WritersGoOn
    <3>4. CASE tx[p].pc = "expire"
      <4>1. tx[q].row # NoRow
        BY <3>1, <3>4, RidFacts, OwnTx DEF WaitsFor, Earliest, Tx
      <4>2. tx[q].pc \in {"saleSeat", "releaseSeat"}
        BY <3>2, <4>1, OwnTx DEF WaitsFor, TxReliesOn
      <4>3. tx[other].seats # {}
        BY <3>2, <4>2 DEF WaitsFor
      <4>4. QED
        BY <2>1, <4>3
    <3>5. CASE tx[p].pc \notin {"insert", "expire"}
      BY <2>1, <3>1, <3>5 DEF WaitsFor
    <3>6. QED
      BY <3>3, <3>4, <3>5
  <2>3. \A p \in Creating : \E q \in Creating : WaitsFor(p, q)
    BY <2>1 DEF WaitsFor
  <2>4. \A p \in Creating : /\ tx[p].todo \in Seq(Seats) /\ tx[p].todo # << >>
                           /\ Head(tx[p].todo) = tx[p].todo[1]
                           /\ 1 \in 1 .. Len(tx[p].todo)
                           /\ Head(tx[p].todo) \in Nat
    <3>1. ASSUME NEW ids \in Seq(Seats), ids # << >>
          PROVE  Head(ids) = ids[1] /\ 1 \in 1 .. Len(ids) /\ Head(ids) \in Seats
      BY <3>1
    <3>2. ASSUME NEW p \in Creating PROVE tx[p].todo \in Seq(Seats) /\ tx[p].todo # << >>
      <4>1. tx[p] \in Tx /\ TxReliesOn(tx[p]) /\ tx[p].pc = "reserve"
        BY OwnTx
      <4>2. QED
        BY <4>1 DEF TxReliesOn, Tx
    <3>3. QED
      BY <3>1, <3>2, SeatsAssumption
  <2>5. PICK p \in Creating : \A q \in Creating : Head(tx[q].todo) <= Head(tx[p].todo)
    <3> DEFINE next == [q \in Creating |-> Head(tx[q].todo)]
    <3>1. next \in [Creating -> Nat]
      BY <2>4
    <3>2. Creating \in SUBSET Busy
      BY DEF Busy
    <3>3. IsFiniteSet(Creating)
      BY <3>2, FS_Subset DEF FiniteWork
    <3>4. PICK p \in Creating : \A q \in Creating : next[q] <= next[p]
      <4> HIDE DEF next, Creating
      <4>1. QED
        BY <2>2, <3>1, <3>3, GreatestElement
    <3>5. QED
      BY <3>4
  <2>6. PICK q \in Creating : WaitsFor(p, q)
    BY <2>3
  <2>7. PICK other \in Creating : WaitsFor(q, other)
    BY <2>3
  <2>8. Head(tx[p].todo) \in tx[q].seats /\ Head(tx[q].todo) \in tx[other].seats /\ q # other
    BY <2>6, <2>7 DEF WaitsFor
  <2>9. Head(tx[p].todo) <= Head(tx[q].todo)
    BY <2>4, <2>8 DEF SeatsInOrder, Ordered
  <2>10. Head(tx[q].todo) = Head(tx[p].todo)
    BY <2>4, <2>5, <2>9
  <2>11. tx[q].seats \cap tx[other].seats = {}
    BY <2>8 DEF IInv, TransactionsIsolated, LocksExclusive
  <2>12. QED
    BY <2>8, <2>10, <2>11
<1>2. QED
  BY <1>1, ProgressInvariant, PTL

\* As long as a transaction is under way, one of those under way waits for nobody.
THEOREM SomeTransactionGoesOn ==
  Spec => [](Busy # {} => \E p \in Busy : \A q \in Procs : ~ WaitsFor(p, q))
<1>1. ASSUME IInv, NEW p \in Procs, NEW q \in Procs, WaitsFor(p, q) PROVE q \in Busy
  <2>1. tx[q].seats # {} \/ tx[q].row # NoRow
    BY <1>1, RidFacts, OwnTx DEF WaitsFor, IndexWait, PendingOn, Writing, Earliest, Tx
  <2>2. TxReliesOn(tx[q])
    BY <1>1, OwnTx
  <2>3. QED
    BY <2>1, <2>2 DEF TxReliesOn, Busy
<1>2. IInv /\ NoDeadlock /\ Busy # {} => \E p \in Busy : \A q \in Procs : ~ WaitsFor(p, q)
  <2> SUFFICES ASSUME IInv, NoDeadlock, Busy # {}
               PROVE  \E p \in Busy : \A q \in Procs : ~ WaitsFor(p, q)
    OBVIOUS
  <2>1. PICK p \in Busy : \A q \in Busy : ~ WaitsFor(p, q)
    BY DEF NoDeadlock, Busy
  <2>2. QED
    BY <1>1, <2>1 DEF Busy
<1>3. QED
  BY <1>2, Inductive, NobodyWaitsInACircle, PTL

-----------------------------------------------------------------------------
(***************************************************************************)
(* Each statement brings its transaction nearer to its end                 *)
(***************************************************************************)
\* The statements a transaction has left at most; those of the job, for its whole batch.
StepsLeft(t) ==
  CASE t.pc = "idle" -> 0
    [] t.pc = "reserve" -> 2 * Len(t.todo) + 1
    [] t.pc = "insert" -> 2 * Len(t.todo)
    [] t.pc = "saleSeat" -> 2
    [] t.pc \in {"commitCreate", "commitSale", "commitTouch", "adminWrite"} -> 1
    [] t.pc = "expire" -> 3 * Cardinality(t.batch)
    [] t.pc = "releaseSeat" -> 3 * Cardinality(t.batch) + 2
    [] t.pc = "commitRelease" -> 3 * Cardinality(t.batch) + 1

\* The reservations there are or have been.
Known == {r \in Rids : res[r].status # "none"}

FiniteRows(t) ==
  /\ IsFiniteSet(t.made)
  /\ IsFiniteSet(t.batch)
  /\ t.pc = "expire" => t.batch # {}
  /\ t.pc \notin {"expire", "releaseSeat", "commitRelease"} => t.batch = {}

FiniteTables == IsFiniteSet(Known) /\ \A p \in Procs : FiniteRows(tx[p])

LEMMA EndedRows ==
  /\ FiniteRows(NoTx)
  /\ \A batch : IsFiniteSet(batch) => FiniteRows(Resume(batch))
BY EndedTx, FS_EmptySet DEF FiniteRows

LEMMA RowsStep ==
  ASSUME IInv, FiniteTables, NEW p \in Procs, Step(p)
  PROVE  FiniteRows(tx'[p])
<1>1. /\ tx[p] \in Tx /\ TxReliesOn(tx[p]) /\ FiniteRows(tx[p]) /\ DOMAIN tx = Procs
      /\ IsFiniteSet(tx[p].batch)
  BY OwnTx DEF FiniteTables, FiniteRows, IInv, TypeOK
<1>2. ASSUME NEW t, Becomes(p, t) PROVE tx'[p] = t
  BY <1>1, <1>2 DEF Becomes
<1>3. ASSUME NEW r PROVE IsFiniteSet(tx[p].batch \ {r})
  BY <1>1, FS_RemoveElement
<1>4. ASSUME NEW batch, IsFiniteSet(batch), Becomes(p, NoTx) \/ Becomes(p, Resume(batch))
      PROVE  FiniteRows(tx'[p])
  BY <1>2, <1>4, EndedRows
<1>5. CASE \/ StartCreate(p) \/ LockForSale(p) \/ LockForRelease(p) \/ LockForTouch(p)
           \/ ReadSeatForUpdate(p)
  <2>1. /\ tx'[p].made = {} /\ tx'[p].batch = {} /\ tx'[p].pc # "expire"
    BY <1>2, <1>5 DEF StartCreate, LockForSale, LockForRelease, LockForTouch,
       ReadSeatForUpdate, NoTx
  <2>2. QED
    BY <2>1, FS_EmptySet DEF FiniteRows
<1>6. CASE ScanExpired(p)
  <2>1. PICK batch \in (SUBSET Due) \ {{}} :
          Becomes(p, [NoTx EXCEPT !.pc = "expire", !.batch = batch])
    BY <1>6 DEF ScanExpired
  <2>2. batch \in SUBSET Known
    BY DEF Due, Known
  <2>3. IsFiniteSet(batch)
    BY <2>2, FS_Subset DEF FiniteTables
  <2>4. tx'[p].made = {} /\ tx'[p].batch = batch /\ tx'[p].pc = "expire"
    BY <1>2, <2>1 DEF NoTx
  <2>5. QED
    BY <2>3, <2>4, FS_EmptySet DEF FiniteRows
<1>7. CASE ReserveSeat(p)
  <2>1. CASE Becomes(p, NoTx)
    BY <1>1, <1>4, <2>1
  <2>2. CASE Becomes(p, [tx[p] EXCEPT !.pc = "insert", !.seats = @ \cup {Head(tx[p].todo)}])
    BY <1>1, <1>2, <1>7, <2>2 DEF ReserveSeat, FiniteRows, Tx
  <2>3. QED
    BY <1>7, <2>1, <2>2 DEF ReserveSeat
<1>8. CASE InsertReservation(p)
  <2>1. CASE Becomes(p, NoTx)
    BY <1>1, <1>4, <2>1
  <2>2. ASSUME NEW r, Becomes(p, [tx[p] EXCEPT !.pc = AfterInsert(p), !.todo = Tail(@),
                                               !.made = @ \cup {r}])
        PROVE  FiniteRows(tx'[p])
    <3>1. tx'[p].pc \in {"reserve", "commitCreate"} /\ tx'[p].batch = tx[p].batch
          /\ tx'[p].made = tx[p].made \cup {r}
      BY <1>1, <1>2, <2>2 DEF AfterInsert, Tx
    <3>2. IsFiniteSet(tx[p].made \cup {r})
      BY <1>1, FS_AddElement DEF FiniteRows
    <3>3. tx[p].batch = {}
      BY <1>1, <1>8 DEF FiniteRows, InsertReservation
    <3>4. QED
      BY <3>1, <3>2, <3>3, FS_EmptySet DEF FiniteRows
  <2>3. QED
    BY <1>8, <2>1, <2>2 DEF InsertReservation
<1>9. CASE SellSeat(p) \/ ReleaseSeat(p)
  <2>1. CASE Becomes(p, NoTx)
    BY <1>1, <1>4, <2>1
  <2>2. CASE ~ Becomes(p, NoTx)
    <3>1. /\ tx'[p].made = tx[p].made /\ tx'[p].batch = tx[p].batch
          /\ \/ tx'[p].pc = "commitSale" /\ tx[p].pc = "saleSeat"
             \/ tx'[p].pc = "commitRelease" /\ tx[p].pc = "releaseSeat"
      BY <1>1, <1>2, <1>9, <2>2 DEF SellSeat, ReleaseSeat, Tx
    <3>2. QED
      BY <1>1, <3>1 DEF FiniteRows
  <2>3. QED
    BY <2>1, <2>2
<1>10. CASE LockExpired(p)
  <2>1. ASSUME NEW r, Becomes(p, Resume(tx[p].batch \ {r})) PROVE FiniteRows(tx'[p])
    BY <1>3, <1>4, <2>1
  <2>2. ASSUME NEW r, Becomes(p, [tx[p] EXCEPT !.pc = "releaseSeat", !.row = r,
                                               !.to = "expired", !.batch = @ \ {r}])
        PROVE  FiniteRows(tx'[p])
    <3>1. /\ tx'[p].pc = "releaseSeat" /\ tx'[p].made = tx[p].made
          /\ tx'[p].batch = tx[p].batch \ {r}
      BY <1>1, <1>2, <2>2 DEF Tx
    <3>2. QED
      BY <1>1, <1>3, <3>1 DEF FiniteRows
  <2>3. QED
    BY <1>10, <2>1, <2>2 DEF LockExpired
<1>11. CASE CommitCreate(p) \/ CommitSale(p) \/ CommitRelease(p) \/ CommitTouch(p) \/ WriteSeat(p)
  BY <1>1, <1>4, <1>11 DEF CommitCreate, CommitSale, CommitRelease, CommitTouch, WriteSeat
<1>12. CASE Fail(p)
  BY <1>1, <1>3, <1>4, <1>12 DEF Fail
<1>13. QED
  BY <1>5, <1>6, <1>7, <1>8, <1>9, <1>10, <1>11, <1>12 DEF Step, Request, Proceed

\* Reservations become known when a creation commits.
LEMMA KnownStep == IInv /\ FiniteTables /\ [Next]_vars => IsFiniteSet(Known)'
<1> SUFFICES ASSUME IInv, FiniteTables, [Next]_vars PROVE IsFiniteSet(Known')
  OBVIOUS
<1>1. CASE \A p \in Procs : ~ Commit(p)
  BY <1>1, OnlyCommitsWrite DEF Known, FiniteTables
<1>2. ASSUME NEW p \in Procs, CommitCreate(p) PROVE IsFiniteSet(Known')
  <2>1. Known' \in SUBSET (Known \cup tx[p].made)
    BY <1>2 DEF CommitCreate, Known
  <2>2. IsFiniteSet(Known \cup tx[p].made)
    BY FS_Union DEF FiniteTables, FiniteRows
  <2>3. QED
    BY <2>1, <2>2, FS_Subset
<1>3. ASSUME NEW p \in Procs, CommitSale(p) \/ CommitRelease(p) PROVE IsFiniteSet(Known')
  <2>1. tx[p].row \in Rids /\ res[tx[p].row].status = "pending"
    BY <1>3, OwnTx DEF CommitSale, CommitRelease, TxReliesOn
  <2>2. \A r \in Rids \ {tx[p].row} : res'[r] = res[r]
    BY <1>3 DEF CommitSale, CommitRelease, IInv, TypeOK
  <2>3. Known' \in SUBSET Known
    BY <2>1, <2>2 DEF Known
  <2>4. QED
    BY <2>3, FS_Subset DEF FiniteTables
<1>4. QED
  BY <1>1, <1>2, <1>3 DEF Commit

LEMMA TablesInductive == IInv /\ FiniteTables /\ [Next]_vars => FiniteTables'
<1> SUFFICES ASSUME IInv, FiniteTables, [Next]_vars PROVE FiniteTables'
  OBVIOUS
<1>1. TypeOK
  BY DEF IInv
<1>2. CASE UNCHANGED tx
  BY <1>2, KnownStep DEF FiniteTables, FiniteRows
<1>3. ASSUME NEW p \in Procs, Step(p), \A q \in Procs \ {p} : tx'[q] = tx[q]
      PROVE  FiniteTables'
  <2>1. FiniteRows(tx'[p])
    BY <1>3, RowsStep
  <2>2. \A q \in Procs \ {p} : FiniteRows(tx'[q])
    BY <1>3 DEF FiniteTables
  <2>3. QED
    BY <2>1, <2>2, KnownStep DEF FiniteTables, FiniteRows
<1>4. QED
  BY <1>1, <1>2, <1>3, OneTransactionMoves

LEMMA TablesInvariant == Spec => [](IInv /\ FiniteTables)
<1>1. ASSUME Init PROVE FiniteTables
  <2>1. Known = {}
    BY <1>1 DEF Init, Known
  <2>2. \A p \in Procs : FiniteRows(tx[p])
    BY <1>1, EndedRows DEF Init
  <2>3. QED
    BY <2>1, <2>2, FS_EmptySet DEF FiniteTables
<1>2. QED
  BY <1>1, Inductive, TablesInductive, PTL DEF Spec

LEMMA StepsLeftAt ==
  ASSUME NEW t
  PROVE  /\ t.pc = "idle" => StepsLeft(t) = 0
         /\ t.pc = "reserve" => StepsLeft(t) = 2 * Len(t.todo) + 1
         /\ t.pc = "insert" => StepsLeft(t) = 2 * Len(t.todo)
         /\ t.pc = "saleSeat" => StepsLeft(t) = 2
         /\ t.pc \in {"commitCreate", "commitSale", "commitTouch", "adminWrite"} =>
              StepsLeft(t) = 1
         /\ t.pc = "expire" => StepsLeft(t) = 3 * Cardinality(t.batch)
         /\ t.pc = "releaseSeat" => StepsLeft(t) = 3 * Cardinality(t.batch) + 2
         /\ t.pc = "commitRelease" => StepsLeft(t) = 3 * Cardinality(t.batch) + 1
BY DEF StepsLeft

\* Only a transaction that is over has no statement left.
LEMMA StepsLeftFacts ==
  ASSUME IInv, FiniteTables, NEW p \in Procs
  PROVE  /\ StepsLeft(tx[p]) \in Nat
         /\ StepsLeft(tx[p]) = 0 <=> tx[p].pc = "idle"
<1>1. tx[p].pc \in PCs /\ tx[p].todo \in Seq(Seats) /\ TxReliesOn(tx[p]) /\ FiniteRows(tx[p])
  BY OwnTx DEF Tx, FiniteTables
<1>2. Len(tx[p].todo) \in Nat /\ (tx[p].todo # << >> => Len(tx[p].todo) # 0)
  <2>1. ASSUME NEW ids \in Seq(Seats) PROVE Len(ids) \in Nat /\ (ids # << >> => Len(ids) # 0)
    OBVIOUS
  <2>2. QED
    BY <1>1, <2>1
<1>3. Cardinality(tx[p].batch) \in Nat /\ (tx[p].batch # {} => Cardinality(tx[p].batch) # 0)
  BY <1>1, FS_CardinalityType, FS_EmptySet DEF FiniteRows
<1>4. /\ tx[p].pc \in {"reserve", "insert"} => tx[p].todo # << >>
      /\ tx[p].pc = "expire" => tx[p].batch # {}
  BY <1>1 DEF TxReliesOn, FiniteRows
<1>5. QED
  BY <1>1, <1>2, <1>3, <1>4, StepsLeftAt DEF PCs

LEMMA StepsLeftAtEnd ==
  /\ StepsLeft(NoTx) = 0
  /\ \A batch : IsFiniteSet(batch) => StepsLeft(Resume(batch)) = 3 * Cardinality(batch)
<1>1. StepsLeft(NoTx) = 0
  BY EndedTx, StepsLeftAt
<1>2. ASSUME NEW batch, IsFiniteSet(batch)
      PROVE  StepsLeft(Resume(batch)) = 3 * Cardinality(batch)
  <2>1. CASE batch = {}
    BY <1>1, <2>1, FS_EmptySet DEF Resume
  <2>2. CASE batch # {}
    BY <2>2, EndedTx, StepsLeftAt
  <2>3. QED
    BY <2>1, <2>2
<1>3. QED
  BY <1>1, <1>2

LEMMA NearerToTheEnd ==
  ASSUME IInv, FiniteTables, NEW p \in Procs, Proceed(p) \/ Fail(p)
  PROVE  StepsLeft(tx'[p]) < StepsLeft(tx[p])
<1>1. /\ tx[p] \in Tx /\ TxReliesOn(tx[p]) /\ FiniteRows(tx[p]) /\ DOMAIN tx = Procs
      /\ IsFiniteSet(tx[p].batch)
  BY OwnTx DEF FiniteTables, FiniteRows, IInv, TypeOK
<1>2. ASSUME NEW t, Becomes(p, t) PROVE tx'[p] = t
  BY <1>1, <1>2 DEF Becomes
<1>3. /\ tx[p].pc # "idle"
      /\ StepsLeft(tx[p]) \in Nat \ {0}
  BY StepsLeftFacts DEF Proceed, Fail, ReserveSeat, InsertReservation, CommitCreate, SellSeat,
     CommitSale, ReleaseSeat, CommitRelease, CommitTouch, LockExpired, WriteSeat
<1>4. CASE Becomes(p, NoTx)
  BY <1>2, <1>3, <1>4, StepsLeftAtEnd
<1>5. /\ Cardinality(tx[p].batch) \in Nat
      /\ \A r \in tx[p].batch : /\ IsFiniteSet(tx[p].batch \ {r})
                                /\ Cardinality(tx[p].batch \ {r}) = Cardinality(tx[p].batch) - 1
                                /\ Cardinality(tx[p].batch \ {r}) \in Nat
  BY <1>1, FS_CardinalityType, FS_RemoveElement
<1>6. CASE ReserveSeat(p) /\ ~ Becomes(p, NoTx)
  <2>1. tx'[p].pc = "insert" /\ tx'[p].todo = tx[p].todo /\ tx[p].pc = "reserve"
    BY <1>1, <1>2, <1>6 DEF ReserveSeat, Tx
  <2>2. Len(tx[p].todo) \in Nat
    BY <1>1 DEF Tx
  <2>3. QED
    BY <2>1, <2>2, StepsLeftAt
<1>7. CASE InsertReservation(p) /\ ~ Becomes(p, NoTx)
  <2>1. /\ tx[p].pc = "insert" /\ tx'[p].pc = AfterInsert(p)
        /\ tx'[p].todo = Tail(tx[p].todo) /\ tx[p].todo # << >>
    BY <1>1, <1>2, <1>7 DEF InsertReservation, Tx, TxReliesOn
  <2>2. ASSUME NEW ids \in Seq(Seats), ids # << >>
        PROVE  Len(ids) \in Nat \ {0} /\ Len(Tail(ids)) = Len(ids) - 1
    BY <2>2
  <2>3. Len(tx[p].todo) \in Nat \ {0} /\ Len(tx'[p].todo) = Len(tx[p].todo) - 1
    BY <1>1, <2>1, <2>2 DEF Tx
  <2>4. StepsLeft(tx[p]) = 2 * Len(tx[p].todo)
    BY <2>1, StepsLeftAt
  <2>5. StepsLeft(tx'[p]) \in {1, 2 * Len(tx'[p].todo) + 1}
    BY <2>1, StepsLeftAt DEF AfterInsert
  <2>6. QED
    BY <2>3, <2>4, <2>5
<1>8. CASE (SellSeat(p) \/ ReleaseSeat(p)) /\ ~ Becomes(p, NoTx)
  <2>1. /\ tx'[p].batch = tx[p].batch
        /\ \/ tx'[p].pc = "commitSale" /\ tx[p].pc = "saleSeat"
           \/ tx'[p].pc = "commitRelease" /\ tx[p].pc = "releaseSeat"
    BY <1>1, <1>2, <1>8 DEF SellSeat, ReleaseSeat, Tx
  <2>2. QED
    BY <1>5, <2>1, StepsLeftAt
<1>9. CASE CommitRelease(p)
  BY <1>1, <1>2, <1>5, <1>9, StepsLeftAtEnd, StepsLeftAt DEF CommitRelease
<1>10. ASSUME NEW r \in tx[p].batch, tx[p].pc = "expire", Becomes(p, Resume(tx[p].batch \ {r}))
       PROVE  StepsLeft(tx'[p]) < StepsLeft(tx[p])
  BY <1>2, <1>5, <1>10, StepsLeftAtEnd, StepsLeftAt
<1>11. ASSUME NEW r \in tx[p].batch, tx[p].pc = "expire",
              Becomes(p, [tx[p] EXCEPT !.pc = "releaseSeat", !.row = r,
                                       !.to = "expired", !.batch = @ \ {r}])
       PROVE  StepsLeft(tx'[p]) < StepsLeft(tx[p])
  <2>1. tx'[p].pc = "releaseSeat" /\ tx'[p].batch = tx[p].batch \ {r}
    BY <1>1, <1>2, <1>11 DEF Tx
  <2>2. /\ StepsLeft(tx[p]) = 3 * Cardinality(tx[p].batch)
        /\ StepsLeft(tx'[p]) = 3 * Cardinality(tx[p].batch \ {r}) + 2
    BY <1>11, <2>1, StepsLeftAt
  <2>3. ASSUME NEW n \in Nat, NEW m \in Nat, m = n - 1 PROVE 3 * m + 2 < 3 * n
    BY <2>3
  <2>4. 3 * Cardinality(tx[p].batch \ {r}) + 2 < 3 * Cardinality(tx[p].batch)
    BY <1>5, <1>11, <2>3
  <2>5. QED
    BY <2>2, <2>4
<1>12. CASE LockExpired(p)
  BY <1>10, <1>11, <1>12 DEF LockExpired, Earliest
<1>13. CASE CommitCreate(p) \/ CommitSale(p) \/ CommitTouch(p) \/ WriteSeat(p)
  BY <1>4, <1>13 DEF CommitCreate, CommitSale, CommitTouch, WriteSeat
<1>14. CASE Fail(p)
  <2>1. CASE tx[p].row # NoRow /\ Becomes(p, Resume(tx[p].batch))
    <3>1. tx[p].pc \in {"saleSeat", "commitSale", "commitTouch", "releaseSeat", "commitRelease"}
      BY <1>1, <1>3, <2>1 DEF Tx, PCs, TxReliesOn
    <3>2. CASE tx[p].pc \in {"releaseSeat", "commitRelease"}
      BY <1>1, <1>2, <1>5, <2>1, <3>2, StepsLeftAtEnd, StepsLeftAt
    <3>3. CASE tx[p].pc \in {"saleSeat", "commitSale", "commitTouch"}
      <4>1. tx[p].batch = {}
        BY <1>1, <3>3 DEF FiniteRows
      <4>2. QED
        BY <1>4, <2>1, <4>1 DEF Resume
    <3>4. QED
      BY <3>1, <3>2, <3>3
  <2>2. CASE \E r \in Earliest(tx[p].batch) :
               tx[p].pc = "expire" /\ Becomes(p, Resume(tx[p].batch \ {r}))
    BY <1>10, <2>2 DEF Earliest
  <2>3. QED
    BY <1>4, <1>14, <2>1, <2>2 DEF Fail
<1>15. QED
  BY <1>4, <1>6, <1>7, <1>8, <1>9, <1>12, <1>13, <1>14 DEF Proceed

\* Whatever happens to a transaction under way, a statement, a failure or what others
\* commit, it never has more left to do, and each step of its own leaves it less: a
\* request, and a run of the job over its whole batch, ends unless it is left waiting.
THEOREM TransactionsRunOut ==
  Spec => /\ [](\A p \in Procs : /\ StepsLeft(tx[p]) \in Nat
                                 /\ StepsLeft(tx[p]) = 0 <=> tx[p].pc = "idle")
          /\ [][\A p \in Procs :
                  /\ Proceed(p) \/ Fail(p) => StepsLeft(tx'[p]) < StepsLeft(tx[p])
                  /\ tx[p].pc # "idle" /\ tx'[p] # tx[p] => StepsLeft(tx'[p]) < StepsLeft(tx[p])]_vars
<1>1. ASSUME IInv, FiniteTables, [Next]_vars, NEW p \in Procs,
             tx[p].pc # "idle", tx'[p] # tx[p]
      PROVE  StepsLeft(tx'[p]) < StepsLeft(tx[p])
  <2>1. TypeOK
    BY <1>1 DEF IInv
  <2>2. Step(p)
    BY <1>1, <2>1, OneTransactionMoves
  <2>3. Proceed(p) \/ Fail(p)
    BY <1>1, <2>2 DEF Step, Request, ScanExpired, StartCreate, LockForSale, LockForRelease,
       LockForTouch, ReadSeatForUpdate
  <2>4. QED
    BY <1>1, <2>3, NearerToTheEnd
<1>2. IInv /\ FiniteTables => \A p \in Procs : /\ StepsLeft(tx[p]) \in Nat
                                               /\ StepsLeft(tx[p]) = 0 <=> tx[p].pc = "idle"
  BY StepsLeftFacts
<1>3. IInv /\ FiniteTables /\ [Next]_vars =>
        [\A p \in Procs :
           /\ Proceed(p) \/ Fail(p) => StepsLeft(tx'[p]) < StepsLeft(tx[p])
           /\ tx[p].pc # "idle" /\ tx'[p] # tx[p] => StepsLeft(tx'[p]) < StepsLeft(tx[p])]_vars
  BY <1>1, NearerToTheEnd
<1>4. QED
  BY <1>2, <1>3, TablesInvariant, PTL DEF Spec
=============================================================================
