------------------------ MODULE SchedulerLockProofs ------------------------
(***************************************************************************)
(* What the scheduler's lock guarantees, for any number of instances and   *)
(* runs.  Two things hold however long a run takes: the state keeps its    *)
(* shape, and no instance deletes another's lock.  That the lock keeps the *)
(* runs apart holds until a run outlives its lock, because till then an    *)
(* active run still owns the key (Owning) and the mistakes release can     *)
(* make with another run's lock have no other run to hit.                  *)
(***************************************************************************)
EXTENDS SchedulerLock, TLAPS

\* An instance remembers locks of its own runs only.
HeldIsOwn == \A i \in Instances : held[i] # NoRun => InstanceOf(held[i]) = i

\* An active run owns the key, with the rest of its time to live.
ActiveOwns == \A p \in Runs : Active(p) => owner = p /\ ttl + age[p] = TTL

Owning == ~ overrun => ActiveOwns

LEMMA RunFacts == \A p \in Runs : InstanceOf(p) \in Instances
BY DEF Runs, InstanceOf

LEMMA TypeInductive == TypeOK /\ HeldIsOwn /\ [Next]_vars => (TypeOK /\ HeldIsOwn)'
<1> SUFFICES ASSUME TypeOK, HeldIsOwn, [Next]_vars
             PROVE  TypeOK' /\ HeldIsOwn'
  OBVIOUS
<1> USE TimesAssumption, NoRunAssumption, RunFacts DEF TypeOK, HeldIsOwn, Steps
<1>1. ASSUME NEW p \in Runs, Acquire(p) PROVE TypeOK' /\ HeldIsOwn'
  BY <1>1 DEF Acquire
<1>2. ASSUME NEW p \in Runs, Hold(p) PROVE TypeOK' /\ HeldIsOwn'
  BY <1>2 DEF Hold
<1>3. ASSUME NEW p \in Runs, Finish(p) PROVE TypeOK' /\ HeldIsOwn'
  BY <1>3 DEF Finish
<1>4. ASSUME NEW p \in Runs, Release(p) PROVE TypeOK' /\ HeldIsOwn'
  BY <1>4 DEF Release, Delete
<1>5. ASSUME NEW p \in Runs, Drop(p) PROVE TypeOK' /\ HeldIsOwn'
  BY <1>5 DEF Drop
<1>6. ASSUME NEW i \in Instances, Crash(i) PROVE TypeOK' /\ HeldIsOwn'
  BY <1>6 DEF Crash
<1>7. ASSUME Tick PROVE TypeOK' /\ HeldIsOwn'
  BY <1>7 DEF Tick
<1>8. CASE UNCHANGED vars
  BY <1>8 DEF vars
<1>9. QED
  BY <1>1, <1>2, <1>3, <1>4, <1>5, <1>6, <1>7, <1>8 DEF Next, Proceed

LEMMA TypeInvariant == Spec => [](TypeOK /\ HeldIsOwn)
<1>1. ASSUME Init PROVE TypeOK /\ HeldIsOwn
  <2>1. /\ owner \in Runs \cup {NoRun} /\ ttl \in 0 .. TTL /\ (owner = NoRun <=> ttl = 0)
        /\ held \in [Instances -> Runs \cup {NoRun}] /\ HeldIsOwn
        /\ pc \in [Runs -> Steps] /\ age \in [Runs -> 0 .. MaxRun]
    BY <1>1, TimesAssumption DEF Init, HeldIsOwn, Steps
  <2>2. overrun \in BOOLEAN
    BY <1>1 DEF Init
  <2>3. QED
    BY <2>1, <2>2 DEF TypeOK
<1>2. QED
  BY <1>1, TypeInductive, PTL DEF Spec

\* The state keeps its shape, and the key is set exactly while it has time to live.
THEOREM TypeCorrect == Spec => []TypeOK
BY TypeInvariant, PTL

\* However late a run ends, it deletes no lock of another instance.
THEOREM ForeignLocksSafe == Spec => ForeignLocksStay
<1> DEFINE Stays ==
      \A p \in Runs :
        owner = p /\ owner' # p /\ pc' # pc =>
          \E q \in Runs : /\ InstanceOf(q) = InstanceOf(p)
                          /\ pc[q] = "release" /\ pc'[q] = "drop"
<1>1. ASSUME TypeOK, HeldIsOwn, [Next]_vars PROVE Stays
  <2> SUFFICES ASSUME NEW p \in Runs, owner = p, owner' # p, pc' # pc
               PROVE  \E q \in Runs : /\ InstanceOf(q) = InstanceOf(p)
                                      /\ pc[q] = "release" /\ pc'[q] = "drop"
    OBVIOUS
  <2>1. PICK q \in Runs : Release(q)
    BY <1>1, NoRunAssumption DEF Next, Proceed, Acquire, Hold, Finish, Drop, Crash, Tick, vars
  <2>2. held[InstanceOf(q)] = p /\ pc[q] = "release" /\ pc'[q] = "drop"
    BY <1>1, <2>1 DEF Release, Delete, TypeOK
  <2>3. InstanceOf(q) = InstanceOf(p)
    BY <1>1, <2>2, RunFacts, NoRunAssumption DEF HeldIsOwn
  <2>4. QED
    BY <2>2, <2>3
<1>2. ASSUME TypeOK /\ HeldIsOwn, [Next]_vars PROVE [Stays]_vars
  BY <1>1, <1>2
<1>3. QED
  BY <1>2, TypeInvariant, PTL DEF Spec, ForeignLocksStay

\* No run has outlived its lock before, and Tick makes none do so, when none has after.
LEMMA NotOverrun ==
  ASSUME [Next]_vars, ~ overrun'
  PROVE  /\ ~ overrun
         /\ Tick => \A p \in Runs : Active(p) => ~ (age[p] + 1 >= TTL)
<1>1. ~ overrun
  BY Zenon
  DEF Next, Proceed, Acquire, Hold, Finish, Release, Drop, Crash, Tick, vars
<1>2. ASSUME Tick PROVE \A p \in Runs : Active(p) => ~ (age[p] + 1 >= TTL)
  BY <1>2, Zenon DEF Tick
<1> QED BY <1>1, <1>2

LEMMA OwningInductive ==
  ASSUME TypeOK, Owning, [Next]_vars
  PROVE  Owning'
<1> SUFFICES ASSUME ~ overrun' PROVE ActiveOwns'
  BY DEF Owning
<1>0. ActiveOwns
  BY NotOverrun DEF Owning
<1> USE <1>0, TimesAssumption, NoRunAssumption DEF TypeOK, ActiveOwns, Active
<1>1. ASSUME NEW p \in Runs, Acquire(p) PROVE ActiveOwns'
  BY <1>1 DEF Acquire
<1>2. ASSUME NEW p \in Runs, Hold(p) PROVE ActiveOwns'
  BY <1>2 DEF Hold
<1>3. ASSUME NEW p \in Runs, Finish(p) PROVE ActiveOwns'
  BY <1>3 DEF Finish
<1>4. ASSUME NEW p \in Runs, Release(p) PROVE ActiveOwns'
  <2>1. \A q \in Runs : Active(q) => q = p
    BY <1>4 DEF Release
  <2>2. \A q \in Runs : ~ Active(q)'
    BY <1>4, <2>1 DEF Release
  <2>3. QED
    BY <2>2
<1>5. ASSUME NEW p \in Runs, Drop(p) PROVE ActiveOwns'
  BY <1>5 DEF Drop
<1>6. ASSUME NEW i \in Instances, Crash(i) PROVE ActiveOwns'
  BY <1>6 DEF Crash
<1>7. ASSUME Tick PROVE ActiveOwns'
  <2>1. \A p \in Runs : Active(p) => ~ (age[p] + 1 >= TTL)
    BY <1>7, NotOverrun
  <2>2. QED
    BY <1>7, <2>1 DEF Tick
<1>8. CASE UNCHANGED vars
  BY <1>8 DEF vars
<1>9. QED
  BY <1>1, <1>2, <1>3, <1>4, <1>5, <1>6, <1>7, <1>8 DEF Next, Proceed

LEMMA OwningInvariant == Spec => []Owning
<1>1. Init => Owning
  BY DEF Init, Owning, ActiveOwns, Active
<1>2. TypeOK /\ Owning /\ [Next]_vars => Owning'
  BY OwningInductive
<1>3. QED
  BY <1>1, <1>2, TypeCorrect, PTL DEF Spec

\* Until a run outlives its lock the job runs once at a time on all instances
\* together, whatever crashes.
THEOREM OneRunnerAtATime == Spec => []OneRunner
<1>1. Owning => OneRunner
  BY DEF Owning, ActiveOwns, OneRunner, Active
<1>2. QED
  BY <1>1, OwningInvariant, PTL

\* Until then also every lock that goes before its time is released by the run that
\* took it.
THEOREM RunsReleaseTheirOwn == Spec => LocksEndWithTheirRun
<1> DEFINE Own ==
      \A p \in Runs :
        ~ overrun /\ owner = p /\ owner' # p /\ pc' # pc => pc[p] = "release"
<1>1. ASSUME TypeOK, Owning, [Next]_vars PROVE Own
  <2> SUFFICES ASSUME NEW p \in Runs, ~ overrun, owner = p, owner' # p, pc' # pc
               PROVE  pc[p] = "release"
    OBVIOUS
  <2>1. PICK q \in Runs : Release(q)
    BY <1>1, NoRunAssumption DEF Next, Proceed, Acquire, Hold, Finish, Drop, Crash, Tick, vars
  <2>2. QED
    BY <1>1, <2>1 DEF Release, Owning, ActiveOwns, Active
<1>2. ASSUME TypeOK, Owning, [Next]_vars PROVE [Own]_vars
  BY <1>1, <1>2
<1>3. QED
  BY <1>2, TypeCorrect, OwningInvariant, PTL DEF Spec, LocksEndWithTheirRun

-----------------------------------------------------------------------------
(***************************************************************************)
(* What fails without it: TTLGuarantee is violated when a run outlives its *)
(* lock and the next run of the SAME instance takes its place in           *)
(* heldLocks.  It holds, however long the runs take and whatever crashes,  *)
(* where the cron of an instance waits for the instance's last run.        *)
(***************************************************************************)

\* The runs of one instance do not overlap; those of two instances may.
RunsApart ==
  \A p, q \in Runs :
    InstanceOf(p) = InstanceOf(q) /\ pc[p] # "idle" /\ pc[q] # "idle" => p = q

\* A run finds its own lock in heldLocks, and owns the key while its lock lasts.
Keeping ==
  \A p \in Runs :
    /\ pc[p] \in {"work", "release"} => held[InstanceOf(p)] = p
    /\ Active(p) /\ age[p] < TTL => owner = p /\ ttl + age[p] = TTL

LEMMA KeepingInductive ==
  ASSUME TypeOK, HeldIsOwn, RunsApart, Keeping, [Next]_vars, RunsApart'
  PROVE  Keeping'
<1> USE TimesAssumption, NoRunAssumption, RunFacts
    DEF TypeOK, HeldIsOwn, RunsApart, Keeping, Active
<1>1. ASSUME NEW p \in Runs, Acquire(p) PROVE Keeping'
  BY <1>1 DEF Acquire
<1>2. ASSUME NEW p \in Runs, Hold(p) PROVE Keeping'
  BY <1>2 DEF Hold
<1>3. ASSUME NEW p \in Runs, Finish(p) PROVE Keeping'
  BY <1>3 DEF Finish
<1>4. ASSUME NEW p \in Runs, Release(p) PROVE Keeping'
  <2>1. held[InstanceOf(p)] = p
    BY <1>4 DEF Release
  <2>2. QED
    BY <1>4, <2>1 DEF Release, Delete
<1>5. ASSUME NEW p \in Runs, Drop(p) PROVE Keeping'
  BY <1>5 DEF Drop
<1>6. ASSUME NEW i \in Instances, Crash(i) PROVE Keeping'
  BY <1>6 DEF Crash
<1>7. ASSUME Tick PROVE Keeping'
  BY <1>7 DEF Tick
<1>8. CASE UNCHANGED vars
  BY <1>8 DEF vars
<1>9. QED
  BY <1>1, <1>2, <1>3, <1>4, <1>5, <1>6, <1>7, <1>8 DEF Next, Proceed

\* Where the runs of an instance do not overlap, the lock keeps for its whole time to
\* live what it promises, run after run, even past a run that outlives it.
THEOREM TTLGuaranteeOfRunsApart == Spec /\ []RunsApart => []TTLGuarantee
<1>1. Init => Keeping
  BY DEF Init, Keeping, Active
<1>2. TypeOK /\ HeldIsOwn /\ RunsApart /\ Keeping /\ [Next]_vars /\ RunsApart' => Keeping'
  BY KeepingInductive
<1>3. Keeping => TTLGuarantee
  BY DEF Keeping, TTLGuarantee, Active
<1>4. QED
  BY <1>1, <1>2, <1>3, TypeInvariant, PTL DEF Spec
=============================================================================
