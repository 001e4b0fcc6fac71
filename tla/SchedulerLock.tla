--------------------------- MODULE SchedulerLock ---------------------------
(***************************************************************************)
(* DistributedLockService under one of the cron schedulers: the same job   *)
(* runs on every instance of the application, and each run takes the       *)
(* job's Redis lock first, with a time to live and no retry.               *)
(*                                                                         *)
(* The service keeps the locks an instance has taken in heldLocks, one per *)
(* key, whichever run took it.  The cron fires again whether or not the    *)
(* last run has ended, so two runs of one instance can meet there.         *)
(*                                                                         *)
(* Abstracted: one lock key (no two schedulers share one), the job's work  *)
(* (its length, at most MaxRun ticks from the moment Redis grants the      *)
(* lock, is all that counts here), Redis itself (one node that answers and *)
(* expires keys exactly), and Redlock's random values: a run is its own.   *)
(*                                                                         *)
(* release reads heldLocks and Redis runs the script in one step: a lock   *)
(* read earlier could only delete itself.  The way of Redis's answers is   *)
(* part of the run.                                                        *)
(*                                                                         *)
(* AcquireAlways, AcquireForever and UncheckedDelete are faulty variants   *)
(* of the definitions that follow them, which Spec does not use.           *)
(***************************************************************************)
EXTENDS Naturals

CONSTANTS
  Instances, \* the processes of the application
  Slots,     \* bound: runs of one instance that overlap, or are still remembered
  TTL,       \* LOCK_TTL_SECONDS, in ticks
  MaxRun,    \* bound: ticks from a run's lock to its last statement
  NoRun      \* no lock, no entry

Runs == Instances \X Slots

ASSUME TimesAssumption == TTL \in Nat \ {0} /\ MaxRun \in Nat
ASSUME NoRunAssumption == NoRun \notin Runs

VARIABLES
  owner, \* the value of the Redis key: the run that has set it
  ttl,   \* ticks the key has left
  held,  \* heldLocks: the lock each instance remembers
  pc,    \* what each run does next
  age,   \* ticks since Redis gave the run the lock
  overrun \* history: some run has outlived its lock

vars == <<owner, ttl, held, pc, age, overrun>>

InstanceOf(p) == p[1]

Steps == {"idle", "hold", "work", "release", "drop"}

Init ==
  /\ owner = NoRun
  /\ ttl = 0
  /\ held = [i \in Instances |-> NoRun]
  /\ pc = [p \in Runs |-> "idle"]
  /\ age = [p \in Runs |-> 0]
  /\ overrun = FALSE

\* Each run makes a value of its own: a slot is used again when its value is nowhere.
Fresh(p) == owner # p /\ \A i \in Instances : held[i] # p

AcquireAlways(p) ==
  /\ pc[p] = "idle" /\ Fresh(p)
  /\ owner' = p
  /\ ttl' = TTL
  /\ pc' = [pc EXCEPT ![p] = "hold"]
  /\ age' = [age EXCEPT ![p] = 0]
  /\ UNCHANGED <<held, overrun>>

AcquireForever(p) ==
  /\ pc[p] = "idle" /\ Fresh(p)
  /\ owner = NoRun
  /\ owner' = p
  /\ ttl' = 0
  /\ pc' = [pc EXCEPT ![p] = "hold"]
  /\ age' = [age EXCEPT ![p] = 0]
  /\ UNCHANGED <<held, overrun>>

\* The cron fires and Redis grants the lock.  A run that is refused ends at once.
Acquire(p) ==
  /\ pc[p] = "idle" /\ Fresh(p)
  /\ owner = NoRun
  /\ owner' = p
  /\ ttl' = TTL
  /\ pc' = [pc EXCEPT ![p] = "hold"]
  /\ age' = [age EXCEPT ![p] = 0]
  /\ UNCHANGED <<held, overrun>>

\* The answer arrives: the lock goes to heldLocks, over whatever is there.
Hold(p) ==
  /\ pc[p] = "hold"
  /\ held' = [held EXCEPT ![InstanceOf(p)] = p]
  /\ pc' = [pc EXCEPT ![p] = "work"]
  /\ UNCHANGED <<owner, ttl, age, overrun>>

\* The job ends, or throws.
Finish(p) ==
  /\ pc[p] = "work"
  /\ pc' = [pc EXCEPT ![p] = "release"]
  /\ UNCHANGED <<owner, ttl, held, age, overrun>>

UncheckedDelete(value) ==
  /\ owner' = NoRun
  /\ ttl' = 0

\* Redlock's script deletes the key only if it still has the lock's value.
Delete(value) ==
  IF owner = value THEN owner' = NoRun /\ ttl' = 0
                   ELSE UNCHANGED <<owner, ttl>>

\* release: the lock heldLocks has is deleted, not the one this run has taken; with
\* no entry there is nothing to do.
Release(p) ==
  /\ pc[p] = "release"
  /\ LET lock == held[InstanceOf(p)]
     IN \/ /\ lock = NoRun
           /\ pc' = [pc EXCEPT ![p] = "idle"]
           /\ UNCHANGED <<owner, ttl>>
        \/ /\ lock # NoRun
           /\ Delete(lock)
           /\ pc' = [pc EXCEPT ![p] = "drop"]
  /\ UNCHANGED <<held, age, overrun>>

\* The answer arrives, or the script's failure does: the entry goes, whoever's it is
\* by now.
Drop(p) ==
  /\ pc[p] = "drop"
  /\ held' = [held EXCEPT ![InstanceOf(p)] = NoRun]
  /\ pc' = [pc EXCEPT ![p] = "idle"]
  /\ UNCHANGED <<owner, ttl, age, overrun>>

\* The process dies and comes back: Redis still has its lock.
Crash(i) ==
  /\ \E p \in Runs : InstanceOf(p) = i /\ pc[p] # "idle"
  /\ held' = [held EXCEPT ![i] = NoRun]
  /\ pc' = [p \in Runs |-> IF InstanceOf(p) = i THEN "idle" ELSE pc[p]]
  /\ UNCHANGED <<owner, ttl, age, overrun>>

\* From the grant of its lock to the call of release a run ages.
Active(p) == pc[p] \in {"hold", "work", "release"}

\* Time passes; a key whose time is over is gone.
Tick ==
  /\ \A p \in Runs : Active(p) => age[p] < MaxRun
  /\ age' = [p \in Runs |-> IF Active(p) THEN age[p] + 1 ELSE age[p]]
  /\ ttl' = IF ttl > 0 THEN ttl - 1 ELSE 0
  /\ owner' = IF ttl = 1 THEN NoRun ELSE owner
  /\ overrun' = (overrun \/ \E p \in Runs : Active(p) /\ age[p] + 1 >= TTL)
  /\ UNCHANGED <<held, pc>>

Proceed(p) == Hold(p) \/ Finish(p) \/ Release(p) \/ Drop(p)

Next ==
  \/ \E p \in Runs : Acquire(p) \/ Proceed(p)
  \/ \E i \in Instances : Crash(i)
  \/ Tick

Spec == Init /\ [][Next]_vars

\* Time passes and a run that has started goes on; nothing makes a lock be taken, and
\* an instance may crash for ever.
FairSpec == Spec /\ WF_vars(Tick) /\ \A p \in Runs : WF_vars(Proceed(p))

-----------------------------------------------------------------------------
\* Types; the key has time to live exactly as long as it is set.
TypeOK ==
  /\ owner \in Runs \cup {NoRun}
  /\ ttl \in 0 .. TTL
  /\ held \in [Instances -> Runs \cup {NoRun}]
  /\ pc \in [Runs -> Steps]
  /\ age \in [Runs -> 0 .. MaxRun]
  /\ overrun \in BOOLEAN
  /\ owner = NoRun <=> ttl = 0

\* At most one run of the job is at work, on all instances together, as long as no
\* run outlives its lock, whatever crashes.
OneRunner ==
  ~ overrun => \A p, q \in Runs : pc[p] = "work" /\ pc[q] = "work" => p = q

\* While the time to live of its lock lasts, a run is the only one of those it
\* still lasts for: what a lock with a time to live is for.
TTLGuarantee ==
  \A p, q \in Runs :
    /\ pc[p] = "work" /\ age[p] < TTL
    /\ pc[q] = "work" /\ age[q] < TTL
    => p = q

\* What the scheduler expects of release, as long as no run outlives its lock: a lock
\* that goes before its time is released by the run that took it, and by no other.
LocksEndWithTheirRun ==
  [][\A p \in Runs :
       ~ overrun /\ owner = p /\ owner' # p /\ pc' # pc => pc[p] = "release"]_vars

\* No instance deletes a lock that another instance has taken, however late its
\* runs end: a lock that goes before its time is released by a run of its instance.
ForeignLocksStay ==
  [][\A p \in Runs :
       owner = p /\ owner' # p /\ pc' # pc =>
         \E q \in Runs : /\ InstanceOf(q) = InstanceOf(p)
                         /\ pc[q] = "release" /\ pc'[q] = "drop"]_vars

\* The lock always becomes free again, whichever process dies holding it.
LockComesBack == []<>(owner = NoRun)
=============================================================================
