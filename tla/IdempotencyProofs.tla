-------------------------- MODULE IdempotencyProofs --------------------------
(***************************************************************************)
(* Proofs about the idempotency interceptor, for any number of requests and *)
(* any lifetimes, crashes and failing commands included.                   *)
(*                                                                         *)
(* One handler at a time: as long as no handler outlives the lock and DEL  *)
(* does not fail, a working request's age and the time its lock has left   *)
(* add up to LOCK_TTL_MS (LockCoversWork).  So the lock is taken while     *)
(* anybody works, and nobody else gets it.                                 *)
(*                                                                         *)
(* Retries: until a response expires, whatever has been answered is still  *)
(* stored (AnswersStored), so a request that comes after an answer ends    *)
(* without its handler (RetriesDone).                                      *)
(***************************************************************************)
EXTENDS Idempotency, TLAPS

\* Who works has the lock, for as long as it still has to last, and works alone.
LockCoversWork ==
  ~ unguarded => \A q, r \in Requests : Working(q) =>
    /\ lockTtl + age[q] = LockTTL
    /\ age[q] < LockTTL
    /\ Working(r) => q = r

\* Nobody's handler has run before the request has the lock.
RanAfterLock == \A r \in ran : pc[r] \in {"store", "unlock", "failed", "done"}

\* Until a response expires, one is there for everybody who was, or will be, answered.
AnswersStored ==
  ~ expired => /\ \A r \in Requests : answer[r] # NoResponse => response # NoResponse
               /\ \A r \in Requests : pc[r] = "unlock" => response # NoResponse

\* A request that came after an answer has ended, without its handler.
RetriesDone == ~ expired => \A r \in retries : pc[r] = "done" /\ r \notin ran

-----------------------------------------------------------------------------
(***************************************************************************)
(* Types                                                                   *)
(***************************************************************************)
LEMMA InitTypes == Init => TypeOK
<1> SUFFICES ASSUME Init PROVE TypeOK
  OBVIOUS
<1>1. expired \in BOOLEAN /\ unguarded \in BOOLEAN
  BY Zenon DEF Init
<1> QED
  BY <1>1, TimesAssumption, NoResponseAssumption DEF Init, TypeOK, Steps

LEMMA StepTypes == TypeOK /\ [Next]_vars => TypeOK'
<1> SUFFICES ASSUME TypeOK, [Next]_vars PROVE TypeOK'
  OBVIOUS
<1> USE TimesAssumption, NoResponseAssumption DEF TypeOK, Steps, Goto, Answer, entries, history
<1>1. ASSUME NEW r \in Requests, Check(r) PROVE TypeOK'
  BY <1>1 DEF Check
<1>2. ASSUME NEW r \in Requests, Lock(r) PROVE TypeOK'
  BY <1>2 DEF Lock
<1>3. ASSUME NEW r \in Requests, Handle(r) PROVE TypeOK'
  BY <1>3 DEF Handle
<1>4. ASSUME NEW r \in Requests, Store(r) PROVE TypeOK'
  BY <1>4 DEF Store
<1>5. ASSUME NEW r \in Requests, Unlock(r) PROVE TypeOK'
  <2>1. unguarded' \in BOOLEAN
    BY <1>5, Zenon DEF Unlock
  <2> QED
    BY <2>1, <1>5 DEF Unlock
<1>6. ASSUME NEW r \in Requests, UnlockFailed(r) PROVE TypeOK'
  BY <1>6 DEF UnlockFailed
<1>7. ASSUME NEW r \in Requests, Poll(r) PROVE TypeOK'
  BY <1>7 DEF Poll
<1>8. ASSUME NEW r \in Requests, Crash(r) PROVE TypeOK'
  BY <1>8 DEF Crash
<1>9. CASE Tick
  <2>1. /\ lockTtl' \in 0 .. LockTTL
        /\ responseTtl' \in 0 .. ResponseTTL
        /\ response' \in Requests \cup {NoResponse}
        /\ age' \in [Requests -> Nat]
    BY <1>9 DEF Tick
  <2>2. response' = NoResponse <=> responseTtl' = 0
    BY <1>9 DEF Tick
  <2>3. expired' \in BOOLEAN /\ unguarded' \in BOOLEAN
    BY <1>9 DEF Tick
  <2> QED
    BY <2>1, <2>2, <2>3, <1>9 DEF Tick
<1>10. CASE UNCHANGED vars
  BY <1>10 DEF vars
<1> QED
  BY <1>1, <1>2, <1>3, <1>4, <1>5, <1>6, <1>7, <1>8, <1>9, <1>10 DEF Next, Proceed

\* Types hold on every run.
THEOREM TypeCorrect == Spec => []TypeOK
<1>1. Init => TypeOK
  BY InitTypes
<1>2. TypeOK /\ [Next]_vars => TypeOK'
  BY StepTypes
<1> QED
  BY <1>1, <1>2, PTL DEF Spec

-----------------------------------------------------------------------------
(***************************************************************************)
(* One handler at a time                                                   *)
(***************************************************************************)
LEMMA StepLocks == TypeOK /\ LockCoversWork /\ [Next]_vars => LockCoversWork'
<1> SUFFICES ASSUME TypeOK, LockCoversWork, [Next]_vars, ~ unguarded' PROVE LockCoversWork'
  BY DEF LockCoversWork
<1> USE TimesAssumption DEF TypeOK, Steps, Goto, Answer, entries, history, Working
<1>1. ASSUME NEW r \in Requests, Check(r) PROVE LockCoversWork'
  BY <1>1 DEF Check, LockCoversWork
<1>2. ASSUME NEW r \in Requests, Lock(r) PROVE LockCoversWork'
  <2>1. CASE lockTtl = 0 /\ lockTtl' = LockTTL /\ Goto(r, "handle") /\ UNCHANGED answer
    <3>1. ~ unguarded => \A p \in Requests : ~ Working(p)
      BY <2>1 DEF LockCoversWork
    <3>2. \A p \in Requests : p # r => pc'[p] = pc[p]
      BY <2>1
    <3>3. age'[r] = 0 /\ unguarded' = unguarded
      BY <1>2 DEF Lock
    <3> QED
      BY <2>1, <3>1, <3>2, <3>3 DEF LockCoversWork
  <2>2. CASE lockTtl > 0 /\ Goto(r, "poll") /\ UNCHANGED <<lockTtl, answer>>
    BY <1>2, <2>2 DEF Lock, LockCoversWork
  <2>3. CASE /\ RedisFails
             /\ lockTtl' \in {lockTtl, IF lockTtl = 0 THEN LockTTL ELSE lockTtl}
             /\ Answer(r, NoResponse)
    <3>1. \A p \in Requests : Working(p)' => Working(p) /\ age'[p] = age[p]
      BY <1>2, <2>3 DEF Lock
    <3>2. ~ unguarded /\ lockTtl' # lockTtl => \A p \in Requests : ~ Working(p)
      BY <2>3 DEF LockCoversWork
    <3>3. unguarded' = unguarded
      BY <1>2 DEF Lock
    <3> QED
      BY <3>1, <3>2, <3>3 DEF LockCoversWork
  <2> QED
    BY <1>2, <2>1, <2>2, <2>3 DEF Lock
<1>3. ASSUME NEW r \in Requests, Handle(r) PROVE LockCoversWork'
  BY <1>3 DEF Handle, LockCoversWork
<1>4. ASSUME NEW r \in Requests, Store(r) PROVE LockCoversWork'
  BY <1>4 DEF Store, LockCoversWork
<1>5. ASSUME NEW r \in Requests, Unlock(r) PROVE LockCoversWork'
  BY <1>5 DEF Unlock, LockCoversWork
<1>6. ASSUME NEW r \in Requests, UnlockFailed(r) PROVE LockCoversWork'
  BY <1>6 DEF UnlockFailed, LockCoversWork
<1>7. ASSUME NEW r \in Requests, Poll(r) PROVE LockCoversWork'
  BY <1>7 DEF Poll, LockCoversWork
<1>8. ASSUME NEW r \in Requests, Crash(r) PROVE LockCoversWork'
  BY <1>8 DEF Crash, LockCoversWork
<1>9. CASE Tick
  <2>0. ~ unguarded /\ ~ \E p \in Requests : Working(p) /\ age[p] + 1 >= LockTTL
    BY <1>9, Zenon DEF Tick
  <2>1. /\ ~ unguarded
        /\ \A p \in Requests : Working(p) => age[p] + 1 < LockTTL
    BY <2>0
  <2>2. \A p \in Requests : Working(p) => age'[p] = age[p] + 1
    BY <1>9 DEF Tick
  <2>3. lockTtl' = IF lockTtl > 0 THEN lockTtl - 1 ELSE 0
    BY <1>9 DEF Tick
  <2>4. pc' = pc
    BY <1>9 DEF Tick
  <2> QED
    BY <2>1, <2>2, <2>3, <2>4 DEF LockCoversWork
<1>10. CASE UNCHANGED vars
  BY <1>10 DEF vars, LockCoversWork
<1> QED
  BY <1>1, <1>2, <1>3, <1>4, <1>5, <1>6, <1>7, <1>8, <1>9, <1>10 DEF Next, Proceed

\* Two handlers of one key never run at the same time, unless one outlives the lock or
\* DEL fails.
THEOREM HandlersExclude == Spec => []OneAtATime
<1>1. Init => LockCoversWork
  BY DEF Init, LockCoversWork, Working
<1>2. TypeOK /\ LockCoversWork /\ [Next]_vars => LockCoversWork'
  BY StepLocks
<1>3. LockCoversWork => OneAtATime
  BY DEF LockCoversWork, OneAtATime, Working
<1> QED
  BY <1>1, <1>2, <1>3, TypeCorrect, PTL DEF Spec

-----------------------------------------------------------------------------
(***************************************************************************)
(* Retries are answered from the entry                                     *)
(***************************************************************************)
LEMMA StepRan == TypeOK /\ RanAfterLock /\ [Next]_vars => RanAfterLock'
<1> SUFFICES ASSUME TypeOK, RanAfterLock, [Next]_vars PROVE RanAfterLock'
  OBVIOUS
<1> USE DEF TypeOK, Steps, Goto, Answer, history, RanAfterLock
<1>1. ASSUME NEW r \in Requests, Check(r) PROVE RanAfterLock'
  BY <1>1 DEF Check
<1>2. ASSUME NEW r \in Requests, Proceed(r) PROVE RanAfterLock'
  BY <1>2 DEF Proceed, Lock, Handle, Store, Unlock, UnlockFailed, Poll
<1>3. ASSUME NEW r \in Requests, Crash(r) PROVE RanAfterLock'
  BY <1>3 DEF Crash
<1>4. CASE Tick
  BY <1>4 DEF Tick
<1>5. CASE UNCHANGED vars
  BY <1>5 DEF vars
<1> QED
  BY <1>1, <1>2, <1>3, <1>4, <1>5 DEF Next

LEMMA StepAnswers == TypeOK /\ AnswersStored /\ [Next]_vars => AnswersStored'
<1> SUFFICES ASSUME TypeOK, AnswersStored, [Next]_vars, ~ expired' PROVE AnswersStored'
  BY DEF AnswersStored
<1> USE NoResponseAssumption DEF TypeOK, Steps, Goto, Answer, entries, history, AnswersStored
<1>1. ASSUME NEW r \in Requests, Check(r) PROVE AnswersStored'
  BY <1>1 DEF Check
<1>2. ASSUME NEW r \in Requests, Lock(r) PROVE AnswersStored'
  BY <1>2 DEF Lock
<1>3. ASSUME NEW r \in Requests, Handle(r) PROVE AnswersStored'
  BY <1>3 DEF Handle
<1>4. ASSUME NEW r \in Requests, Store(r) PROVE AnswersStored'
  BY <1>4 DEF Store
<1>5. ASSUME NEW r \in Requests, Unlock(r) PROVE AnswersStored'
  BY <1>5 DEF Unlock
<1>6. ASSUME NEW r \in Requests, UnlockFailed(r) PROVE AnswersStored'
  BY <1>6 DEF UnlockFailed
<1>7. ASSUME NEW r \in Requests, Poll(r) PROVE AnswersStored'
  BY <1>7 DEF Poll
<1>8. ASSUME NEW r \in Requests, Crash(r) PROVE AnswersStored'
  BY <1>8 DEF Crash
<1>9. CASE Tick
  BY <1>9 DEF Tick
<1>10. CASE UNCHANGED vars
  BY <1>10 DEF vars
<1> QED
  BY <1>1, <1>2, <1>3, <1>4, <1>5, <1>6, <1>7, <1>8, <1>9, <1>10 DEF Next, Proceed

LEMMA StepRetries ==
  TypeOK /\ RanAfterLock /\ AnswersStored /\ RetriesDone /\ [Next]_vars => RetriesDone'
<1> SUFFICES ASSUME TypeOK, RanAfterLock, AnswersStored, RetriesDone, [Next]_vars, ~ expired'
             PROVE  RetriesDone'
  BY DEF RetriesDone
<1> USE DEF TypeOK, Steps, Goto, Answer, history
<1>1. ASSUME NEW r \in Requests, Check(r) PROVE RetriesDone'
  <2>1. ~ expired /\ r \notin ran /\ ran' = ran
    BY <1>1 DEF Check, RanAfterLock
  <2>2. (\E q \in Requests : answer[q] # NoResponse) => pc'[r] = "done"
    BY <1>1, <2>1 DEF Check, AnswersStored
  <2>3. \A q \in Requests : q # r => pc'[q] = pc[q]
    BY <1>1 DEF Check
  <2>4. \A q \in retries' : q \in retries \/ (q = r /\ pc'[r] = "done")
    BY <1>1, <2>2 DEF Check
  <2>5. r \notin retries
    BY <1>1, <2>1 DEF Check, RetriesDone
  <2> QED
    BY <2>1, <2>3, <2>4, <2>5 DEF RetriesDone
<1>2. ASSUME NEW r \in Requests, Proceed(r) PROVE RetriesDone'
  BY <1>2 DEF Proceed, Lock, Handle, Store, Unlock, UnlockFailed, Poll, RetriesDone
<1>3. ASSUME NEW r \in Requests, Crash(r) PROVE RetriesDone'
  BY <1>3 DEF Crash, RetriesDone
<1>4. CASE Tick
  BY <1>4 DEF Tick, RetriesDone
<1>5. CASE UNCHANGED vars
  BY <1>5 DEF vars, RetriesDone
<1> QED
  BY <1>1, <1>2, <1>3, <1>4, <1>5 DEF Next

\* A request that comes after an answer never runs its handler, until a response
\* expires.
THEOREM RetriesAnsweredFromEntry == Spec => []RetriesReplay
<1>1. Init => RanAfterLock /\ AnswersStored /\ RetriesDone
  BY DEF Init, RanAfterLock, AnswersStored, RetriesDone
<1>2. /\ TypeOK /\ RanAfterLock /\ AnswersStored /\ RetriesDone
      /\ [Next]_vars
      => (RanAfterLock /\ AnswersStored /\ RetriesDone)'
  BY StepRan, StepAnswers, StepRetries
<1>3. RetriesDone => RetriesReplay
  BY DEF RetriesDone, RetriesReplay
<1> QED
  BY <1>1, <1>2, <1>3, TypeCorrect, PTL DEF Spec

-----------------------------------------------------------------------------
(***************************************************************************)
(* What fails: HandlerRunsOnce is violated by a request that has looked    *)
(* before the response was there and takes the lock after it was freed.    *)
(* Nothing else runs a handler beside a cached response.                   *)
(***************************************************************************)
\* Nobody who has missed the response can still take the lock once it is there: what
\* a second look-up under the lock would make sure of.
NoStaleMiss ==
  \A r \in Requests : pc[r] = "missed" /\ lockTtl = 0 => response = NoResponse

RunsOnce == ~ unguarded => HandlerRunsOnce

LEMMA StepRunsOnce ==
  ASSUME TypeOK, LockCoversWork, NoStaleMiss, RunsOnce, [Next]_vars
  PROVE  RunsOnce'
<1> SUFFICES ASSUME ~ unguarded' PROVE HandlerRunsOnce'
  BY DEF RunsOnce
<1>0. ~ unguarded
  BY Zenon DEF Next, Proceed, Check, Lock, Handle, Store, Unlock, UnlockFailed, Poll, Crash,
               Tick, history, vars
<1> USE <1>0 DEF TypeOK, Steps, Goto, Answer, entries, history, RunsOnce, HandlerRunsOnce
<1>1. ASSUME NEW r \in Requests, Lock(r) PROVE HandlerRunsOnce'
  BY <1>1 DEF Lock, NoStaleMiss
<1>2. ASSUME NEW r \in Requests, Store(r) PROVE HandlerRunsOnce'
  <2>1. \A q \in Requests : pc[q] = "handle" => q = r
    BY <1>2 DEF Store, LockCoversWork, Working
  <2>2. \A q \in Requests : pc'[q] # "handle"
    BY <1>2, <2>1 DEF Store
  <2> QED BY <2>2
<1>3. ASSUME NEW r \in Requests, Check(r) \/ Handle(r) \/ Unlock(r) \/ UnlockFailed(r)
                                 \/ Poll(r) \/ Crash(r)
      PROVE  HandlerRunsOnce'
  BY <1>3 DEF Check, Handle, Unlock, UnlockFailed, Poll, Crash
<1>4. ASSUME Tick PROVE HandlerRunsOnce'
  BY <1>4 DEF Tick
<1>5. CASE UNCHANGED vars
  BY <1>5 DEF vars
<1> QED
  BY <1>1, <1>2, <1>3, <1>4, <1>5 DEF Next, Proceed

\* Where no look-up is stale when the lock is taken, the handler never runs beside a
\* cached response, as long as none outlives the lock and DEL does not fail.
THEOREM HandlerRunsOnceOfFreshLookups == Spec /\ []NoStaleMiss => []RunsOnce
<1>1. Init => LockCoversWork /\ RunsOnce
  BY DEF Init, LockCoversWork, Working, RunsOnce, HandlerRunsOnce
<1>2. /\ TypeOK /\ LockCoversWork /\ NoStaleMiss /\ RunsOnce
      /\ [Next]_vars
      => (LockCoversWork /\ RunsOnce)'
  BY StepLocks, StepRunsOnce
<1> QED
  BY <1>1, <1>2, TypeCorrect, PTL DEF Spec
=============================================================================
