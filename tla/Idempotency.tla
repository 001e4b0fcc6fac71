---------------------------- MODULE Idempotency ----------------------------
(***************************************************************************)
(* IdempotencyInterceptor: the requests that carry one Idempotency-Key,    *)
(* on any instance of the application, around the key's two Redis entries, *)
(* the lock and the response.  Every action is one Redis command with the  *)
(* code up to the next await, or the end of the handler.                   *)
(*                                                                         *)
(* Abstracted: the handler (it succeeds or fails, within MaxRun ticks of   *)
(* the lock), the response (named by the request that made it), the poll   *)
(* interval.  Redis expires keys exactly; where RedisFails, a command may  *)
(* fail for the caller, executed or not.                                   *)
(*                                                                         *)
(* LockAlways, StoreForever, StoreBestEffort and PollForEver are faulty    *)
(* variants of the definitions that follow them, which Spec does not use.  *)
(***************************************************************************)
EXTENDS Naturals

CONSTANTS
  Requests,    \* bound: the requests that carry the key
  LockTTL,     \* LOCK_TTL_MS, in ticks
  ResponseTTL, \* RESPONSE_TTL_MS, in ticks
  PollTimeout, \* POLL_TIMEOUT_MS, in ticks
  MaxRun,      \* bound: ticks from the lock to the handler's last Redis command
  RedisFails,  \* whether Redis commands may fail
  NoResponse   \* no entry, no answer

ASSUME TimesAssumption == /\ LockTTL \in Nat \ {0} /\ ResponseTTL \in Nat \ {0}
                          /\ PollTimeout \in Nat /\ MaxRun \in Nat
                          /\ RedisFails \in BOOLEAN
ASSUME NoResponseAssumption == NoResponse \notin Requests

VARIABLES
  lockTtl,     \* ticks the lock has left: 0 when it is free
  response,    \* the response stored
  responseTtl, \* ticks it has left
  pc,          \* what each request does next
  age,         \* ticks since it got the lock, or began to poll
  answer,      \* the response each request was answered with
  ran,         \* history: the requests whose handler has run
  expired,     \* history: a response has expired
  retries,     \* history: the requests that came after another's answer
  unguarded    \* history: a handler has outlived the lock, or a request frees it twice

vars == <<lockTtl, response, responseTtl, pc, age, answer, ran, expired, retries,
          unguarded>>
entries == <<lockTtl, response, responseTtl>>
history == <<ran, expired, retries, unguarded>>

Steps == {"new", "missed", "handle", "store", "unlock", "failed", "poll", "done"}

Init ==
  /\ lockTtl = 0
  /\ response = NoResponse
  /\ responseTtl = 0
  /\ pc = [r \in Requests |-> "new"]
  /\ age = [r \in Requests |-> 0]
  /\ answer = [r \in Requests |-> NoResponse]
  /\ ran = {}
  /\ expired = FALSE
  /\ retries = {}
  /\ unguarded = FALSE

Goto(r, step) == pc' = [pc EXCEPT ![r] = step]

Answer(r, body) ==
  /\ answer' = [answer EXCEPT ![r] = body]
  /\ Goto(r, "done")

\* A request arrives and asks for the response.
Check(r) ==
  /\ pc[r] = "new"
  /\ \/ response # NoResponse /\ Answer(r, response)
     \/ response = NoResponse /\ Goto(r, "missed") /\ UNCHANGED answer
     \/ RedisFails /\ Answer(r, NoResponse)
  /\ retries' = IF \E q \in Requests : answer[q] # NoResponse THEN retries \cup {r}
                                                              ELSE retries
  /\ UNCHANGED <<entries, age, ran, expired, unguarded>>

LockAlways(r) ==
  /\ pc[r] = "missed"
  /\ lockTtl' = LockTTL
  /\ Goto(r, "handle")
  /\ age' = [age EXCEPT ![r] = 0]
  /\ UNCHANGED <<response, responseTtl, answer, history>>

\* SET NX PX of the lock.  Nobody looks at the response again.
Lock(r) ==
  /\ pc[r] = "missed"
  /\ \/ lockTtl = 0 /\ lockTtl' = LockTTL /\ Goto(r, "handle") /\ UNCHANGED answer
     \/ lockTtl > 0 /\ Goto(r, "poll") /\ UNCHANGED <<lockTtl, answer>>
     \/ RedisFails /\ lockTtl' \in {lockTtl, IF lockTtl = 0 THEN LockTTL ELSE lockTtl}
        /\ Answer(r, NoResponse)
  /\ age' = [age EXCEPT ![r] = 0]
  /\ UNCHANGED <<response, responseTtl, history>>

\* The handler runs to its end.
Handle(r) ==
  /\ pc[r] = "handle"
  /\ \/ Goto(r, "store")
     \/ Goto(r, "failed")
  /\ ran' = ran \cup {r}
  /\ UNCHANGED <<entries, age, answer, expired, retries, unguarded>>

StoreForever(r) ==
  /\ pc[r] = "store"
  /\ response' = r
  /\ Goto(r, "unlock")
  /\ UNCHANGED <<lockTtl, responseTtl, age, answer, history>>

StoreBestEffort(r) ==
  /\ pc[r] = "store"
  /\ \/ response' = r /\ responseTtl' = ResponseTTL
     \/ RedisFails /\ UNCHANGED <<response, responseTtl>>
  /\ Goto(r, "unlock")
  /\ UNCHANGED <<lockTtl, age, answer, history>>

\* SET PX of the response; if that fails the request does, although its handler
\* has run.
Store(r) ==
  /\ pc[r] = "store"
  /\ \/ response' = r /\ responseTtl' = ResponseTTL /\ Goto(r, "unlock")
     \/ /\ RedisFails /\ Goto(r, "failed")
        /\ \/ response' = r /\ responseTtl' = ResponseTTL
           \/ UNCHANGED <<response, responseTtl>>
  /\ UNCHANGED <<lockTtl, age, answer, history>>

\* DEL of the lock, whoever has it by now, and the answer.  If DEL fails, catchError
\* sends it again.
Unlock(r) ==
  /\ pc[r] = "unlock"
  /\ \/ lockTtl' = 0 /\ Answer(r, r) /\ UNCHANGED unguarded
     \/ /\ RedisFails /\ lockTtl' \in {0, lockTtl} /\ Goto(r, "failed")
        /\ unguarded' = TRUE
        /\ UNCHANGED answer
  /\ UNCHANGED <<response, responseTtl, age, ran, expired, retries>>

\* catchError: DEL of the lock, and the error.
UnlockFailed(r) ==
  /\ pc[r] = "failed"
  /\ lockTtl' \in {0} \cup (IF RedisFails THEN {lockTtl} ELSE {})
  /\ Answer(r, NoResponse)
  /\ UNCHANGED <<response, responseTtl, age, history>>

PollForEver(r) ==
  /\ pc[r] = "poll"
  /\ response # NoResponse
  /\ Answer(r, response)
  /\ UNCHANGED <<entries, age, history>>

\* pollForResponse: the response appears, or the time is over.  The lock is not
\* tried again, even when nobody has it.
Poll(r) ==
  /\ pc[r] = "poll"
  /\ \/ response # NoResponse /\ Answer(r, response)
     \/ age[r] >= PollTimeout /\ Answer(r, NoResponse)
     \/ RedisFails /\ Answer(r, NoResponse)
  /\ UNCHANGED <<entries, age, history>>

\* The process dies with the request: its lock stays.
Crash(r) ==
  /\ pc[r] \notin {"new", "done"}
  /\ Answer(r, NoResponse)
  /\ ran' = IF pc[r] = "handle" THEN ran \cup {r} ELSE ran
  /\ UNCHANGED <<entries, age, expired, retries, unguarded>>

Working(r) == pc[r] \in {"handle", "store", "unlock", "failed"}

Tick ==
  /\ \A r \in Requests : Working(r) => age[r] < MaxRun
  /\ age' = [r \in Requests |->
               IF Working(r) \/ (pc[r] = "poll" /\ age[r] < PollTimeout)
               THEN age[r] + 1 ELSE age[r]]
  /\ lockTtl' = IF lockTtl > 0 THEN lockTtl - 1 ELSE 0
  /\ responseTtl' = IF responseTtl > 0 THEN responseTtl - 1 ELSE 0
  /\ response' = IF responseTtl = 1 THEN NoResponse ELSE response
  /\ expired' = (expired \/ responseTtl = 1)
  /\ unguarded' = (unguarded \/ \E r \in Requests : Working(r) /\ age[r] + 1 >= LockTTL)
  /\ UNCHANGED <<pc, answer, ran, retries>>

Proceed(r) ==
  Lock(r) \/ Handle(r) \/ Store(r) \/ Unlock(r) \/ UnlockFailed(r) \/ Poll(r)

Next ==
  \/ \E r \in Requests : Check(r) \/ Proceed(r) \/ Crash(r)
  \/ Tick

Spec == Init /\ [][Next]_vars

\* Time passes, handlers end and Redis answers.  Requests need not come, nor crash.
FairSpec == Spec /\ WF_vars(Tick) /\ \A r \in Requests : WF_vars(Proceed(r))

-----------------------------------------------------------------------------
\* Types; a response is stored exactly while it has time left.
TypeOK ==
  /\ lockTtl \in 0 .. LockTTL
  /\ response \in Requests \cup {NoResponse}
  /\ responseTtl \in 0 .. ResponseTTL
  /\ pc \in [Requests -> Steps]
  /\ age \in [Requests -> Nat]
  /\ answer \in [Requests -> Requests \cup {NoResponse}]
  /\ ran \subseteq Requests
  /\ retries \subseteq Requests
  /\ expired \in BOOLEAN
  /\ unguarded \in BOOLEAN
  /\ response = NoResponse <=> responseTtl = 0

\* Two handlers of the same key never run at the same time, as long as none outlives
\* the lock and DEL does not fail; other commands may fail, and processes die.
OneAtATime ==
  ~ unguarded => \A q, r \in Requests : pc[q] = "handle" /\ pc[r] = "handle" => q = r

\* A retry that comes after somebody got an answer never runs the handler again, as
\* long as no response has expired.
RetriesReplay == ~ expired => retries \cap ran = {}

\* What the interceptor says of itself: duplicates get the cached response, so no
\* handler of the key runs while there is one.
HandlerRunsOnce == \A r \in Requests : pc[r] = "handle" => response = NoResponse

\* Every request that comes is answered, even if the one it waits for dies.
RequestsAnswered == \A r \in Requests : pc[r] # "new" ~> pc[r] = "done"
=============================================================================
