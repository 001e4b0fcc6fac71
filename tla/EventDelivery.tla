--------------------------- MODULE EventDelivery ---------------------------
(***************************************************************************)
(* What an outbox table and its relay promise, with no run, channel, retry *)
(* or failure in sight: RabbitMQ hears only of what was committed, of each *)
(* row's events in their order, and a row is put away only when it has     *)
(* heard all of them.  It may hear an event again, which shows nowhere.    *)
(***************************************************************************)
EXTENDS Naturals

CONSTANTS
  Rows, \* the rows ever written
  Sends \* how many events each row stands for

VARIABLES
  status,  \* what has become of each row
  accepted \* the events RabbitMQ has accepted

EventsOf(r) == {r} \X (1 .. Sends[r])

Init ==
  /\ status = [r \in Rows |-> "none"]
  /\ accepted = {}

Becomes(r, from, to) ==
  /\ status[r] = from
  /\ status' = [status EXCEPT ![r] = to]
  /\ accepted' = accepted

Commit(r) == Becomes(r, "none", "pending")

Accept(r) ==
  /\ status[r] # "none"
  /\ \E e \in EventsOf(r) :
       /\ \A earlier \in EventsOf(r) : earlier[2] < e[2] => earlier \in accepted
       /\ accepted' = accepted \cup {e}
  /\ status' = status

PutAway(r) == EventsOf(r) \subseteq accepted /\ Becomes(r, "pending", "published")

CleanUp(r) == Becomes(r, "published", "gone")

Next == \E r \in Rows : Commit(r) \/ Accept(r) \/ PutAway(r) \/ CleanUp(r)

Spec == Init /\ [][Next]_<<status, accepted>>

\* RabbitMQ has heard of nothing that is not committed, of nothing before what comes
\* before it, and of all that has been put away.
Heard ==
  \A r \in Rows :
    /\ status[r] = "none" => EventsOf(r) \cap accepted = {}
    /\ \A e \in EventsOf(r) \cap accepted, earlier \in EventsOf(r) :
         earlier[2] < e[2] => earlier \in accepted
    /\ status[r] \in {"published", "gone"} => EventsOf(r) \subseteq accepted
=============================================================================
