---------------------------- MODULE TicketSales ----------------------------
(***************************************************************************)
(* What the reservations and sales modules promise, with no transaction,   *)
(* lock or seat status in sight: a reservation of a seat is pending for    *)
(* one request at a time, gets one outcome, and a seat is sold once.       *)
(***************************************************************************)
EXTENDS Naturals

CONSTANTS
  Seats, \* the seats of a session
  Nth    \* tells the successive reservations of one seat apart

VARIABLES
  status, \* what has become of each reservation
  sold    \* the reservations that have been paid

Tickets == Seats \X Nth

Released == {"expired", "cancelled", "deleted"}

Init ==
  /\ status = [t \in Tickets |-> "none"]
  /\ sold = {}

\* A request reserves all of its seats or none of them.
Reserve ==
  \E T \in (SUBSET Tickets) \ {{}} :
    /\ \A t \in T : status[t] = "none"
    /\ \A t, u \in T : t[1] = u[1] => t = u
    /\ \A t \in T, u \in Tickets : status[u] = "pending" => t[1] # u[1]
    /\ status' = [t \in Tickets |-> IF t \in T THEN "pending" ELSE status[t]]
    /\ sold' = sold

Sell(t) ==
  /\ status[t] = "pending"
  /\ \A u \in sold : u[1] # t[1]
  /\ status' = [status EXCEPT ![t] = "confirmed"]
  /\ sold' = sold \cup {t}

Release(t) ==
  /\ status[t] = "pending"
  /\ \E outcome \in Released : status' = [status EXCEPT ![t] = outcome]
  /\ sold' = sold

Next == Reserve \/ \E t \in Tickets : Sell(t) \/ Release(t)

Spec == Init /\ [][Next]_<<status, sold>>

\* A seat has one holder who may still pay and one who has paid, and what is sold is
\* what is confirmed.
OneHolder ==
  /\ \A t, u \in Tickets : status[t] = "pending" /\ status[u] = "pending" /\ t[1] = u[1] => t = u
  /\ \A t, u \in sold : t[1] = u[1] => t = u
  /\ sold = {t \in Tickets : status[t] = "confirmed"}
=============================================================================
