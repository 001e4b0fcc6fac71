----------------------- MODULE OutboxRelayRefinement -----------------------
(***************************************************************************)
(* The relay, its overlapping runs and their channels implement            *)
(* EventDelivery: a confirm that brings news, a mark that changes its row, *)
(* a commit and a cleanup are steps of it, and all else stutters.          *)
(***************************************************************************)
EXTENDS OutboxRelay

ED == INSTANCE EventDelivery

\* Seen through the rows and what RabbitMQ has accepted, any number of overlapping
\* runs, timeouts, refusals, lost confirms and crashes is one relay that works through
\* committed rows: nothing that was rolled back is heard of, no event overtakes an
\* earlier one of its row, and no row is put away with an event unheard.
ImplementsDelivery == ED!Spec
=============================================================================
