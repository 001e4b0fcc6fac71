--------------------------- MODULE MCOutboxRelay ---------------------------
(***************************************************************************)
(* OutboxRelay on a row of reservation_expiration_outbox that stands for   *)
(* two events.                                                             *)
(***************************************************************************)
EXTENDS OutboxRelayRefinement

OneRow == {1}
OneRowSends == [r \in OneRow |-> 2]
=============================================================================
