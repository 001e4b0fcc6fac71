--------------------------- MODULE MCAvailability ---------------------------
(***************************************************************************)
(* Availability with a commit of the expiration job, which writes two      *)
(* events of one reservation.  Events that are never published stand for   *)
(* the commits that write none.                                            *)
(***************************************************************************)
EXTENDS Availability

Expiration == {ReservationExpiredEvent \cup SeatReleasedEvent}
=============================================================================
