----------------------------- MODULE MCBooking -----------------------------
(***************************************************************************)
(* Booking and its refinement on small instances.  Requests are            *)
(* interchangeable, and so are the runs of the expiration job.             *)
(***************************************************************************)
EXTENDS BookingRefinement, TLC

Symmetry == Permutations(Clients) \cup Permutations(Jobs)
=============================================================================
