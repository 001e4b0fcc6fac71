------------------------- MODULE BookingRefinement -------------------------
(***************************************************************************)
(* The booking transactions implement TicketSales: a commit is one step of *)
(* it, and every other statement a stuttering step.                        *)
(***************************************************************************)
EXTENDS Booking

TS == INSTANCE TicketSales WITH Nth    <- 1 .. MaxGen,
                                status <- [r \in Rids |-> res[r].status],
                                sold   <- sales

\* Seen through the committed reservations and sales, the concurrent transactions
\* are atomic: requests reserve all their seats or none, and no interleaving with
\* payments, cancellations, expirations, failures and administration shows.
ImplementsTicketSales == TS!Spec
=============================================================================
