--------------------------- MODULE MCIdempotency ---------------------------
(***************************************************************************)
(* Idempotency with a few requests under one key.                          *)
(***************************************************************************)
EXTENDS Idempotency, TLC

Symmetry == Permutations(Requests)
=============================================================================
