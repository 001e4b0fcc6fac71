-------------------------- MODULE MCSchedulerLock --------------------------
(***************************************************************************)
(* SchedulerLock on two instances.                                         *)
(***************************************************************************)
EXTENDS SchedulerLock, TLC

Symmetry == Permutations(Instances) \cup Permutations(Slots)
=============================================================================
