--------------------- MODULE SessionScheduleRefinement ---------------------
(***************************************************************************)
(* The administrators' requests, each a few SELECTs and then one write,    *)
(* implement RoomSchedule: the write is the step, if it changes anything.  *)
(***************************************************************************)
EXTENDS SessionSchedule

RS == INSTANCE RoomSchedule

\* What a request has read may be out of date when it writes, and what is then in the
\* tables is as if it had been handled at once: no session is added, moved, deleted or
\* given seats on the ground of a schedule that is no longer so.
ImplementsRoomSchedule == RS!Spec
=============================================================================
