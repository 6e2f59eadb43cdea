------------------------ MODULE MCTaskGroupScheduler ------------------------
(* Two scheduled groups for TLC. *)
EXTENDS TaskGroupScheduler

CONSTANTS g1, g2

TwoGroups == <<g1, g2>>

At(start, stop) == [start |-> start, stop |-> stop]

\* No schedule, a start that nothing bounds, and a window whose end is too far away for one
\* timer.
Windows == {At(0, 0), At(1, 0), At(2, 3)}
=============================================================================
