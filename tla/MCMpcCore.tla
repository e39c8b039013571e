------------------------------ MODULE MCMpcCore ------------------------------
(***************************************************************************)
(* MpcCore for model checking.                                             *)
(***************************************************************************)
EXTENDS MpcCore

\* Backwards, and one beyond the speed limit, which the gate believes in part.
MCDisplacements == {-1, 3}

\* At VMax, above the probation speed; a turn rate out of bounds is enough to
\* bring the actuator clamp in.
MCOneSpeed == {3}
=============================================================================
