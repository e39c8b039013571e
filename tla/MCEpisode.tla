------------------------------ MODULE MCEpisode ------------------------------
(***************************************************************************)
(* Episode for model checking.                                             *)
(***************************************************************************)
EXTENDS Episode

\* Backwards, and as far as one step may go.
MCDisplacements == {-1, 2}

\* The beginning of the path and a place just before its end.
MCSightings == {0, 2, 3}

\* What later steps depend on: neither the history of the core nor the last
\* result is read by any of them, or by a property checked here.
EpisodeView ==
    <<core, cell, books, step, stall_checked_at, stall_mark, done_reason, truth>>

\* At VMax, above the probation speed.
MCOneSpeed == {2}
=============================================================================
