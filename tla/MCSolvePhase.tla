----------------------------- MODULE MCSolvePhase -----------------------------
EXTENDS SolvePhase

\* Backwards, at rest, within the bounds on both sides of a ladder step, and
\* beyond the upper bound.
MCSpeeds == {-3, 0, 1, 3, 7}

\* A path that goes straight, turns left, and slows down before it turns right.
MCRefV == <<1, 2, 1, 1>>
MCRefKappa == <<0, 1, 0, -1>>

MCQDiag == <<3, 2, 1, 1>>
MCQFDiag == <<5, 4, 2, 3>>
MCSDiag == <<1, 2>>

MCErrors == {<<0, 0>>, <<1, -1>>}
MCBlocks == {<<1, 0>>, <<0, -1>>, <<-2, 2>>}
=============================================================================
