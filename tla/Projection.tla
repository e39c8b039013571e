------------------------------ MODULE Projection ------------------------------
(***************************************************************************)
(* The projection of a pose onto the reference, closest_point, as an       *)
(* operator: feet on every segment, heading gate, arc window, and the      *)
(* resolution of near ties that may refuse an answer (stage 3).            *)
(*                                                                         *)
(* Lengths are integers in one unit, and the legs of a track run parallel  *)
(* to the axes, so that feet, arcs and squared distances are integers.     *)
(* Directions are octants, counter-clockwise, 0 along x; the threshold of  *)
(* the heading gate is two of them, and of "same direction" (0.52 rad)     *)
(* less than one.                                                          *)
(***************************************************************************)
EXTENDS Integers, Sequences, FiniteSets

CONSTANTS
    BackM, FwdM,    \* narrow window behind and ahead of s_prev
    WideM,          \* wide window on both sides
    ReacquireM,     \* farthest foot a window may answer with
    TieEps,         \* tie_eps_m
    GapFloor        \* least arc gap between two lanes

ASSUME ProjectionAssumption ==
    {BackM, FwdM, WideM, ReacquireM, TieEps, GapFloor} \subseteq Nat

NoYaw == -1    \* no heading given
NoArc == -1    \* no s_prev given
Octants == 0..7

Square(n) == n * n

Size(n) == IF n < 0 THEN -n ELSE n

\* The angle from b to a, in octants, in [-pi, pi).
Turned(a, b) == ((a - b + 4) % 8) - 4

Between(n, lo, hi) == IF n < lo THEN lo ELSE IF n > hi THEN hi ELSE n

\* The direction of a vector along an axis or a diagonal; of none, 0.
Direction(dx, dy) ==
    CASE dx > 0 /\ dy = 0 -> 0 [] dx > 0 /\ dy > 0 -> 1
      [] dx = 0 /\ dy > 0 -> 2 [] dx < 0 /\ dy > 0 -> 3
      [] dx < 0 /\ dy = 0 -> 4 [] dx < 0 /\ dy < 0 -> 5
      [] dx = 0 /\ dy < 0 -> 6 [] dx > 0 /\ dy < 0 -> 7
      [] OTHER -> 0

\* A track: its points, their arcs, the gear of each segment.
SegmentsOf(t) == 1..(Len(t.pt) - 1)

Degenerate(t, i) == t.pt[i] = t.pt[i + 1]

\* The unit tangent of each segment; that of a degenerate one is carried over
\* from the segment before.
Tangents(t) ==
    LET Sign(n) == IF n > 0 THEN 1 ELSE IF n < 0 THEN -1 ELSE 0
        tangent[i \in SegmentsOf(t)] ==
            IF Degenerate(t, i) /\ i > 1 THEN tangent[i - 1]
            ELSE <<Sign(t.pt[i + 1][1] - t.pt[i][1]),
                   Sign(t.pt[i + 1][2] - t.pt[i][2])>>
    IN  tangent

\* The feet of pose p: for each segment how far along it the nearest point
\* lies, that point, its arc, its squared distance, and the side p is on, left
\* being positive.
Feet(t, p) ==
    LET tangent == Tangents(t)
        Foot(i) ==
            LET a == t.pt[i]  u == tangent[i]
                along == Between((p[1] - a[1]) * u[1] + (p[2] - a[2]) * u[2],
                                 0, t.arc[i + 1] - t.arc[i])
                at == <<a[1] + along * u[1], a[2] + along * u[2]>>
            IN  [along |-> along, at |-> at, arc |-> t.arc[i] + along,
                 dist2 |-> Square(p[1] - at[1]) + Square(p[2] - at[2]),
                 lat |-> (p[2] - at[2]) * u[1] - (p[1] - at[1]) * u[2],
                 dir |-> Direction(u[1], u[2])]
    IN  [i \in SegmentsOf(t) |-> Foot(i)]

\* Mutant of Admissible: reverse gear is forgotten.
AdmissibleForward(t, feet, yaw) ==
    {i \in SegmentsOf(t) :
        yaw # NoYaw => Size(Turned(yaw, feet[i].dir)) <= 2}

\* The heading gate: the segments whose direction of travel is within a right
\* angle of the heading; in reverse gear the body points the other way.
Admissible(t, feet, yaw) ==
    {i \in SegmentsOf(t) :
        yaw # NoYaw =>
            Size(Turned(IF t.gear[i] > 0 THEN yaw ELSE yaw + 4, feet[i].dir)) <= 2}

\* sqrt(d2) <= sqrt(best) + TieEps, without the roots.
WithinTie(d2, best) ==
    LET over == d2 - best - Square(TieEps) IN
    over <= 0 \/ Square(over) <= 4 * Square(TieEps) * best

\* The first of a set of segments, in index order, with the least `of'.
First(idx, of(_)) ==
    CHOOSE i \in idx : \A k \in idx : of(i) < of(k) \/ (of(i) = of(k) /\ i <= k)

\* The members of a set of segments in order of the arcs of their feet.
ByArc(near, feet) ==
    LET Before(a, b) == feet[a].arc < feet[b].arc
                        \/ (feet[a].arc = feet[b].arc /\ a < b)
    IN  [k \in 1..Cardinality(near) |->
            CHOOSE i \in near :
                Cardinality({b \in near : Before(b, i)}) = k - 1]

\* Twice the median of a sequence of numbers.
TwiceMedian(gaps) ==
    LET n == Len(gaps)
        AtRank(r) ==   \* the r-th smallest, counted from 1
            gaps[CHOOSE i \in 1..n :
                Cardinality({k \in 1..n : gaps[k] < gaps[i]
                               \/ (gaps[k] = gaps[i] /\ k < i)}) = r - 1]
    IN  AtRank((n + 1) \div 2) + AtRank((n + 2) \div 2)

Torn == -2     \* two lanes tie and nothing tells them apart
Nobody == -1   \* no candidate

\* The nearest of a set of segments, and those within the tie band of it.
NearestOf(idx, feet) == LET Dist(i) == feet[i].dist2 IN First(idx, Dist)

Tied(idx, feet) ==
    LET best == NearestOf(idx, feet)
    IN  {i \in idx : WithinTie(feet[i].dist2, feet[best].dist2)}

\* Where the runs of a list of segments start: at its beginning, and after
\* every gap of more than five times the median between their arcs.
RunStarts(order, feet) ==
    LET gaps == [k \in 1..(Len(order) - 1) |->
                    feet[order[k + 1]].arc - feet[order[k]].arc]
    IN  {1} \cup {k + 1 : k \in {k \in DOMAIN gaps :
                        gaps[k] > GapFloor /\ 2 * gaps[k] > 5 * TwiceMedian(gaps)}}

\* The representative of a run, which the code seeks from the run's start to
\* the end of the list, and those of all runs of a band.
Rep(order, feet, start) ==
    LET Dist(k) == feet[order[k]].dist2
    IN  order[First(start..Len(order), Dist)]

Reps(near, feet) ==
    LET order == ByArc(near, feet)
    IN  {Rep(order, feet, start) : start \in RunStarts(order, feet)}

\* _pick: the nearest candidate of idx.  Others within the tie band matter only
\* when they lie at another place, in another run of arcs, and lead another
\* way (a single run has one representative): then the run next to s_prev is
\* taken, and without s_prev none.
Pick(idx, feet, sPrev) ==
    IF idx = {} THEN Nobody ELSE
    LET best == NearestOf(idx, feet)
        near == Tied(idx, feet)
        reps == Reps(near, feet)
        samePlace == \A i \in near :
            Square(feet[i].at[1] - feet[best].at[1])
              + Square(feet[i].at[2] - feet[best].at[2]) <= Square(2 * TieEps)
        FromPrev(i) == Size(feet[i].arc - sPrev)
    IN  IF samePlace \/ \A i, k \in reps : feet[i].dir = feet[k].dir THEN best
        ELSE IF sPrev # NoArc THEN First(reps, FromPrev)
        ELSE Torn

\* The segments that reach into the arc window around s_prev.
InWindow(t, sPrev, back, fwd) ==
    {i \in SegmentsOf(t) :
        t.arc[i + 1] >= sPrev - back /\ t.arc[i] <= sPrev + fwd}

Refused(sPrev) ==
    [stage |-> 3, seg |-> -1, arc |-> IF sPrev = NoArc THEN 0 ELSE sPrev, lat |-> 0]

Answer(feet, i, stage) ==
    [stage |-> stage, seg |-> i, arc |-> feet[i].arc, lat |-> feet[i].lat]

\* Mutant of ClosestPoint: when the gate rejects everything, search without it.
ClosestPointFailOpen(t, p, yaw, sPrev) ==
    LET feet == Feet(t, p)
        ok == Admissible(t, feet, yaw)
    IN  Answer(feet, Pick(IF ok = {} THEN SegmentsOf(t) ELSE ok, feet, 0), 2)

\* closest_point: narrow window, wide window, then everywhere.
ClosestPoint(t, p, yaw, sPrev) ==
    LET feet == Feet(t, p)
        ok == Admissible(t, feet, yaw)
        Windowed(back, fwd) ==
            IF sPrev = NoArc THEN Nobody
            ELSE Pick(InWindow(t, sPrev, back, fwd) \cap ok, feet, sPrev)
        Near(i) == i > 0 /\ feet[i].dist2 <= Square(ReacquireM)
        narrow == Windowed(BackM, FwdM)
    IN  IF Near(narrow) THEN Answer(feet, narrow, 0)
        ELSE LET wide == Windowed(WideM, WideM) IN
        IF Near(wide) THEN Answer(feet, wide, 1)
        ELSE LET anywhere == Pick(ok, feet, sPrev) IN
        IF anywhere > 0 THEN Answer(feet, anywhere, 2) ELSE Refused(sPrev)

\* sample_by_s at a vertex of the track; of coincident ones the last.
VertexAt(t, arc) ==
    CHOOSE i \in 1..Len(t.pt) :
        t.arc[i] = arc /\ \A k \in 1..Len(t.pt) : t.arc[k] = arc => k <= i

\* frenet_error_at_arc at a vertex whose heading lies along an axis: how far to
\* the left of the path p is, in the frame of the accepted arc.
OffsetAt(t, p, arc) ==
    LET a == t.pt[VertexAt(t, arc)]
        o == t.heading[VertexAt(t, arc)]
        cos == CASE o = 0 -> 1 [] o = 4 -> -1 [] OTHER -> 0
        sin == CASE o = 2 -> 1 [] o = 6 -> -1 [] OTHER -> 0
    IN  (p[2] - a[2]) * cos - (p[1] - a[1]) * sin
=============================================================================
