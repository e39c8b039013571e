--------------------------- MODULE ReferenceTracking ---------------------------
(***************************************************************************)
(* Poses projected onto a reference that was made and judged: first one    *)
(* anywhere, without an arc to start from, as the audit of an episode does *)
(* to seed its ledger (without a heading) and the controller in its first  *)
(* cycle (with one), and then those of a robot that follows the path, each *)
(* with its heading and with the arc found before, as the controller does. *)
(* A reference that the guard refuses is handed to nobody; a raw one and a *)
(* scenario are driven whatever the guard says of them, and what the       *)
(* adapter made is driven unseen.                                          *)
(***************************************************************************)
EXTENDS Reference

CONSTANTS
    SeedPoses,    \* where an episode may start
    SeedYaws,     \* and with which heading, NoYaw if none is given
    Offsets,      \* how far to the left of the path a robot may be
    Slants,       \* octants its heading may be off the direction of travel
    MaxStride     \* samples it advances at most between two projections

ASSUME TrackingAssumption ==
    /\ SeedPoses \subseteq Int \X Int
    /\ SeedYaws \subseteq Octants \cup {NoYaw}
    /\ Offsets \subseteq Int /\ Slants \subseteq -2..2 /\ MaxStride \in Nat

\* A robot that follows a path is within half a sample of it, and in reach; the
\* band of a tie is at least a sample wide.
ASSUME FollowAssumption ==
    /\ \A offset \in Offsets : 2 * Size(offset) <= Ds /\ Size(offset) <= ReacquireM
    /\ Ds <= TieEps

VARIABLES
    pose, yaw,   \* of the last projection
    at,          \* the point of the path it was taken at, 0 for none
    found        \* what closest_point answered

trackVars == <<pose, yaw, at, found>>

NothingFound == [stage |-> 3, seg |-> -1, arc |-> 0, lat |-> 0]

TrackInit ==
    /\ RefInit
    /\ pose = <<0, 0>> /\ yaw = NoYaw /\ at = 0
    /\ found = NothingFound

HandedOver ==
    \/ phase = "judged" /\ (recipe \in {"raw", "scenario"} \/ verdict.feasible)
    \/ phase = "processed" /\ recipe \in Adapted

Prepare == RefNext /\ UNCHANGED trackVars

\* The first projection of an episode.
Seed(p, heading) ==
    /\ HandedOver /\ phase' = "seeded"
    /\ pose' = p /\ yaw' = heading /\ at' = 0
    /\ found' = ClosestPoint(ref, p, heading, NoArc)
    /\ UNCHANGED <<recipe, ref, verdict>>

\* A point is straight when the path goes on from it the way it came, in gear
\* and without repeating points; the direction of travel there, in octants.
Straight(r, k) ==
    LET u == Tangents(r) IN
    /\ k \in 2..(Len(r.pt) - 1)
    /\ u[k - 1] = u[k] /\ r.gear[k - 1] = r.gear[k]
    /\ ~Degenerate(r, k - 1) /\ ~Degenerate(r, k)

\* The robot beside point k of the path.
Beside(r, k, offset) ==
    LET u == Tangents(r)[k]
    IN  <<r.pt[k][1] - offset * u[2], r.pt[k][2] + offset * u[1]>>

Facing(r, k, slant) ==
    LET u == Tangents(r)[k]
    IN  (Direction(u[1], u[2]) + (IF r.gear[k] > 0 THEN 0 ELSE 4) + slant) % 8

\* The robot has come by a straight piece of the path, at most MaxStride
\* samples from the last one; on the first of them nothing is known yet.
Follow(k, offset, slant) ==
    /\ IF at = 0 THEN HandedOver /\ k = 2 ELSE k \in at..(at + MaxStride)
    /\ Straight(ref, k)
    /\ phase' = "followed"
    /\ pose' = Beside(ref, k, offset) /\ yaw' = Facing(ref, k, slant) /\ at' = k
    /\ found' = ClosestPoint(ref, pose', yaw',
                             IF at = 0 \/ found.stage = 3 THEN NoArc ELSE found.arc)
    /\ UNCHANGED <<recipe, ref, verdict>>

TrackNext ==
    \/ Prepare
    \/ \E p \in SeedPoses, heading \in SeedYaws : Seed(p, heading)
    \/ \E k \in Indices(ref), offset \in Offsets, slant \in Slants :
          Follow(k, offset, slant)

TrackSpec == TrackInit /\ [][TrackNext]_<<refVars, trackVars>>

-----------------------------------------------------------------------------

\* The heading of the reference at an arc, in parts of Ds to the octant:
\* interpolated between the samples, the shorter way round.
HeadingAt(r, arc) ==
    LET n == Len(r.pt)
        i == Max({k \in Indices(r) : r.arc[k] <= Most(arc, 0)})
    IN  IF i = n THEN Ds * r.heading[n]
        ELSE Ds * r.heading[i]
               + (Most(arc, 0) - r.arc[i]) * Turned(r.heading[i + 1], r.heading[i])

\* The heading error at an arc, in the same unit.
HeadingErrorAt(r, heading, arc) ==
    ((Ds * heading - HeadingAt(r, arc) + 4 * Ds) % (8 * Ds)) - 4 * Ds

\* A robot that follows a path is found where it is, on the side it is on,
\* from the first projection on, however the path runs beside, across or back
\* over itself; the error measured in the frame of the arc that was found
\* agrees with the projection, and the heading error with the robot's.
FollowerFound ==
    at # 0 =>
        /\ found.stage # 3
        /\ found.arc = ref.arc[at]
        /\ found.lat = OffsetAt(ref, pose, found.arc)
        /\ recipe # "raw" => HeadingErrorAt(ref, yaw, found.arc)
                               = Ds * Turned(yaw, Facing(ref, at, 0))

\* A robot that stands within half a sample of the start of a served track,
\* looking along it if its heading is known, is found at its first sample and
\* not at the end of the loop.
ServedFromTheStart ==
    /\ phase = "seeded" /\ recipe = "served"
    /\ 2 * Chord(pose, ref.pt[1]) <= Ds /\ yaw \in {NoYaw, ref.heading[1]}
    => found.stage # 3 /\ found.arc <= Ds

\* Whoever drives what was prepared is found where he is.
FollowerIsFound == FollowerFound /\ ServedFromTheStart

\* Point q lies on segment i.
OnSegment(r, i, q) == Chord(r.pt[i], q) + Chord(q, r.pt[i + 1]) = Chord(r.pt[i], r.pt[i + 1])

\* Of the segments idx none that a robot at point k may take for the path is in
\* its way: no earlier one touches the point or a neighbour at its side, and no
\* later one leads from the point to such a neighbour.
Unrivalled(r, k, idx) ==
    LET Side(d) == Beside(r, k, d) IN
    \A i \in idx \ {k - 1, k} : \A slant \in Slants :
        i \in Admissible(r, Feet(r, Side(0)), Facing(r, k, slant)) =>
            \A d \in {-Ds, Ds} :
                IF i < k THEN ~OnSegment(r, i, Side(0)) /\ ~OnSegment(r, i, Side(d))
                ELSE ~(OnSegment(r, i, Side(0)) /\ OnSegment(r, i, Side(d)))

\* Where a robot that follows the path can get: to the straight points that no
\* stretch of more than MaxStride samples without one cuts off.
Trail(r) ==
    LET Open == {k \in Indices(r) : Straight(r, k)} IN
    {k \in Open : /\ 2 \in Open
                  /\ \A m \in 2..(k - 1) : Open \cap (m + 1)..(m + MaxStride) # {}}

\* A way on which a follower cannot be mistaken: where it is found first nothing
\* rivals the path, and from there on nothing within the window of any place it
\* may have come from.  Ways may still cross, meet or cover each other elsewhere.
ClearAhead(r) ==
    \A k \in Trail(r) :
        /\ k = 2 => Unrivalled(r, k, SegmentsOf(r))
        /\ \A j \in Trail(r) \cap (k - MaxStride)..k :
              /\ r.arc[k - 1] <= r.arc[j] + FwdM
              /\ Unrivalled(r, k, InWindow(r, r.arc[j], BackM, FwdM))

\* A track does not come back to its start.
ClearOfStart(r) ==
    Len(r.pt) > 1 /\ \A i \in SegmentsOf(r) \ {1} : ~OnSegment(r, i, r.pt[1])

\* A reference of somebody else whose arcs and headings are those of its points,
\* which lie on the mesh.
Regular(r) ==
    /\ r.arc = Arcs(r.pt)
    /\ \A i \in SegmentsOf(r) :
          /\ r.pt[i][1] = r.pt[i + 1][1] \/ r.pt[i][2] = r.pt[i + 1][2]
          /\ Chord(r.pt[i], r.pt[i + 1]) % Ds = 0
    /\ \A k \in Trail(r) :
          r.heading[k] = Direction(Tangents(r)[k][1], Tangents(r)[k][2])

\* On such a way whoever drives it is found, whatever the lengths: what this
\* asks of the path is asked of its points alone, unless it was handed in with
\* arcs and headings of its own.
WayIsClear ==
    /\ ClearAhead(ref)
    /\ recipe = "served" => ClearOfStart(ref)
    /\ recipe = "raw" => Regular(ref)

\* The admissible feet within the tie band of the nearest.
Band(feet) ==
    LET ok == Admissible(ref, feet, yaw)
    IN  {i \in ok : \A k \in ok : WithinTie(feet[i].dist2, feet[k].dist2)}

\* Another lane ties with the nearest foot: one that leads another way and that
\* the band does not reach from there without a step of more than `apart' of
\* arc.  With `elsewhere' it must also be at another place.
Tie(apart, elsewhere) ==
    LET feet == Feet(ref, pose)
        band == Band(feet)
        Nearest(i) == \A k \in band : feet[i].dist2 <= feet[k].dist2
        Away(i, k) == Square(feet[i].at[1] - feet[k].at[1])
                        + Square(feet[i].at[2] - feet[k].at[2]) > Square(2 * TieEps)
        Separate(i, k) == \E a \in band :
            /\ Least(feet[i].arc, feet[k].arc) <= feet[a].arc
            /\ feet[a].arc < Most(feet[i].arc, feet[k].arc)
            /\ \A l \in band : feet[l].arc <= feet[a].arc
                               \/ feet[l].arc > feet[a].arc + apart
    IN  \E i, k \in band :
            /\ Nearest(i) /\ feet[i].dir # feet[k].dir
            /\ Separate(i, k) /\ (elsewhere => Away(i, k))

\* Without an arc to start from, a projection is refused only when the heading
\* rules out all of the path, or a lane that leads another way ties with the
\* nearest.
RefusalNeedsTie ==
    phase = "seeded" /\ found.stage = 3 =>
        Admissible(ref, Feet(ref, pose), yaw) = {} \/ Tie(GapFloor, FALSE)

\* "With no s_prev and a genuine tie the projection is ambiguous: stage is
\* returned as 3": another lane, at another place and leading another way, is
\* within the tie band, five samples or more away along the path.
TiesAreRefused == phase = "seeded" /\ Tie(5 * Ds, TRUE) => found.stage = 3

\* The projection never answers with a piece of path that the robot's heading
\* rules out, whatever window it was sought in.
HeadingIsRespected ==
    found.stage # 3 => found.seg \in Admissible(ref, Feet(ref, pose), yaw)

\* Either answer of the search has its reason.
AnswersAreJustified == RefusalNeedsTie /\ HeadingIsRespected
=============================================================================
