------------------------------- MODULE Reference -------------------------------
(***************************************************************************)
(* How a reference for the tracker is made and judged.  A recipe is one of *)
(*                                                                         *)
(*   "entry"     prepare_tracker_reference: resample, complete, shape,     *)
(*               certify                                                   *)
(*   "guarded"   guarded_reference: resample, complete, certify            *)
(*   "recorded"  build_trajectory: drop duplicates, resample, complete,    *)
(*               check the turn rate                                       *)
(*   "raw"       a planner's own reference, certified as it is             *)
(*   "planned"   real_plan_traj: resample, finish, check turn rate and     *)
(*               reverse                                                   *)
(*   "drawn"     serpentine: rows and connectors sample by sample, then as *)
(*               "planned"                                                 *)
(*   "scenario"  make_traj: a track at one speed, certified as it is       *)
(*   "served"    trajectory_server: a track, its loop opened, adapted      *)
(*   "filed"     trajectory_server: a recorded reference, adapted          *)
(*   "plan"      a Nav2 plan, adapted                                      *)
(*                                                                         *)
(* Waypoints lie on a square grid of mesh Ds and legs run along its axes,  *)
(* so that resampling at Ds meets every waypoint; arcs, headings (octants) *)
(* and turns (octants over two samples, twice the curvature) are integers. *)
(* The shaping passes bound the square of the speed, and so speeds appear  *)
(* as their signed squares (energies).  Waypoints are finite; a speed of a *)
(* raw reference need not be (bad).  Tracks and plans come with their      *)
(* points a mesh apart; serpentines with straight connectors.              *)
(***************************************************************************)
EXTENDS Projection, FiniteSetsExt

CONSTANTS
    Ds,                  \* sample distance of resample_uniform
    WaypointLists,       \* what a planner or a recording may offer
    RawReferences,       \* what it may offer with speeds of its own
    Tracks,              \* the points of the tracks and of a Nav2 plan
    Serpentines,         \* rows of a serpentine, and their length
    LaneW,               \* distance of two rows
    OpenGap,             \* how far from its start a served track must end
    VDefault, VMax,      \* v_default and v_max of prepare_tracker_reference
    VRecorded, VFloor,   \* v of a recorded or planned path, completion floor
    VAdapted,            \* v_default of the adapter, below its v_max
    OmegaMax, CurveSpeed,   \* in speed times twice the curvature
    Ramp, Brake,         \* 2 * a_accel and 2 * a_decel, per unit of arc
    VEnd,                \* v_end
    ReverseArcMax        \* reverse_arc_max_m

ASSUME ReferenceAssumption ==
    /\ Ds \in Nat \ {0}
    /\ {VDefault, VMax, VRecorded, VFloor, VAdapted, VEnd, OmegaMax, CurveSpeed,
        Ramp, Brake, ReverseArcMax, OpenGap} \subseteq Nat
    /\ OmegaMax % 12 = 0 /\ CurveSpeed % 12 = 0   \* caps are whole numbers
    /\ VFloor <= VMax
    /\ LaneW \in Nat /\ LaneW % Ds = 0 /\ \A size \in Serpentines : size[2] % Ds = 0

\* Nobody offers a path without points, nor a reference whose arrays differ in
\* length or whose arcs decrease; a serpentine has rows, and its lanes lie apart.
ASSUME PathsAssumption ==
    /\ \A pt \in WaypointLists \cup Tracks : pt \in Seq(Int \X Int) /\ pt # <<>>
    /\ LaneW > 0 /\ Serpentines \subseteq (Nat \ {0}) \X (Nat \ {0})
    /\ \A r \in RawReferences :
          LET n == Len(r.pt) IN
          /\ r \in [pt : Seq(Int \X Int), arc : [1..n -> Int], heading : [1..n -> 0..7],
                    turn : [1..n -> Int], energy : [1..n -> Int],
                    gear : [1..(n - 1) -> {-1, 1}], bad : SUBSET (1..n)]
          /\ r.pt # <<>>
          /\ \A i \in 1..(n - 1) : r.arc[i] <= r.arc[i + 1]

VARIABLES
    recipe,
    phase,     \* how far the recipe has got
    ref,       \* the reference so far
    verdict    \* of the guard, once judged

refVars == <<recipe, phase, ref, verdict>>

Least(a, b) == IF a <= b THEN a ELSE b
Most(a, b)  == IF a >= b THEN a ELSE b

Indices(r) == 1..Len(r.pt)

Chord(p, q) == Size(p[1] - q[1]) + Size(p[2] - q[2])   \* along an axis

\* The mesh: legs run along its axes, over a number of samples; those of tracks
\* and plans are not empty.  One sample may be driven backwards.
ASSUME MeshAssumption ==
    /\ \A pt \in WaypointLists \cup Tracks : \A i \in 1..(Len(pt) - 1) :
          /\ pt[i][1] = pt[i + 1][1] \/ pt[i][2] = pt[i + 1][2]
          /\ Chord(pt[i], pt[i + 1]) % Ds = 0
    /\ \A pt \in Tracks : \A i \in 1..(Len(pt) - 1) : pt[i] # pt[i + 1]
    /\ Ds <= ReverseArcMax

\* The arc of each point: the length of the way there.
Arcs(pt) ==
    LET arc[i \in 1..Len(pt)] ==
            IF i = 1 THEN 0 ELSE arc[i - 1] + Chord(pt[i - 1], pt[i])
    IN  arc

Zeros(n) == [i \in 1..n |-> 0]

\* A reference of which only the points are known yet.
Waypoints(pt) ==
    [pt |-> pt, arc |-> Arcs(pt), heading |-> Zeros(Len(pt)),
     turn |-> Zeros(Len(pt)), energy |-> Zeros(Len(pt)),
     gear |-> [i \in 1..(Len(pt) - 1) |-> 1], bad |-> {}]

NotJudged == [feasible |-> FALSE, codes |-> {}]

\* What the generator of the A8 geometries makes, and what the adapter does.
Planned == {"planned", "drawn"}
Adapted == {"served", "filed", "plan"}

\* The samples of a row or of a connector, from one point to another.
Row(a, b) ==
    LET n == Chord(a, b) \div Ds
    IN  [k \in 1..(n + 1) |-> <<a[1] + ((b[1] - a[1]) * (k - 1)) \div n,
                               a[2] + ((b[2] - a[2]) * (k - 1)) \div n>>]

\* A piece is pushed without the point it starts at, which is already there.
Push(pt, piece) == pt \o Tail(piece)

\* Rows to and fro, with a connector between any two, on the side where the
\* first of them ends.
Serpentine(rows, length) ==
    LET Edge(k) == IF k % 2 = 0 THEN length ELSE 0
        drawn[k \in 0..(rows - 1)] ==
            IF k = 0 THEN Row(<<0, 0>>, <<length, 0>>)
            ELSE LET e == Edge(k - 1)  y == k * LaneW IN
                 Push(Push(drawn[k - 1], Row(<<e, y - LaneW>>, <<e, y>>)),
                      Row(<<e, y>>, <<Edge(k), y>>))
    IN  drawn[rows - 1]

\* A recording, or what somebody planned.
FromWaypoints ==
    /\ recipe \in {"entry", "guarded", "recorded", "planned"}
    /\ phase = "waypoints"
    /\ \E pt \in WaypointLists : ref = Waypoints(pt)

\* A cell of the generator that is drawn and not planned.
FromRows ==
    /\ recipe = "drawn" /\ phase = "resampled"
    /\ \E size \in Serpentines : ref = Waypoints(Serpentine(size[1], size[2]))

\* The scenarios of the benchmarks, and a plan of Nav2.
FromScenario ==
    /\ recipe \in {"scenario", "plan"} /\ phase = "resampled"
    /\ \E pt \in Tracks : ref = Waypoints(pt)

\* The server was started with a track and not with a file.
FromTrack ==
    /\ recipe = "served" /\ phase = "track"
    /\ \E pt \in Tracks : ref = Waypoints(pt)

\* References with speeds of their own, some of them made to be refused.
FromElsewhere ==
    /\ recipe = "raw" /\ phase = "processed"
    /\ ref \in RawReferences

RefInit ==
    /\ verdict = NotJudged
    /\ FromWaypoints \/ FromRows \/ FromScenario \/ FromTrack \/ FromElsewhere

(***************************************************************************)
(* resample_uniform.                                                       *)
(***************************************************************************)

\* The point of a polyline at arc a.
PointAt(pt, a) ==
    LET arc == Arcs(pt)
        i == CHOOSE i \in 1..(Len(pt) - 1) : arc[i] <= a /\ a <= arc[i + 1]
                                             /\ arc[i] < arc[i + 1]
        u == Tangents([pt |-> pt])[i]
    IN  <<pt[i][1] + (a - arc[i]) * u[1], pt[i][2] + (a - arc[i]) * u[2]>>

\* A path of no length at all is left as it is.
Resampled(pt) ==
    LET total == Arcs(pt)[Len(pt)] IN
    IF total = 0 THEN pt
    ELSE [k \in 1..((total \div Ds) + 1) |-> PointAt(pt, (k - 1) * Ds)]

Resample ==
    /\ phase = "waypoints"
    /\ phase' = "resampled"
    /\ ref' = Waypoints(Resampled(ref.pt))
    /\ UNCHANGED <<recipe, verdict>>

(***************************************************************************)
(* The trajectory server.                                                  *)
(***************************************************************************)

\* The track without the points at its end that are too near its start, of
\* which two points at least remain.
Opened(pt) ==
    LET Near(i) == Square(pt[i][1] - pt[1][1]) + Square(pt[i][2] - pt[1][2])
                     < Square(OpenGap)
    IN  SubSeq(pt, 1, Max({i \in DOMAIN pt : i <= 2 \/ ~Near(i)}))

ServeTrack ==
    /\ phase = "track"
    /\ phase' = "resampled"
    /\ ref' = Waypoints(Opened(ref.pt))
    /\ UNCHANGED <<recipe, verdict>>

\* The poses of a recorded reference, which the server serves as they are.
ServeFile ==
    /\ recipe = "recorded" /\ phase = "judged" /\ verdict.feasible
    /\ recipe' = "filed" /\ phase' = "resampled"
    /\ ref' = Waypoints(ref.pt)
    /\ verdict' = NotJudged

(***************************************************************************)
(* complete_speed_curvature, _finish and adaptPath.                        *)
(***************************************************************************)

\* estimate_heading: from the neighbour before to the neighbour after; where
\* the path folds back on itself the two are the same point.
Heading(pt, i) ==
    LET a == pt[Most(i - 1, 1)]  b == pt[Least(i + 1, Len(pt))]
    IN  Direction(b[1] - a[1], b[2] - a[2])

\* estimate_curvature: the change of heading across a point; the ends copy
\* their neighbours, and a path of no length has none.
Turn(pt, i) ==
    LET n == Len(pt)
        k == Between(i, 2, n - 1)
    IN  IF n < 3 \/ Chord(pt[1], pt[2]) = 0 THEN 0
        ELSE Turned(Heading(pt, k + 1), Heading(pt, k - 1))

\* Mutant of Completed: the floor lifts the speed of any turn.
CompletedFloorEverywhere(v, top, turn) ==
    Least(Most(Least(v, IF turn = 0 THEN v ELSE OmegaMax \div Size(turn)),
               VFloor), top)

\* The speed of a point: no more than the turn rate allows, and no less than
\* the floor where the floor is allowed.
Completed(v, top, turn) ==
    LET cap == IF turn = 0 THEN v ELSE Least(v, OmegaMax \div Size(turn))
        legal == Size(turn) * VFloor <= OmegaMax
    IN  Least(IF legal THEN Most(cap, VFloor) ELSE cap, top)

Asked == IF recipe = "recorded" THEN VRecorded ELSE VDefault
Ceiling == IF recipe = "recorded" THEN Most(VRecorded, VFloor) ELSE VMax

CompletedEnergy(pt, i) == Square(Completed(Asked, Ceiling, Turn(pt, i)))

\* Nothing turns at the ends of a planned path or of a scenario.
InnerTurn(pt, i) == IF i \in {1, Len(pt)} THEN 0 ELSE Turn(pt, i)

\* The speed of a planned path is completed like that of a recorded one, and
\* signed with the gear of the segment that leaves the sample: none leaves the
\* last, which is signed as if driven backwards.
PlannedEnergy(pt, i) ==
    (IF i < Len(pt) THEN 1 ELSE -1)
        * Square(Completed(VRecorded, Most(VRecorded, VFloor), InnerTurn(pt, i)))

\* The adapter caps the speed in a turn twice, and lifts it nowhere.
AdaptedEnergy(pt, i) ==
    LET turn == Size(Turn(pt, i)) IN
    Square(IF turn = 0 THEN VAdapted
           ELSE Least(VAdapted, Least(CurveSpeed, OmegaMax) \div turn))

TurnAt(pt, i) ==
    IF recipe \in Planned \cup {"scenario"} THEN InnerTurn(pt, i) ELSE Turn(pt, i)

EnergyAt(pt, i) ==
    CASE recipe \in Planned -> PlannedEnergy(pt, i)
      [] recipe \in Adapted -> AdaptedEnergy(pt, i)
      [] recipe = "scenario" -> Square(VDefault)
      [] OTHER -> CompletedEnergy(pt, i)

Complete ==
    /\ phase = "resampled"
    /\ phase' = IF recipe = "entry" THEN "completed" ELSE "processed"
    /\ ref' = [ref EXCEPT
                  !.heading = [i \in Indices(ref) |-> Heading(ref.pt, i)],
                  !.turn = [i \in Indices(ref) |-> TurnAt(ref.pt, i)],
                  !.energy = [i \in Indices(ref) |-> EnergyAt(ref.pt, i)]]
    /\ UNCHANGED <<recipe, verdict>>

(***************************************************************************)
(* accel_limited_profile: two passes, each of which only lowers speeds.    *)
(***************************************************************************)

\* Forward: no sample has more energy than its predecessor can build up to.
Ramped(e, arc) ==
    LET f[i \in DOMAIN e] ==
            IF i = 1 \/ arc[i] <= arc[i - 1] THEN e[i]
            ELSE Least(e[i], f[i - 1] + Ramp * (arc[i] - arc[i - 1]))
    IN  f

\* Mutant of Braked: a sample looks at what its successor was before braking.
BrakedAgainstOld(e, arc) ==
    LET n == Len(arc)
        ended == [e EXCEPT ![n] = Least(@, Square(VEnd))]
    IN  [i \in DOMAIN e |->
            IF i = n \/ arc[i + 1] <= arc[i] THEN ended[i]
            ELSE Least(e[i], ended[i + 1] + Brake * (arc[i + 1] - arc[i]))]

\* Backward from v_end: no sample has more than its successor can be braked to.
Braked(e, arc) ==
    LET n == Len(arc)
        f[i \in DOMAIN e] ==
            IF i = n THEN Least(e[n], Square(VEnd))
            ELSE IF arc[i + 1] <= arc[i] THEN e[i]
            ELSE Least(e[i], f[i + 1] + Brake * (arc[i + 1] - arc[i]))
    IN  f

Shape ==
    /\ phase = "completed"
    /\ phase' = "processed"
    /\ ref' = [ref EXCEPT !.energy = Braked(Ramped(@, ref.arc), ref.arc)]
    /\ UNCHANGED <<recipe, verdict>>

(***************************************************************************)
(* The guard.                                                              *)
(***************************************************************************)

\* Samples that are not finite take part in no comparison.
Sound(r) == Indices(r) \ r.bad

ZeroLength(r) == {i \in SegmentsOf(r) : Degenerate(r, i)}

\* validate_input_path.
PathCodes(r) ==
    {c \in {"zero_length_segment", "inplace_rotation"} :
        CASE c = "zero_length_segment" -> ZeroLength(r) # {}
          [] OTHER -> \E i \in ZeroLength(r) : r.heading[i] # r.heading[i + 1]}

\* reverse_arc_m: each sample counts with the arc that leads to it.
ReverseArc(r) ==
    LET driven[i \in Indices(r)] ==
            (IF i = 1 THEN 0 ELSE driven[i - 1])
              + (IF i > 1 /\ i \in Sound(r) /\ r.energy[i] < 0
                 THEN r.arc[i] - r.arc[i - 1] ELSE 0)
    IN  driven[Len(r.pt)]

\* Mutant of OmegaViolations: a sample driven backwards is not looked at.
OmegaViolationsForward(r) ==
    {i \in Sound(r) : Square(r.turn[i]) * r.energy[i] > Square(OmegaMax)}

OmegaViolations(r) ==
    {i \in Sound(r) : Square(r.turn[i]) * Size(r.energy[i]) > Square(OmegaMax)}

\* reference_violations.
MotionCodes(r) ==
    {c \in {"nonfinite", "omega_bound", "sustained_reverse"} :
        CASE c = "nonfinite" -> r.bad # {}
          [] c = "omega_bound" -> OmegaViolations(r) # {}
          [] OTHER -> ReverseArc(r) > ReverseArcMax}

\* speed_profile_violations.
ProfileCodes(r) ==
    LET n == Len(r.pt)
        Grows(i, k, rate) == r.arc[k] > r.arc[i]
            /\ r.energy[k] - r.energy[i] > rate * (r.arc[k] - r.arc[i])
        Falls(i, k, rate) == r.arc[k] > r.arc[i]
            /\ r.energy[i] - r.energy[k] > rate * (r.arc[k] - r.arc[i])
    IN  {c \in {"accel_bound", "brake_bound", "terminal_speed", "negative_speed"} :
            CASE c = "accel_bound" ->
                    \E i \in SegmentsOf(r) : Grows(i, i + 1, Ramp)
              [] c = "brake_bound" ->
                    \E i \in SegmentsOf(r) : Falls(i, i + 1, Brake)
              [] c = "terminal_speed" -> r.energy[n] > Square(VEnd)
              [] OTHER -> \E i \in Indices(r) : r.energy[i] < 0}

\* certify_reference.
Certified(r) ==
    LET codes == PathCodes(r) \cup MotionCodes(r)
    IN  [feasible |-> codes = {}, codes |-> codes]

\* A recorded path is not certified: it fails if no two points differ, and on
\* the turn-rate guard.
Guarded(r) ==
    [feasible |-> r.arc[Len(r.pt)] > 0 /\ OmegaViolations(r) = {},
     codes |-> IF OmegaViolations(r) = {} THEN {} ELSE {"omega_bound"}]

\* A planned path is looked at for its motion only.
Emitted(r) == [feasible |-> MotionCodes(r) = {}, codes |-> MotionCodes(r)]

\* Whoever adapts a path judges nothing.
Judge ==
    /\ phase = "processed" /\ recipe \notin Adapted
    /\ phase' = "judged"
    /\ verdict' =
          IF recipe = "recorded" THEN Guarded(ref)
          ELSE IF recipe \in Planned THEN Emitted(ref)
          ELSE LET c == Certified(ref) IN
               IF recipe = "entry" /\ ~c.feasible
               THEN [c EXCEPT !.codes = @ \cup ProfileCodes(ref)] ELSE c
    /\ UNCHANGED <<recipe, ref>>

\* The benchmarks take each scenario through the guard and through the entry.
Improve(by) ==
    /\ recipe = "scenario" /\ phase = "judged"
    /\ recipe' = by /\ phase' = "waypoints"
    /\ ref' = Waypoints(ref.pt)
    /\ verdict' = NotJudged

RefNext ==
    \/ Resample \/ ServeTrack \/ ServeFile
    \/ Complete \/ Shape \/ Judge
    \/ \E by \in {"guarded", "entry"} : Improve(by)

-----------------------------------------------------------------------------

Moves(r) == r.arc[Len(r.pt)] > 0

\* Every recipe turns a path that leads anywhere into a reference the guard
\* accepts, and what the production entry makes of it also passes the check of
\* its speed profile, which the entry itself only consults after a refusal.
GoodPathsAreCertified ==
    phase = "judged" /\ recipe \notin {"raw", "scenario"} /\ Moves(ref) =>
        /\ verdict.feasible
        /\ recipe = "entry" => ProfileCodes(ref) = {}

\* The most energy a sample can have if, from no sample on, more than Ramp is
\* built up or more than Brake shed per unit of arc, wherever a turn or the end
\* of the path asks for less.
GreatestProfile(r, i) ==
    LET n == Len(r.pt)
        cap == [k \in Indices(r) |->
                  IF k = n THEN Least(CompletedEnergy(r.pt, n), Square(VEnd))
                  ELSE CompletedEnergy(r.pt, k)]
    IN  Min({cap[k] + (IF k <= i THEN Ramp * (r.arc[i] - r.arc[k])
                                 ELSE Brake * (r.arc[k] - r.arc[i]))
                : k \in Indices(r)})

\* The two passes of the shaping, each of which looks at one neighbour, give
\* the fastest profile that respects every turn and the end of the path from
\* wherever they are: none is met too fast, and nothing is given away.
ShapedIsGreatest ==
    phase = "judged" /\ recipe = "entry" /\ verdict.feasible =>
        \A i \in Indices(ref) : ref.energy[i] = GreatestProfile(ref, i)

\* Whatever was offered, a reference that is certified, or that the adapter
\* made, can be driven: every number is finite, no two neighbours coincide, the
\* turn rate of every sample is within bounds in either direction, and no
\* stretch driven backwards is longer than allowed.  (The check of a planned
\* path lets one of no length pass.)
CertifiedIsDrivable ==
    \/ verdict.feasible /\ (recipe \in Planned => Moves(ref))
    \/ recipe \in Adapted /\ phase = "processed"
    =>
        /\ ref.bad = {}
        /\ \A i \in SegmentsOf(ref) : ref.pt[i] # ref.pt[i + 1]
        /\ \A i \in Indices(ref) :
              Square(ref.turn[i]) * Size(ref.energy[i]) <= Square(OmegaMax)
        /\ \A i, k \in Indices(ref) :
              i <= k /\ (\A l \in i..k : ref.energy[l] < 0)
                 => ref.arc[k] - ref.arc[i] <= ReverseArcMax
=============================================================================
