----------------------------- MODULE StraightRun -----------------------------
(***************************************************************************)
(* The controller core on a straight path, with a robot that really moves  *)
(* forward and a projection that is always right: the raw arc of every     *)
(* cycle is the robot's position and the displacement offered to the gate  *)
(* is the distance from the pose the gate recorded last.  Whatever the     *)
(* gate rejects here is honest motion.                                     *)
(*                                                                         *)
(* Refused projections, new references (the path is published again while  *)
(* the robot drives) and cycles that do not reach the core at all are part *)
(* of the run, each at most MaxMissed times in a row.                      *)
(***************************************************************************)
EXTENDS MpcCore

CONSTANTS
    MaxStep,    \* most the robot moves in one control period: v_max * Ts
    MaxMissed   \* bound: consecutive periods without an accepted projection

ASSUME StraightRunAssumption ==
    /\ Port = "cpp"   \* the Python core on a straight path is part of Episode
    /\ MaxStep \in Nat /\ MaxMissed \in Nat

VARIABLES
    pos,        \* where the robot is on the path
    last_pose,  \* gate_.last_x / last_y on this path, once there is one
    missed      \* periods since the gate last saw the pose

world == <<pos, last_pose, missed>>

Steps == 0..MaxStep

RunInit == Init /\ has_reference /\ pos = 0 /\ last_pose = 0 /\ missed = 0

\* The robot moves, then the pose is projected onto where it really is.
Advance(d) == pos' = pos + d /\ pos' \in Arcs

\* The first projection of a path.  ProjectionGateState::reset forgets the
\* pose, and nothing records the one the anchor was taken from.
DriveAnchor(d, qp) ==
    /\ Advance(d)
    /\ AnchorCycle(pos', qp)
    /\ missed' = 0
    /\ UNCHANGED last_pose

DriveTrack(d, qp) ==
    /\ Advance(d)
    /\ TrackCycle(pos' - last_pose, pos', qp)
    /\ last_pose' = pos'
    /\ missed' = 0

\* A period in which the gate does not see the pose: the projection is
\* refused, or the caller has none to offer (a failed transform).
DriveUnseen(d) ==
    /\ missed < MaxMissed
    /\ Advance(d)
    /\ AmbiguousCycle \/ UNCHANGED vars
    /\ missed' = missed + 1
    /\ UNCHANGED last_pose

\* SEEKING: the robot is told to stand still, and does.
DriveSeek ==
    /\ \/ LostCycle
       \/ \E seg \in SegmentsAt(pos) :
             \/ \E refused \in BOOLEAN : SeekingCycle(seg, refused)
             \/ CommitCycle(pos, seg)
    /\ UNCHANGED world

NewPath == SetReference /\ has_reference' /\ UNCHANGED world

RunNext ==
    \/ \E d \in Steps, qp \in QpAnswers : DriveAnchor(d, qp) \/ DriveTrack(d, qp)
    \/ \E d \in Steps : DriveUnseen(d)
    \/ DriveSeek
    \/ NewPath

RunSpec == RunInit /\ [][RunNext]_<<vars, world>>

\* Honest motion is never rejected, so it never loses its anchor either.
HonestNeverRejected == reject_run = 0 /\ reacq.mode = "NORMAL"

\* The anchor is never ahead of the robot.  While nothing is being rejected it
\* lags by no more than the motion of the periods in which the gate did not see
\* the pose; and while something is, the robot really is farther ahead than the
\* margin and the bank together account for: a robot at the very limit is
\* believed.
LagIsUnseenMotion ==
    gate_initialized =>
        /\ gate.accepted_arc <= pos
        /\ reject_run = 0 => pos - gate.accepted_arc <= missed * MaxStep
        /\ reject_run > 0 => pos - gate.accepted_arc > Margin + gate.budget

\* What a rejection of honest motion means: the budget grows exactly as the
\* distance to the anchor does, so a robot driving forward never works it off.
\* The run of rejections ends only where the gate is reset, by the commit of a
\* SEEKING episode or by a new path.
RejectionNeedsReanchor ==
    [][(reject_run > 0 /\ reject_run' = 0) => ~gate'.has_last_pose]_<<vars, world>>
=============================================================================
