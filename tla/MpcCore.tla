------------------------------- MODULE MpcCore -------------------------------
(***************************************************************************)
(* The ROS-free controller core LinearMpcController: one action per path   *)
(* through compute_cycle and one for set_reference.  The callers serialise *)
(* the two, so an action is a whole call.                                  *)
(*                                                                         *)
(* The core exists twice, in Python (mpc.py) and as its C++ port           *)
(* (linear_mpc_controller.hpp); Port says which one is meant, and every    *)
(* place where they part is a condition on Port.  The projection mode      *)
(* "global" of the Python core, instrumentation of one benchmark, is left  *)
(* out, and so is the wording of the reason of a healthy cycle.            *)
(*                                                                         *)
(* The world is chosen by the environment of a cycle: the projection of    *)
(* the pose (an arc, a segment that holds it, or a refusal, stage 3 of     *)
(* closest_point), the displacement since the gate's last pose, and        *)
(* the answer of the QP solver.  Numerics of the QP are abstracted to that *)
(* answer.                                                                 *)
(***************************************************************************)
EXTENDS Sequences, ProjectionGate, Reacquire, FallbackPolicy

CONSTANTS
    SegmentLength,  \* length of each segment of the reference
    NumSegments,    \* number of its segments
    Port,           \* "python" or "cpp"
    BackMargin,     \* back_m: how far back an arc is still believed (Python)
    Displacements,  \* what a pose may have moved along the tangent
    QpSpeeds,       \* speeds the solver may ask for
    VProbation      \* v_probation

ASSUME MpcCoreAssumption ==
    /\ SegmentLength \in Nat \ {0} /\ NumSegments \in Nat \ {0}
    /\ Port \in {"python", "cpp"}
    /\ BackMargin \in Nat
    /\ Displacements \subseteq Int
    /\ QpSpeeds \subseteq Int
    /\ VProbation \in 0..VMax

VARIABLES
    has_reference,     \* traj_ holds at least two points
    gate,              \* gate_
    gate_initialized,  \* gate_initialized_
    reject_run,        \* reject_run_
    reacq,             \* reacq_
    fallback,          \* fallback_
    have_warm,         \* have_warm_
    res,               \* what the last compute_cycle returned
    hist               \* history, see below

(***************************************************************************)
(* hist is not in the code; it remembers what the properties refer to.     *)
(*   reach     how far along the path the motion seen since the last       *)
(*             anchor can account for: the anchor, plus every forward      *)
(*             displacement, plus Margin for each accepted step; it stops  *)
(*             counting where the whole path is accounted for              *)
(*   verdicts  the last verdicts of the gate since the last anchor         *)
(*   evidence  the last candidates (segment or NoSeg) of this SEEKING      *)
(*             episode                                                     *)
(*   cold      no QP has been solved since the last (re-)anchoring         *)
(***************************************************************************)
core == <<has_reference, gate, gate_initialized, reject_run, reacq,
          fallback, have_warm>>
vars == <<core, res, hist>>

Histories == [reach : Nat, verdicts : Seq(BOOLEAN),
              evidence : Seq(Nat \cup {NoSeg}), cold : BOOLEAN]

PathLength == NumSegments * SegmentLength

Arcs == 0..PathLength

\* The segments whose clamped foot may have this arc.
SegmentsAt(arc) ==
    {seg \in 0..(NumSegments - 1) :
        seg * SegmentLength <= arc /\ arc <= (seg + 1) * SegmentLength}

QpFailed == [status |-> "kFailed", cmd |-> Zero]

\* The failure the Python core tells apart: a cost that is not finite.
QpNonFinite ==
    [status |-> "kFailed", cmd |-> [v |-> 0, finite |-> FALSE, overturn |-> FALSE]]

\* Python's QpResult.ok vouches for a finite solution, the C++ status does not.
QpAnswers ==
    [status : {"kSolved", "kApproximate"},
     cmd : [v : QpSpeeds, finite : {TRUE, Port = "python"}, overturn : BOOLEAN]]
    \cup {QpFailed}
    \cup (IF Port = "python" THEN {QpNonFinite} ELSE {})

Reasons == {"", "no reference set", "PROJECTION_LOST", "PROJECTION_AMBIGUOUS",
            "REACQUIRE_SEEKING", "clamped/degraded", "qp failed",
            "non-finite cost"}

Results ==
    [v_cmd : Int, health : HealthStates, reason : Reasons,
     qp_status : {"kSolved", "kApproximate", "kFailed"},
     in_probation : BOOLEAN, reacquire_seeking : BOOLEAN]

\* The result as constructed: the C++ QP status defaults to kFailed, the Python
\* one is empty, and no Python caller tells the two apart; reacquire_seeking is
\* a field of the C++ result alone.
DefaultResult ==
    [v_cmd |-> 0, health |-> "OK", reason |-> "", qp_status |-> "kFailed",
     in_probation |-> FALSE, reacquire_seeking |-> FALSE]

EmergencyStop(reason) ==
    [DefaultResult EXCEPT !.health = "EMERGENCY_STOP", !.reason = reason]

\* The last n elements of s.
LastN(s, n) == IF Len(s) <= n THEN s ELSE SubSeq(s, Len(s) - n + 1, Len(s))

\* Mutant of AnchoredGate: the pose the anchor was taken from is forgotten.
AnchoredGateWithoutPose(arc) == ResetGate(arc)

\* The gate at a new anchor: only the Python core keeps the pose it was taken
\* from.
AnchoredGate(arc) ==
    [ResetGate(arc) EXCEPT !.has_last_pose = (Port = "python")]

AnchoredAt(arc) ==
    [reach |-> arc, verdicts |-> <<>>, evidence |-> <<>>, cold |-> TRUE]

Init ==
    /\ has_reference \in BOOLEAN
    /\ gate = ResetGate(0)
    /\ gate_initialized = FALSE
    /\ reject_run = 0
    /\ reacq = FreshReacquire
    /\ fallback = ResetFallback
    /\ have_warm = FALSE
    /\ res = DefaultResult
    /\ hist = AnchoredAt(0)

(***************************************************************************)
(* set_reference: a new path drops the anchor, the ladder, the warm start   *)
(* and any reacquire in flight.                                            *)
(***************************************************************************)

SetReference ==
    /\ has_reference' \in BOOLEAN
    /\ fallback' = ResetFallback
    /\ have_warm' = FALSE
    /\ gate' = ResetGate(0)
    /\ gate_initialized' = FALSE
    /\ reject_run' = 0
    /\ reacq' = FreshReacquire
    /\ hist' = AnchoredAt(0)
    /\ UNCHANGED res

(***************************************************************************)
(* compute_cycle.                                                          *)
(***************************************************************************)

NoReferenceCycle ==
    /\ ~has_reference
    /\ res' = [DefaultResult EXCEPT !.health = "NO_REFERENCE",
                                    !.reason = "no reference set"]
    /\ UNCHANGED <<core, hist>>

\* SEEKING, beyond the timeout: PROJECTION_LOST.
LostCycle ==
    /\ has_reference
    /\ reacq.mode = "SEEKING"
    /\ TimedOut(reacq)
    /\ reacq' = LoseProjection(reacq)
    /\ res' = [EmergencyStop("PROJECTION_LOST") EXCEPT
                    !.in_probation = TRUE, !.reacquire_seeking = TRUE]
    /\ UNCHANGED <<has_reference, gate, gate_initialized, reject_run,
                   fallback, have_warm, hist>>

SeekingResult(r) ==
    [DefaultResult EXCEPT !.reason = "REACQUIRE_SEEKING",
                          !.in_probation = (Port = "cpp" /\ r.mode = "PROBATION"),
                          !.reacquire_seeking = TRUE]

Observed(seg) == LastN(Append(hist.evidence, seg), ReacquireStableSteps)

\* SEEKING, a candidate that does not commit: refused, or not stable yet.
SeekingCycle(seg, refused) ==
    /\ has_reference
    /\ reacq.mode = "SEEKING"
    /\ ~TimedOut(reacq)
    /\ ~Commits(reacq, seg, refused)
    /\ reacq' = ObserveCandidate(reacq, seg, refused)
    /\ res' = SeekingResult(reacq')
    /\ hist' = [hist EXCEPT !.evidence = Observed(IF refused THEN NoSeg ELSE seg)]
    /\ UNCHANGED <<has_reference, gate, gate_initialized, reject_run,
                   fallback, have_warm>>

\* Mutant of Reanchor: the warm start of the old anchor survives the commit.
ReanchorKeepingWarm(arc) ==
    /\ gate' = AnchoredGate(arc)
    /\ gate_initialized' = TRUE
    /\ reject_run' = 0
    /\ UNCHANGED have_warm

\* Mutant of Reanchor: the rejections of the old anchor are still counted.
ReanchorKeepingRejects(arc) ==
    /\ gate' = AnchoredGate(arc)
    /\ gate_initialized' = TRUE
    /\ UNCHANGED reject_run
    /\ have_warm' = FALSE

\* The atomic commit: a new baseline, no budget, no warm start.
Reanchor(arc) ==
    /\ gate' = AnchoredGate(arc)
    /\ gate_initialized' = TRUE
    /\ reject_run' = 0
    /\ have_warm' = FALSE

\* SEEKING, the beat that makes the candidate stable: atomic commit.
CommitCycle(arc, seg) ==
    /\ has_reference
    /\ reacq.mode = "SEEKING"
    /\ Commits(reacq, seg, FALSE)
    /\ reacq' = CommitCandidate(reacq, seg)
    /\ Reanchor(arc)
    /\ res' = SeekingResult(reacq')
    /\ hist' = [AnchoredAt(arc) EXCEPT !.evidence = Observed(seg)]
    /\ UNCHANGED <<has_reference, fallback>>

\* The projection is refused: an emergency stop that touches nothing.
AmbiguousCycle ==
    /\ has_reference
    /\ reacq.mode # "SEEKING"
    /\ res' = EmergencyStop("PROJECTION_AMBIGUOUS")
    /\ UNCHANGED <<core, hist>>

\* Mutant of CappedSpeed: probation alone does not slow the robot down.
RejectsCapSpeed(r, rejects, v) ==
    IF rejects > 0 THEN Lesser(v, VProbation) ELSE v

\* The reject cap: a cycle whose projection was rejected drives slowly, and in
\* the Python core so does one that is still in probation after its tick.
CappedSpeed(r, rejects, v) ==
    IF rejects > 0 \/ (Port = "python" /\ r.mode = "PROBATION")
    THEN Lesser(v, VProbation) ELSE v

FailureHealth(qp) == IF qp.cmd.finite THEN "QP_INFEASIBLE" ELSE "NAN_OUTPUT"

\* What a cycle reports when the ladder said `health': after a failure the
\* Python core overwrites it with the kind of the failure.
ReportedHealth(qp, health) ==
    IF qp.status = "kFailed" /\ Port = "python" THEN FailureHealth(qp) ELSE health

\* The tail of a cycle that runs the QP, with the reacquire state r and the
\* reject run it was reached with; h is the history so far.  After a failure
\* the C++ core drops its warm start, and the Python core keeps the old one and
\* says nothing of probation.
QpPhase(r, rejects, h, qp) ==
    LET solved == qp.status # "kFailed"
        asked  == [qp.cmd EXCEPT !.v = CappedSpeed(r, rejects, qp.cmd.v)]
        out    == IF solved THEN Apply(fallback, asked, "OK")
                            ELSE Apply(fallback, Zero, FailureHealth(qp))
    IN  /\ fallback' = out.state
        /\ have_warm' = (solved \/ (Port = "python" /\ have_warm))
        /\ res' = [v_cmd |-> out.v,
                   health |-> ReportedHealth(qp, out.health),
                   reason |-> IF ~qp.cmd.finite /\ ~solved THEN "non-finite cost"
                              ELSE IF ~solved THEN "qp failed"
                              ELSE IF out.health # "OK" THEN "clamped/degraded"
                              ELSE "",
                   qp_status |-> qp.status,
                   in_probation |-> r.mode = "PROBATION"
                                    /\ (solved \/ Port = "cpp"),
                   reacquire_seeking |-> FALSE]
        /\ hist' = [h EXCEPT !.cold = @ /\ ~solved]

\* The first trustworthy projection after a new path becomes the anchor.
AnchorCycle(raw, qp) ==
    /\ has_reference
    /\ reacq.mode # "SEEKING"
    /\ ~gate_initialized
    /\ gate' = AnchoredGate(raw)
    /\ gate_initialized' = TRUE
    /\ reject_run' = 0
    /\ reacq' = TickProbation(reacq)
    /\ QpPhase(reacq', 0, AnchoredAt(raw), qp)
    /\ UNCHANGED has_reference

\* The Python core believes no arc far behind the baseline; the C++ core takes
\* any for a reason to stay where it is.
Backward(raw) == Port = "python" /\ raw - gate.accepted_arc < -BackMargin

Believed(moved, raw) == ~Backward(raw) /\ Accepts(gate, moved, raw)

\* An arc too far behind leaves the allowance of the cycle in the bank.
GateAfter(moved, raw) ==
    IF Backward(raw)
    THEN [gate EXCEPT !.budget = Banked(gate, moved), !.has_last_pose = TRUE]
    ELSE GateStep(gate, moved, raw)

RejectRun(moved, raw) == IF Believed(moved, raw) THEN 0 ELSE reject_run + 1

LosesTrust(rejects) == rejects > MaxRejectRun

Tracked(moved, raw) ==
    LET believed == Believed(moved, raw) IN
    [hist EXCEPT
        !.reach = Lesser(@ + Greater(moved, 0) + (IF believed THEN Margin ELSE 0),
                         PathLength + AllowanceCap),
        !.verdicts = LastN(Append(@, believed), MaxRejectRun + 1),
        !.evidence = IF LosesTrust(RejectRun(moved, raw)) THEN <<>> ELSE @]

\* A cycle against an anchor: gate, reject run, probation tick, QP.  The QP
\* still runs on the cycle that gives the anchor up.
TrackCycle(moved, raw, qp) ==
    /\ has_reference
    /\ reacq.mode # "SEEKING"
    /\ gate_initialized
    /\ gate' = GateAfter(moved, raw)
    /\ reject_run' = RejectRun(moved, raw)
    /\ reacq' = TickProbation(IF LosesTrust(reject_run')
                              THEN EnterSeeking(reacq) ELSE reacq)
    /\ QpPhase(reacq', reject_run', Tracked(moved, raw), qp)
    /\ UNCHANGED <<has_reference, gate_initialized>>

\* compute_cycle, whichever path it takes.
Cycle ==
    \/ NoReferenceCycle
    \/ LostCycle
    \/ \E arc \in Arcs : \E seg \in SegmentsAt(arc) :
          \/ \E refused \in BOOLEAN : SeekingCycle(seg, refused)
          \/ CommitCycle(arc, seg)
    \/ AmbiguousCycle
    \/ \E raw \in Arcs, qp \in QpAnswers :
          \/ AnchorCycle(raw, qp)
          \/ \E moved \in Displacements : TrackCycle(moved, raw, qp)

Next == SetReference \/ Cycle

Spec == Init /\ [][Next]_vars

\* The caller keeps calling compute_cycle: the episode loop of Python, the 50 ms
\* timer of the node and the control loop of the Nav2 controller server.
FairSpec == Spec /\ WF_vars(Cycle)

-----------------------------------------------------------------------------

\* Type invariant.
TypeOK ==
    /\ has_reference \in BOOLEAN
    /\ gate \in Gates
    /\ gate_initialized \in BOOLEAN
    /\ reject_run \in 0..(MaxRejectRun + 1)
    /\ reacq \in ReacquireStates
    /\ fallback \in FallbackStates
    /\ have_warm \in BOOLEAN
    /\ res \in Results
    /\ hist \in Histories

\* The reachability gate does its work: however the projections jump about,
\* the accepted arc together with the allowance still in the bank never gets
\* ahead of what the displacement since the last anchor accounts for, up to
\* one noise margin per accepted step.  Spending an allowance twice, or
\* deciding on one that was not earned, breaks it some cycles later.
AdvanceWithinMotion ==
    gate_initialized => gate.accepted_arc + gate.budget <= hist.reach

\* The controller's reject run and the protocol's mode are kept by different
\* objects and must agree: SEEKING exactly while the run is beyond the limit.
\* A run left over from an old anchor would send the first rejection after a
\* commit straight back into SEEKING.
SeekingIffRunExceeded ==
    (reacq.mode = "SEEKING") <=> (reject_run = MaxRejectRun + 1)

\* The QP is never warm-started with a solution found under another anchor:
\* a new path and an atomic commit both drop it.
WarmStartFromThisAnchor == have_warm => ~hist.cold

\* A cycle whose projection was rejected never commands more than the
\* probation speed (the A5.0 reject cap), also when the ladder or the actuator
\* clamp intervene.
RejectedCyclesAreSlow == res.v_cmd > VProbation => reject_run = 0

\* A commit is taken only on the evidence the protocol asks for: the last
\* ReacquireStableSteps beats of this very episode saw the same segment, and
\* none of them was refused.
CommitOnlyOnStableEvidence ==
    [][(reacq.mode = "SEEKING" /\ reacq'.mode = "PROBATION")
        => \E seg \in 0..(NumSegments - 1) :
              hist'.evidence = [i \in 1..ReacquireStableSteps |-> seg]]_vars

\* A cycle that reports the probation window open commands no more than the
\* probation speed.  This is so in the Python core; it is also what the header
\* and the plugin say of the C++ core, which caps the speed only while
\* projections are rejected.
ProbationCapsSpeed == res.in_probation => res.v_cmd <= VProbation

\* Both caps of the Python core, through the ladder and the actuator clamp.
CappedCyclesAreSlow ==
    RejectedCyclesAreSlow /\ (Port = "python" => ProbationCapsSpeed)

\* The cycle got past the projection, to the QP.
Trusted == res.reason \in {"", "clamped/degraded", "qp failed",
                         "non-finite cost"}

\* The probation window is bounded in cycles that reach the QP, however many
\* refused projections come between them: if the projection is trusted again
\* and again, probation does not last.
ProbationEnds ==
    []<>Trusted => (reacq.mode = "PROBATION" ~> reacq.mode # "PROBATION")

\* The core implements the abstract protocol: what it steers by creeps, jumps
\* only at a new anchor, and a lost projection stays lost.
phase ==
    IF ~gate_initialized THEN "unanchored"
    ELSE IF Lost(reacq) THEN "lost"
    ELSE IF reacq.mode = "SEEKING" THEN "seeking"
    ELSE IF reacq.mode = "PROBATION" THEN "probation"
    ELSE "tracking"

Protocol == INSTANCE ReacquireProtocol
    WITH arc <- gate.accepted_arc, MaxAdvance <- Margin + AllowanceCap

ProtocolSafety == Protocol!SafeSpec
ProtocolLiveness == Protocol!SeekingEnds
=============================================================================
