--------------------------- MODULE Nav2Controller ---------------------------
(***************************************************************************)
(* The Nav2 plugin LinearMpcNav2Controller around the controller core: the *)
(* calls the Nav2 controller server makes, one after another.  Each call   *)
(* of computeVelocityCommands is one cycle of the core and what the plugin *)
(* makes of its result, a command or an exception.                         *)
(*                                                                         *)
(* The core's variables outlive controller_.reset() here; without a        *)
(* controller nothing reads them.  An external speed limit is kept as the  *)
(* speed it amounts to, percentage or not.                                 *)
(***************************************************************************)
EXTENDS MpcCore

CONSTANTS
    QpFailMax,      \* qp_fail_max
    AmbiguousMax,   \* ambiguous_max
    AMax,           \* a_max, in speed units squared per two units of arc
    TerminalMargin, \* terminal_stop_margin
    SpeedLimits     \* limits an external caller may set

ASSUME Nav2Assumption ==
    /\ QpFailMax \in Nat /\ AmbiguousMax \in Nat
    /\ AMax \in Nat \ {0} /\ TerminalMargin \in Nat
    /\ SpeedLimits \subseteq Nat

VARIABLES
    has_plan,       \* has_plan_
    controller,     \* controller_ is not null
    qp_fail_run,    \* qp_fail_monitor_.run_
    ambiguous_run,  \* ambiguous_run_
    speed_limit,    \* the active external limit, or NoLimit
    outcome,        \* what the last call returned or threw
    tally           \* history: failed normal cycles of this plan, and cycles
                    \* begun in the present SEEKING episode

plugin == <<has_plan, controller, qp_fail_run, ambiguous_run, speed_limit>>
nav2Vars == <<vars, plugin, outcome, tally>>

NoLimit == -1

Outcomes ==
    [kind : {"none", "command", "NoValidControl", "ControllerTFError",
             "InvalidPath"},
     v : Int]

Thrown(exception) == [kind |-> exception, v |-> 0]
Command(v) == [kind |-> "command", v |-> v]

Nav2Init ==
    /\ Init /\ ~has_reference
    /\ has_plan = FALSE
    /\ controller = FALSE
    /\ qp_fail_run = 0
    /\ ambiguous_run = 0
    /\ speed_limit = NoLimit
    /\ outcome = [kind |-> "none", v |-> 0]
    /\ tally = [failed |-> 0, beats |-> 0]

(***************************************************************************)
(* setPlan: a plan that is too short is refused at the door; any other is  *)
(* given to a controller of its own.                                       *)
(***************************************************************************)

RefusePlan ==
    /\ outcome' = Thrown("InvalidPath")
    /\ UNCHANGED <<vars, plugin, tally>>

SetPlan ==
    /\ has_reference' = TRUE
    /\ gate' = ResetGate(0)
    /\ gate_initialized' = FALSE
    /\ reject_run' = 0
    /\ reacq' = FreshReacquire
    /\ fallback' = ResetFallback
    /\ have_warm' = FALSE
    /\ res' = DefaultResult
    /\ hist' = AnchoredAt(0)
    /\ has_plan' = TRUE
    /\ controller' = TRUE
    /\ qp_fail_run' = 0
    /\ ambiguous_run' = 0
    /\ outcome' = [kind |-> "none", v |-> 0]
    /\ tally' = [failed |-> 0, beats |-> 0]
    /\ UNCHANGED speed_limit

SetSpeedLimit ==
    /\ speed_limit' \in SpeedLimits \cup {NoLimit}
    /\ UNCHANGED <<vars, has_plan, controller, qp_fail_run, ambiguous_run,
                   outcome, tally>>

\* cleanup() drops the controller and nothing else.
Cleanup ==
    /\ controller' = FALSE
    /\ UNCHANGED <<vars, has_plan, qp_fail_run, ambiguous_run, speed_limit,
                   outcome, tally>>

(***************************************************************************)
(* computeVelocityCommands.                                                *)
(***************************************************************************)

ComputeWithoutPlan ==
    /\ ~(has_plan /\ controller)
    /\ outcome' = Thrown("NoValidControl")
    /\ UNCHANGED <<vars, plugin, tally>>

\* No trustworthy pose in the path frame.
ComputeWithoutTransform ==
    /\ has_plan /\ controller
    /\ outcome' = Thrown("ControllerTFError")
    /\ UNCHANGED <<vars, plugin, tally>>

\* The plan is given up: the plugin clears it and throws.
ClearPlan ==
    /\ has_plan' = FALSE
    /\ controller' = FALSE
    /\ outcome' = Thrown("NoValidControl")

KeepPlan(v) ==
    /\ outcome' = Command(v)
    /\ UNCHANGED <<has_plan, controller>>

\* Mutant of VAllow: probation drives at full speed.
VAllowNoProbation(r) ==
    IF speed_limit = NoLimit THEN VMax ELSE Lesser(VMax, speed_limit)

\* The least of the controller's limit, the external one and, in a reacquire
\* cycle in probation, v_probation.
VAllow(r) ==
    Lesser(IF speed_limit = NoLimit THEN VMax ELSE Lesser(VMax, speed_limit),
           IF r.in_probation THEN VProbation ELSE VMax)

\* Is speed v able to stop before the end of the path, less the margin?
CanStop(v, arc) == v * v <= 2 * AMax * Greater(0, PathLength - arc - TerminalMargin)

\* Both output paths: the allowed speed, then the terminal stop.
Shaped(r, arc) ==
    LET v == Clamp(r.v_cmd, -VAllow(r), VAllow(r))
        v_term == CHOOSE t \in 0..VMax : CanStop(t, arc)
                      /\ \A u \in 0..VMax : CanStop(u, arc) => u <= t
    IN  Clamp(v, -v_term, v_term)

\* Mutant of Recorded: an approximate solution counts as a failure.
RecordedApproximate(r) ==
    IF r.qp_status # "kSolved" THEN qp_fail_run + 1
    ELSE IF qp_fail_run > 0 THEN qp_fail_run - 1
    ELSE qp_fail_run

\* QpFailMonitor::record on an accountable cycle.
Recorded(r) ==
    IF r.qp_status = "kFailed" THEN qp_fail_run + 1
    ELSE IF qp_fail_run > 0 /\ r.qp_status = "kSolved" THEN qp_fail_run - 1
    ELSE qp_fail_run

LostVerdict(r) == r.health = "EMERGENCY_STOP" /\ r.reason = "PROJECTION_LOST"

AmbiguousVerdict(r) ==
    r.health = "EMERGENCY_STOP" /\ r.reason = "PROJECTION_AMBIGUOUS"

Reacquiring(r) == r.reacquire_seeking \/ r.in_probation

\* Mutant of OnLost: a lost projection only stops the robot.
LostKeepingPlan == KeepPlan(0) /\ UNCHANGED <<qp_fail_run, ambiguous_run>>

OnLost == ClearPlan /\ UNCHANGED <<qp_fail_run, ambiguous_run>>

OnAmbiguous ==
    /\ ambiguous_run' = ambiguous_run + 1
    /\ IF ambiguous_run' > AmbiguousMax THEN ClearPlan ELSE KeepPlan(0)
    /\ UNCHANGED qp_fail_run

\* SEEKING and PROBATION: a shaped command, and never a QP-failure abort.
OnReacquire(r) ==
    /\ KeepPlan(Shaped(r, gate'.accepted_arc))
    /\ UNCHANGED <<qp_fail_run, ambiguous_run>>

OnTracking(r) ==
    /\ qp_fail_run' = Recorded(r)
    /\ IF r.qp_status = "kFailed" /\ qp_fail_run' > QpFailMax
       THEN ClearPlan ELSE KeepPlan(Shaped(r, gate'.accepted_arc))
    /\ UNCHANGED ambiguous_run

Tallied(r) ==
    [failed |-> IF ~LostVerdict(r) /\ ~AmbiguousVerdict(r) /\ ~Reacquiring(r)
                   /\ r.qp_status = "kFailed" /\ tally.failed <= QpFailMax
                THEN tally.failed + 1 ELSE tally.failed,
     beats  |-> IF reacq.mode = "SEEKING"
                THEN Lesser(tally.beats + 1, ReacquireTimeoutSteps + 2) ELSE 0]

\* One cycle of the core, and the plugin's reading of its result.
Compute ==
    /\ has_plan /\ controller
    /\ Cycle
    /\ \/ LostVerdict(res') /\ OnLost
       \/ AmbiguousVerdict(res') /\ OnAmbiguous
       \/ ~LostVerdict(res') /\ ~AmbiguousVerdict(res')
          /\ Reacquiring(res') /\ OnReacquire(res')
       \/ ~LostVerdict(res') /\ ~AmbiguousVerdict(res')
          /\ ~Reacquiring(res') /\ OnTracking(res')
    /\ tally' = Tallied(res')
    /\ UNCHANGED speed_limit

Nav2Next ==
    \/ SetPlan \/ RefusePlan \/ SetSpeedLimit \/ Cleanup
    \/ ComputeWithoutPlan \/ ComputeWithoutTransform \/ Compute

Nav2Spec == Nav2Init /\ [][Nav2Next]_nav2Vars

\* The controller server keeps calling, and transforms do not fail forever.
Nav2FairSpec == Nav2Spec /\ WF_nav2Vars(Compute)

-----------------------------------------------------------------------------

\* Type invariant.
Nav2TypeOK ==
    /\ TypeOK
    /\ has_plan \in BOOLEAN /\ controller \in BOOLEAN
    /\ qp_fail_run \in 0..(QpFailMax + 1)
    /\ ambiguous_run \in 0..(AmbiguousMax + 1)
    /\ speed_limit \in SpeedLimits \cup {NoLimit}
    /\ outcome \in Outcomes
    /\ tally \in [failed : 0..(QpFailMax + 1), beats : Nat]

\* Every command handed to Nav2 respects every limit there is at that moment:
\* the controller's, the external one, v_probation while the cycle reports
\* probation, the reject cap while projections are rejected, and the distance
\* left before the end of the path measured on the accepted arc.
CommandRespectsEveryLimit ==
    [][outcome'.kind = "command" /\ vars' # vars =>
        /\ outcome'.v <= VMax
        /\ speed_limit # NoLimit => outcome'.v <= speed_limit
        /\ res'.in_probation \/ reject_run' > 0 => outcome'.v <= VProbation
        /\ CanStop(outcome'.v, gate'.accepted_arc)]_nav2Vars

\* A plan is given up for QP failures only after more than QpFailMax failed
\* cycles of normal tracking; the cycles of SEEKING, which run no QP and whose
\* result reads "failed" by default, and those of PROBATION do not count.
AbortNeedsNormalFailures ==
    [][(outcome'.kind = "NoValidControl" /\ has_plan /\ ~has_plan'
        /\ ~LostVerdict(res') /\ ~AmbiguousVerdict(res'))
        => tally'.failed > QpFailMax]_nav2Vars

\* A SEEKING episode has all its time: the plugin throws it away only in the
\* cycle after ReacquireTimeoutSteps cycles of that same episode.
SeekingHasItsTime ==
    [][(reacq.mode = "SEEKING" /\ has_plan /\ ~has_plan')
        => tally'.beats = ReacquireTimeoutSteps + 1]_nav2Vars

\* SEEKING is left one way or the other: by a commit, or by giving the plan up.
SeekingIsResolved ==
    (reacq.mode = "SEEKING" /\ has_plan /\ controller)
        ~> (reacq.mode # "SEEKING" \/ ~has_plan \/ ~controller)
=============================================================================
