------------------------------- MODULE Episode -------------------------------
(***************************************************************************)
(* The offline episode runner run_tracking_episode: the Python controller  *)
(* core in the loop with a plant, and an audit of the rollout that keeps   *)
(* its own progress gate, the ledger.  One step is one iteration of the    *)
(* loop: compute_cycle on the pose, plant.step, projection of the new pose *)
(* for the audit, the books, and the conditions that end the episode.      *)
(*                                                                         *)
(* Controller and audit project poses of different instants with windows   *)
(* of their own.  While both are shown the truth (trueSoFar) the path is   *)
(* straight and both see the arc the robot is really at; from the first    *)
(* wrong projection on anything may be seen and any displacement offered.  *)
(*                                                                         *)
(* The runner is asked for in the three ways of the A8 matrix: besides the *)
(* normal one, with a controller from before the gate (every projection is *)
(* its new baseline), audited as ever or by the old ruler, the raw arc.    *)
(* The recorded lists and the ratios computed after the loop are left out. *)
(***************************************************************************)
EXTENDS MpcCore

CONSTANTS
    MaxStep,         \* most the robot moves in one control period
    Sightings,       \* arcs a projection that is not right may find
    CompleteMargin,  \* complete_margin
    ProgressWindow,  \* progress_window, in steps
    ProgressMinGain, \* progress_min_gain, in units of arc
    MaxSteps         \* max_steps of one episode

\* The plant follows commands within v_max, so it moves no further in a period
\* than the gate lets a step count, and one step may be banked in full.
ASSUME EpisodeAssumption ==
    /\ Port = "python"
    /\ MaxStep \in 0..StepCap /\ StepCap <= AllowanceCap
    /\ Sightings \subseteq Arcs
    /\ CompleteMargin \in Nat
    /\ ProgressWindow \in Nat \ {0} /\ ProgressMinGain \in Nat \ {0}
    /\ MaxSteps \in Nat

VARIABLES
    controller_projection_mode,
    audit_mode,
    ledger,           \* gate: the audit's ProgressAllowanceGate
    progress,         \* res.progress_m
    skipped,          \* res.skipped_arc_m
    jumps,            \* res.projection_jump_count
    in_jump,          \* in_jump_episode
    watermark,        \* res.arc_high_watermark
    step,             \* iterations of the loop so far
    stall_checked_at,
    stall_mark,
    done_reason,      \* res.done_reason, "" while the loop runs
    truth             \* history, see below

(***************************************************************************)
(* truth is not in the code:                                               *)
(*   trueSoFar  every projection so far found the arc the robot was at     *)
(*   pos        that arc, while trueSoFar                                  *)
(*   noted      the arc of the pose the controller recorded last           *)
(*   seed       the arc the ledger was opened with                         *)
(*   motion     what the motion the audit has seen accounts for: the seed, *)
(*              every forward displacement, Margin for each accepted step  *)
(***************************************************************************)
cell == <<controller_projection_mode, audit_mode>>
books == <<ledger, progress, skipped, jumps, in_jump, watermark>>
episodeVars == <<vars, cell, books, step, stall_checked_at, stall_mark, done_reason,
                 truth>>

DoneReasons == {"", "PROJECTION_AMBIGUOUS", "COMPLETED", "DIVERGED",
                "PROJECTION_LOST", "EMERGENCY_STOP", "STALL", "TIMEOUT"}

\* The cells of the matrix and its replication rows, as controller and audit;
\* every other caller of the runner takes the first.
Cells == {<<"windowed", "accepted">>, <<"global", "accepted">>, <<"global", "raw">>}

\* The books of a new EpisodeResult.
BlankBooks ==
    /\ progress = 0 /\ skipped = 0 /\ jumps = 0 /\ watermark = 0
    /\ done_reason = ""

RunCell == \E c \in Cells : controller_projection_mode = c[1] /\ audit_mode = c[2]

\* The audit is opened with the projection of the initial pose, found without
\* a heading, and primed with one step of the ledger on that very pose.
EpisodeInit ==
    /\ Init /\ has_reference
    /\ RunCell
    /\ \E seed \in Arcs, believed \in BOOLEAN :
          /\ truth = [trueSoFar |-> believed, pos |-> IF believed THEN seed ELSE 0,
                      noted |-> IF believed THEN seed ELSE 0,
                      seed |-> seed, motion |-> seed + Margin]
          /\ ledger = GateStep(ResetGate(seed), 0, seed)
    /\ BlankBooks
    /\ in_jump = FALSE
    /\ step = 0 /\ stall_checked_at = 0 /\ stall_mark = 0

Running == done_reason = "" /\ step < MaxSteps

\* An episode tells only solved from failed.
EpisodeAnswers ==
    {qp \in QpAnswers : qp.status # "kApproximate" /\ ~qp.cmd.overturn}

\* A cycle of the controller from before the gate: whatever a projection without
\* window or heading finds is the new baseline, an ambiguous one too.
GlobalCycle(raw, qp) ==
    /\ gate' = AnchoredGate(raw)
    /\ gate_initialized' = TRUE
    /\ reject_run' = 0
    /\ reacq' = [reacq EXCEPT !.mode = "NORMAL"]
    /\ QpPhase(reacq', 0, AnchoredAt(raw), qp)
    /\ UNCHANGED has_reference

\* controller.compute_cycle(st), when the pose projects to arc raw and has
\* moved by `moved' since the pose the controller recorded last.
Sees(raw, moved) ==
    \/ /\ controller_projection_mode = "windowed"
       /\ \/ LostCycle
          \/ \E seg \in SegmentsAt(raw) :
                SeekingCycle(seg, FALSE) \/ CommitCycle(raw, seg)
          \/ \E qp \in EpisodeAnswers :
                AnchorCycle(raw, qp) \/ TrackCycle(moved, raw, qp)
    \/ /\ controller_projection_mode = "global"
       /\ \E qp \in EpisodeAnswers : GlobalCycle(raw, qp)

\* The same when every candidate is refused.
SeesNothing ==
    /\ controller_projection_mode = "windowed"
    /\ LostCycle \/ SeekingCycle(0, TRUE) \/ AmbiguousCycle

\* Mutant of Booked: resolving a jump leaves the baseline where it was.
BookedWithoutRebaseline(moved, raw, near) ==
    LET accepted == Accepts(ledger, moved, raw)
        delta_s  == raw - ledger.accepted_arc
    IN  /\ ledger' = GateStep(ledger, moved, raw)
        /\ in_jump' = ~accepted
        /\ jumps' = IF accepted \/ in_jump THEN jumps ELSE jumps + 1
        /\ skipped' = IF ~accepted /\ near THEN skipped + delta_s ELSE skipped
        /\ progress' = IF accepted /\ delta_s > 0 THEN progress + delta_s
                       ELSE progress

\* ProgressAllowanceGate.rebaseline(arc): forward only, and spends the budget.
Rebaseline(g, arc) ==
    [g EXCEPT !.accepted_arc = Greater(@, arc), !.budget = 0]

\* The books of one step: an accepted arc is progress; a rejected one opens or
\* continues a jump, and if the robot is at the arc it jumped to (near) the
\* span in between is booked as skipped and the ledger starts again from there.
Booked(moved, raw, near) ==
    LET accepted == Accepts(ledger, moved, raw)
        delta_s  == raw - ledger.accepted_arc
        stepped  == GateStep(ledger, moved, raw)
    IN  /\ ledger' = IF accepted \/ ~near THEN stepped ELSE Rebaseline(stepped, raw)
        /\ in_jump' = ~accepted
        /\ jumps' = IF accepted \/ in_jump THEN jumps ELSE jumps + 1
        /\ skipped' = IF accepted \/ ~near THEN skipped ELSE skipped + delta_s
        /\ progress' = IF accepted /\ delta_s > 0 THEN progress + delta_s
                       ELSE progress

\* The reason of an emergency stop of the controller.
EmergencyReason(r) ==
    IF r.reason \in {"PROJECTION_LOST", "PROJECTION_AMBIGUOUS"} THEN r.reason
    ELSE "EMERGENCY_STOP"

\* Mutant of Completes: completion is tested on the raw arc.
CompletesOnRaw(r, raw) == raw >= PathLength - CompleteMargin /\ ~r.in_probation

\* Completion reads the watermark, and is refused in probation.
Completes(r, raw) ==
    watermark' >= PathLength - CompleteMargin /\ ~r.in_probation

StallChecked == step - stall_checked_at >= ProgressWindow

\* Mutant of Stalls: a window without a check in it is never a stall.
StallsNever == FALSE

Stalls == StallChecked /\ watermark' - stall_mark < ProgressMinGain

\* How the iteration ends, first condition first.
Verdict(r, raw, diverged) ==
    IF Completes(r, raw) THEN "COMPLETED"
    ELSE IF diverged THEN "DIVERGED"
    ELSE IF r.health = "EMERGENCY_STOP" THEN EmergencyReason(r)
    ELSE IF Stalls THEN "STALL"
    ELSE ""

\* The old ruler keeps no books: the raw arc is the progress.
Unbooked == UNCHANGED <<ledger, in_jump, jumps, skipped, progress>>

\* The arc that the watermark takes for the robot's.
Ruler(raw) == IF audit_mode = "raw" THEN raw ELSE ledger'.accepted_arc

\* From the second projection of the iteration, of the pose after plant.step,
\* to its end.
Audit(moved, raw, near, diverged) ==
    /\ IF audit_mode = "raw" THEN Unbooked ELSE Booked(moved, raw, near)
    /\ watermark' = Greater(watermark, Ruler(raw))
    /\ done_reason' = Verdict(res', raw, diverged)
    /\ step' = step + 1
    /\ UNCHANGED cell
    /\ IF StallChecked /\ done_reason' = ""
       THEN stall_mark' = watermark' /\ stall_checked_at' = step
       ELSE UNCHANGED <<stall_mark, stall_checked_at>>

\* The motion is counted up to where the whole path is accounted for.
MotionSeen(moved, raw) ==
    Lesser(truth.motion + Greater(moved, 0)
             + (IF Accepts(ledger, moved, raw) THEN Margin ELSE 0),
           PathLength + AllowanceCap)

\* An iteration in which both projections are right: the robot stands at pos
\* for the one and has moved by d for the other.
TrueStep(d, diverged) ==
    /\ Running
    /\ truth.trueSoFar
    /\ truth.pos + d \in Arcs
    /\ Sees(truth.pos, truth.pos - truth.noted)
    /\ Audit(d, truth.pos + d, TRUE, diverged)
    /\ truth' = [truth EXCEPT !.pos = @ + d,
                     !.noted = IF reacq.mode = "SEEKING" /\ reacq'.mode = "SEEKING"
                               THEN @ ELSE truth.pos,
                     !.motion = MotionSeen(d, truth.pos + d)]

\* An iteration in which they need not be, and all that come after it.
Astray(moved, raw) ==
    truth' = [truth EXCEPT !.trueSoFar = FALSE, !.pos = 0, !.noted = 0,
                           !.motion = MotionSeen(moved, raw)]

WrongStep(moved, raw, near, diverged) ==
    /\ Running
    /\ \/ SeesNothing
       \/ \E arc \in Sightings, m \in Displacements : Sees(arc, m)
    /\ Audit(moved, raw, near, diverged)
    /\ Astray(moved, raw)

\* The audit's own projection is refused: the episode ends before anything is
\* booked.
RefusedStep ==
    /\ Running
    /\ \/ SeesNothing
       \/ \E arc \in Sightings, m \in Displacements : Sees(arc, m)
    /\ done_reason' = "PROJECTION_AMBIGUOUS"
    /\ truth' = [truth EXCEPT !.trueSoFar = FALSE, !.pos = 0, !.noted = 0]
    /\ UNCHANGED <<cell, books, step, stall_checked_at, stall_mark>>

\* The loop runs out of iterations.
Timeout ==
    /\ done_reason = "" /\ step = MaxSteps
    /\ done_reason' = "TIMEOUT"
    /\ UNCHANGED <<vars, cell, books, step, stall_checked_at, stall_mark, truth>>

EpisodeNext ==
    \/ \E d \in 0..MaxStep, diverged \in BOOLEAN : TrueStep(d, diverged)
    \/ \E moved \in Displacements, raw \in Sightings, near, diverged \in BOOLEAN :
          WrongStep(moved, raw, near, diverged)
    \/ RefusedStep
    \/ Timeout

EpisodeSpec == EpisodeInit /\ [][EpisodeNext]_episodeVars

-----------------------------------------------------------------------------

Truths == [trueSoFar : BOOLEAN, pos : Arcs, noted : Arcs, seed : Arcs,
           motion : Nat]

\* Type invariant.
EpisodeTypeOK ==
    /\ cell \in Cells
    /\ ledger \in Gates /\ ledger.accepted_arc \in Arcs
    /\ progress \in Nat /\ skipped \in Nat /\ jumps \in Nat /\ watermark \in Nat
    /\ in_jump \in BOOLEAN
    /\ step \in 0..MaxSteps /\ stall_checked_at \in Nat /\ stall_mark \in Nat
    /\ done_reason \in DoneReasons
    /\ truth \in Truths

Honest == audit_mode = "accepted"

\* The books balance: what was booked as progress and what was booked as
\* skipped add up to the way from the seed to the arc the ledger trusts, however
\* jumps were opened, resolved, left unresolved or returned from.
BooksBalance == progress + skipped = ledger.accepted_arc - truth.seed

\* Progress is never made up by projections: what is booked as progress,
\* together with the allowance still in the bank, is covered by the motion the
\* audit has seen and one noise margin per accepted step.
ProgressWithinMotion ==
    truth.seed + progress + ledger.budget <= truth.motion

\* The two gates agree: as long as every projection is right neither the
\* controller nor the audit ever rejects one, although they look at the pose
\* before and after the plant has moved; the audit is at the robot and the
\* controller at the place where it was one step before.
TruthNeverRejected ==
    truth.trueSoFar =>
        /\ reject_run = 0 /\ reacq.mode = "NORMAL"
        /\ jumps = 0 /\ skipped = 0
        /\ Honest => ledger.accepted_arc = truth.pos
        /\ gate_initialized => gate.accepted_arc = truth.noted

\* An episode that goes on makes progress: it takes at most one window of steps
\* for each ProgressMinGain of accepted arc, and one to begin with.
LongRunsMakeProgress ==
    done_reason = "" =>
        step <= ProgressWindow * ((watermark \div ProgressMinGain) + 1)

\* "Completed" is said only of an accepted arc near the end of the path,
\* whatever the raw projections were and however much of them the controller
\* believes; only the old ruler, which keeps no ledger, may say it of less.
CompletedAtTheEnd ==
    done_reason = "COMPLETED" /\ Honest
        => ledger.accepted_arc >= PathLength - CompleteMargin
=============================================================================
