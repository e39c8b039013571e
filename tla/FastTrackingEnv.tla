---------------------------- MODULE FastTrackingEnv ----------------------------
(***************************************************************************)
(* The learning environment ResidualTrackingEnv; PolicyRuns has those who  *)
(* run episodes in it.  One step fuses the command of the controller with  *)
(* the residual of a policy, projects it into the actuator and rate        *)
(* limits, sends it through a queue that delays it, moves the plant, lets  *)
(* a ledger gate decide how far along the path the robot has come, pays    *)
(* for the progress and decides whether the episode is over.               *)
(*                                                                         *)
(* A command is its speed; the turn rate takes the same way with limits of *)
(* its own.  Of the controller only what it answers counts: a speed when   *)
(* it is healthy, zero otherwise.  Speeds are in units of arc a step.  The *)
(* robot drives along the path; the lateral error is seen by the one       *)
(* comparison made with it, and of the reward only the paid progress is    *)
(* kept.  Observations feed the policy, which may choose anything here.    *)
(***************************************************************************)
EXTENDS ProjectionGate, Sequences

CONSTANTS
    Tracks,          \* length of each track
    VMin, VMax,      \* v_min and v_max of the parameters
    RateV,           \* dv_max_per_step
    BaselineSpeeds,  \* what a healthy controller may command
    Residuals,       \* alpha * delta of a policy
    Delays,          \* what control_delay_steps may be sampled as
    Starts,          \* where along the path an episode may start
    Sightings,       \* arcs a projection that is not right may find
    CompleteMargin,  \* complete_margin_m
    Window,          \* progress_window
    MinGain,         \* progress_min_gain_m
    MaxSteps         \* max_steps

Longest == CHOOSE n \in Delays : \A k \in Delays : k <= n

ASSUME EnvAssumption ==
    /\ Tracks \in Seq(Nat) /\ Len(Tracks) > 0
    /\ VMin \in Int /\ VMax \in Int /\ VMin <= 0 /\ 0 <= VMax
    /\ RateV \in Nat
    /\ BaselineSpeeds \subseteq VMin..VMax /\ Residuals \subseteq Int
    /\ Delays \subseteq Nat /\ \E n \in Delays : \A k \in Delays : k <= n
    /\ Starts \subseteq Int /\ Sightings \subseteq Nat
    /\ {CompleteMargin, MinGain, MaxSteps} \subseteq Nat
    /\ Window \in Nat \ {0}

(***************************************************************************)
(* What one decision of the ledger may accept is more than the robot moves *)
(* in a step: stepCap is v_max * Ts and odom_step_noise_m, 15 mm, and the  *)
(* residual, at most ACTION_DV_MAX, adds no more than 10 mm to v_max * Ts; *)
(* allowance_cap_m is three times both.                                    *)
(***************************************************************************)
Paced(speed) == speed <= Margin + StepCap /\ speed <= Margin + AllowanceCap

ASSUME PaceAssumption == \A residual \in Residuals \cup {0} : Paced(VMax + residual)

VARIABLES
    track, shaped, \* traj and use_projection, as it was built
    delay, lagged, \* control_delay_steps, and whether velocity_lag_s is not 0
    step_count,
    prev_cmd,      \* _prev_cmd
    delay_buf,     \* _delay_buf
    v,             \* speed of the plant
    gate,          \* _gate
    arc_hist,      \* _arc_hist
    reason,        \* of the termination, NoReason while the episode lasts
    hist           \* history, see below

(***************************************************************************)
(* hist is not in the code:                                                *)
(*   issued  the commands of the episode, the last Longest + 2 of them     *)
(*   wheels  what the plant was given last                                 *)
(*   paid    the progress paid for in this episode                         *)
(*   pos     the arc the robot is really at; far, the farthest so far      *)
(*   honest  every projection of the episode found where the robot was     *)
(*   motion  the arc the ledger was opened with, the forward displacements *)
(*           it was shown and Margin for each step it accepted             *)
(***************************************************************************)
settings == <<track, shaped, delay, lagged>>
envVars == <<settings, step_count, prev_cmd, delay_buf, v, gate, arc_hist,
             reason, hist>>

NoReason == ""

Reasons == {NoReason, "max_steps", "completed", "out_of_track", "emergency_stop",
            "controller_fault", "stall"}

Length == Tracks[track]

Within(n, lo, hi) == IF n < lo THEN lo ELSE IF n > hi THEN hi ELSE n

\* Where a robot at arc p of a track of length l is when it is seen right.
Seen(p, l) == Within(p, 0, l)

\* Mutant of Ledger: it is not primed with the pose it was opened at.
LedgerUnprimed(seed) == ResetGate(seed)

\* The ledger, opened with an arc and primed with the pose it was found for.
Ledger(seed) == GateStep(ResetGate(seed), 0, seed)

\* reset(): a new plant, controller and ledger; the ledger is opened with the
\* projection of the first pose, whatever it finds.
Opened(n, start, seed) ==
    /\ step_count' = 0 /\ prev_cmd' = 0 /\ delay_buf' = <<>> /\ v' = 0
    /\ gate' = Ledger(seed)
    /\ arc_hist' = <<>> /\ reason' = NoReason
    /\ hist' = [issued |-> <<>>, wheels |-> 0, paid |-> 0, pos |-> start,
                far |-> start, honest |-> (seed = Seen(start, Tracks[n])),
                motion |-> seed + Margin]

\* The environment as it is built, with the profile that has no disturbance.
EnvInit ==
    /\ track = 1 /\ shaped = TRUE /\ delay = 0 /\ lagged = FALSE
    /\ step_count = 0 /\ prev_cmd = 0 /\ delay_buf = <<>> /\ v = 0
    /\ gate = Ledger(0)
    /\ arc_hist = <<>> /\ reason = NoReason
    /\ hist = [issued |-> <<>>, wheels |-> 0, paid |-> 0, pos |-> 0,
               far |-> 0, honest |-> TRUE, motion |-> Margin]

\* reset() on a track, wherever its first pose is found.
ResetOn(n) ==
    \E start \in Starts :
    \E seed \in {Seen(start, Tracks[n])} \cup Sightings :
        seed <= Tracks[n] /\ Opened(n, start, seed)

\* SafetyProjection.project: clip, limit the change, clip again.
Projected(raw) ==
    Within(prev_cmd + Within(Within(raw, VMin, VMax) - prev_cmd, -RateV, RateV),
           VMin, VMax)

Command(base, residual) ==
    IF shaped THEN Projected(base + residual) ELSE base + residual

\* The queue gives up its oldest command once it is longer than delay + 1; until
\* then a command is applied at once, and stays in the queue all the same.
Overfull(q) == Len(q) > delay + 1

Applied(cmd) ==
    LET q == Append(delay_buf, cmd) IN IF Overfull(q) THEN Head(q) ELSE cmd

Queue(cmd) ==
    LET q == Append(delay_buf, cmd) IN IF Overfull(q) THEN Tail(q) ELSE q

\* The speed the plant may come to: the command, or with a lag one on the way.
SpeedsTowards(cmd) ==
    IF ~lagged THEN {cmd}
    ELSE IF v <= cmd THEN v..cmd ELSE cmd..v

\* Mutant of Pay: the progress is measured on the raw projection.
PayOnRaw(raw) ==
    Greater(0, raw - (IF arc_hist = <<>> THEN 0 ELSE arc_hist[Len(arc_hist)]))

\* ds: how far the ledger is beyond the last entry of the history; the first
\* step of an episode is paid from the start of the path.
Pay(raw) ==
    Greater(0, gate'.accepted_arc
                 - (IF arc_hist = <<>> THEN 0 ELSE arc_hist[Len(arc_hist)]))

\* The progress over the window is too little.
Stalled(arcs) ==
    Len(arcs) >= Window
      /\ arcs[Len(arcs)] - arcs[Len(arcs) - Window + 1] < MinGain

Complete == gate'.accepted_arc >= Length - CompleteMargin

\* check_termination, first condition first.
Termination(astray, health) ==
    IF step_count' >= MaxSteps THEN "max_steps"
    ELSE IF Complete THEN "completed"
    ELSE IF astray THEN "out_of_track"
    ELSE IF health = "emergency" THEN "emergency_stop"
    ELSE IF health = "fault" THEN "controller_fault"
    ELSE IF Stalled(arc_hist') THEN "stall"
    ELSE NoReason

\* The end of the history that is kept.
Latest(s) == IF Len(s) > Longest + 2 THEN Tail(s) ELSE s

\* step(): base is the command of the controller, raw the projection of the
\* pose after the plant has moved, moved the displacement as the ledger takes
\* it along the path at its own arc.
Step(base, health, residual, speed, raw, moved, astray) ==
    LET cmd == Command(base, residual)
        pos == hist.pos + speed
        right == raw = Seen(pos, Length) /\ moved = speed
    IN  /\ reason = NoReason
        /\ speed \in SpeedsTowards(Applied(cmd))
        /\ step_count' = step_count + 1
        /\ prev_cmd' = cmd
        /\ delay_buf' = Queue(cmd)
        /\ v' = speed
        /\ gate' = GateStep(gate, moved, raw)
        /\ arc_hist' = Append(arc_hist, gate'.accepted_arc)
        /\ reason' = Termination(astray, health)
        /\ hist' = [issued |-> Latest(Append(hist.issued, cmd)),
                    wheels |-> Applied(cmd),
                    paid |-> hist.paid + Pay(raw),
                    pos |-> pos,
                    far |-> Greater(hist.far, pos),
                    honest |-> (hist.honest /\ right),
                    motion |-> hist.motion + PhysicalDs(gate, moved)
                                 + (IF Accepts(gate, moved, raw) THEN Margin ELSE 0)]
        /\ UNCHANGED settings

Healths == {"ok", "degraded", "emergency", "fault"}

\* A step with one of the given residuals, whatever the controller answers and
\* the projection finds.
StepWith(residuals) ==
    \E health \in Healths, residual \in residuals, astray \in BOOLEAN :
    \E base \in IF health = "ok" THEN BaselineSpeeds ELSE {0} :
    \E speed \in SpeedsTowards(Applied(Command(base, residual))) :
       \/ Step(base, health, residual, speed, Seen(hist.pos + speed, Length),
               speed, astray)
       \/ \E raw \in Sightings, moved \in {0, speed} :
             raw <= Length
             /\ Step(base, health, residual, speed, raw, moved, astray)

-----------------------------------------------------------------------------

\* Type invariant.
EnvTypeOK ==
    /\ track \in 1..Len(Tracks)
    /\ shaped \in BOOLEAN /\ delay \in Delays /\ lagged \in BOOLEAN
    /\ step_count \in Nat /\ prev_cmd \in Int /\ v \in Int
    /\ delay_buf \in Seq(Int) /\ Len(delay_buf) = Lesser(step_count, delay + 1)
    /\ gate \in Gates
    /\ arc_hist \in Seq(Nat) /\ Len(arc_hist) = step_count
    /\ reason \in Reasons

\* The command k steps before the last.
Issued(k) == hist.issued[Len(hist.issued) - k]

\* What the repository says of control_delay_steps, "integer delay of cmd
\* application" (randomization.py:20) and "control delay 2 steps (0.1 s)"
\* (attribution_study.py:8): as soon as so many steps have been made, the plant
\* is given the command issued delay steps ago.  The queue, which gives nothing
\* up before it holds delay + 2 commands, breaks it.
DelayAsConfigured == step_count > delay => hist.wheels = Issued(delay)

\* How late the queue really is, in the steps in which it gives a command up:
\* one step more than configured.  The first of these steps go back to commands
\* that the plant was given already while the queue was filling.
OneStepLate == step_count > delay + 1 => hist.wheels = Issued(delay + 1)
=============================================================================
