# Verification of linear_mpc_controller

TLA+ models of the linear MPC path tracker, of the ROS 2 nodes and the Nav2
plugin around it, of the tools that make and judge its references, of the
episode runners that measure it and of the scripts that accept it; checked with
TLC and, in large part, proved with TLAPS.  Sources are named relative to
`src/`.

## 1. The system

A differential-drive robot follows a reference path.  Once per control period
(50 ms) the controller projects the pose onto the path, decides whether that
projection may be believed, solves a condensed QP for the next acceleration and
publishes a velocity.  The algorithm exists twice, in Python (the reference for
tests, benchmarks and the learning environment) and in C++ (linked by the ROS 2
node and the Nav2 plugin).

| component | state it keeps | operations | interacts with | what makes it correct |
|---|---|---|---|---|
| projection gate (`mpc_core/progress_gate.py`, `projection_gate.hpp`) | accepted arc, banked budget, last pose | `step`, `reset`, `rebaseline` | the core, the audit of an episode, the learning environment | never accepts progress that motion does not account for; does not reject honest motion |
| reacquire protocol (in `mpc_core/mpc.py`, `reacquire.hpp`) | mode, beats of seeking, run of stable beats, probation left | enter, seek, tick, reset | the core | an episode ends; commits only on consecutive beats of one segment; a lost projection stays lost |
| fallback ladder (`mpc_core/fallback.py`, `fallback_policy.*`) | engaged, failed cycles, speed | `apply`, `reset` | last stage of the core | bounded hold, speed falls monotonically, nothing survives a stop |
| controller core (`mpc_core/mpc.py`, `src/mpc/linear_mpc.cpp`) | reference, gate, anchor flag, reject run, reacquire state, ladder, warm start | set a reference, one control cycle | owns the three above, calls projection and QP | its parts agree on every path through the cycle |
| projection (`mpc_core/frenet.py`, `projection_search.hpp`) | none | closest point in a window, or stateless | the core, the audits | the foot of the pose, or a refusal; never an arbitrary lane |
| QP (`mpc_core/qp.py`, `qp_problem.*`, `osqp_solver.*`) | warm start | condense, solve | the core | the condensed problem is the rolled-out one |
| Nav2 plugin (`ros2/nav2_mpc_controller.*`) with `QpFailMonitor`, `shapeReacquireCommand` | plan, controller, failure run, ambiguous run, speed limit | `setPlan`, `setSpeedLimit`, `cleanup`, `computeVelocityCommands` | called by the Nav2 controller server, owns a core per plan | a command respects every limit; a plan is given up only for the stated reasons |
| `linear_mpc_node` with `odomIsStale` | last odometry and stamps, last reference and its receipt | two subscriptions, a 50 ms timer | topics | no motion on stale input; motion resumes when input does |
| `trajectory_server` | the path | publishes it at 2 Hz | topic | what it serves can be followed |
| `velocity_arbiter` | last message of three sources | subscriptions, a 20 ms timer | topics | highest fresh priority wins, none fresh means zero |
| reference tools (`trajectory_tools/`, `trajectory_adapter.cpp`, scenario scripts) | none | resample, complete, shape, certify, adapt | before the controller | a certified reference can be driven |
| episode runner (`mpc_core/episode.py`, `run_a8_matrix.py`) | a second gate as ledger, books, stall mark | one loop | core and plant | each jump booked once; completion only on an accepted arc |
| learning environment (`mpc_rl_env/`) | core, plant, ledger, delay queue | `reset`, `step`, and the drivers of episodes | as the episode runner | pays for motion only and for all of it; commands are as late as configured |
| acceptance scripts (`scripts/nav2_plugin_smoke.py`, `nc_*`) | goal handle, probes; backup, marker | service calls; patch and revert | the controller server | a pass means the robot arrived; a patch can be undone |
| measurement, figures, fits, launch files, worlds | | | | not modelled |

How they interact.  Setting a reference and running a cycle are plain calls and
their callers serialise them: `linear_mpc_node` runs in a single-threaded
executor and the Nav2 controller server calls its plugin from one control loop.
What is concurrent is outside the core: odometry, paths and commands are
messages, services answer late, and every consumer judges ages by a clock.

What is hard in this code:

* the place on the path is kept by four objects (gate, reject run, reacquire
  state, warm start), each reset at different places of one long function with
  many early returns;
* counters advance in some cycles and not in others, as a cycle may leave at
  any of those returns;
* the gate accounts motion across cycles: an allowance is banked in one and
  spent in a later one; two more gates (audit, reward) do so with poses of
  other instants;
* the result of a cycle is read by a caller with counters of its own, which
  must tell a cycle that ran no QP from one whose QP failed;
* a reference is judged by a guard that estimates from neighbouring samples
  what the passes before it estimated from others;
* stamps, receipts, republished paths and a clock that may be set back.

`PROJECT.json` lists each hazard at its line, with the properties about it.

## 2. The modules

```
 ProjectionGate   Reacquire   FallbackPolicy --- FallbackLadder --- SolvePhase
   |      \          |            /                    \
   |       `----- MpcCore -------'  ==refines==>  ReacquireProtocol
   |              /  |   \
   |   StraightRun   |    Episode
   |           Nav2Controller
   |
   `- FastTrackingEnv --- PolicyRuns

 Projection --- Reference --- ReferenceTracking
 LinearMpcNode       VelocityArbiter       PluginSmoke --- NegativeControl
```

The theorems stand in modules of their own: MpcCoreProofs, SolvePhaseProofs
(with FallbackLadder), CoreCallersProofs (StraightRun and Nav2Controller), EpisodeProofs,
PolicyRunsProofs (with FastTrackingEnv), RosNodesProofs (both nodes),
NegativeControlProofs (with PluginSmoke) and ReferenceProofs (Reference,
ReferenceTracking, Projection).  Each run has an `MC...` module with the sets
its constants stand for.

* **ProjectionGate**: the gate as operators.  Lengths are integers in one unit;
  the pose is abstracted to the signed displacement along the tangent at the
  accepted arc, which is all that `step` computes from it.
* **Reacquire**: the protocol as operators.  `seeking_steps` saturates one above
  the timeout, beyond which nothing reads it.
* **FallbackPolicy**, **FallbackLadder**: the ladder as operators, and as an
  object any caller may use.  Of the turn rate only what the ladder tells apart
  is kept: finite or not, within the actuator bounds or not.
* **MpcCore**: the controller, for `Port = "python"` or `"cpp"`.  One action per
  path through a cycle (`NoReferenceCycle`, `LostCycle`, `SeekingCycle`,
  `CommitCycle`, `AmbiguousCycle`, `AnchorCycle`, `TrackCycle`) and
  `SetReference`.  The projection (an arc, a segment that holds it, or a
  refusal), the displacement and the solver's answer are chosen freely.  The
  history variable `hist` is no part of the code.
* **ReacquireProtocol**: what the core promises, in five phases and one arc;
  `MpcCore!Protocol` is the refinement mapping.
* **StraightRun**: the C++ core with a robot that really drives and a projection
  that is always right; what the gate rejects here is honest motion.
* **Nav2Controller**: the plugin around the C++ core, one action per call of the
  controller server; `Compute` composes a cycle with the plugin's reading of it.
* **SolvePhase**: the second half of a Python cycle: preview of the reference,
  the condensed matrices F, G, P, q and the rows of C, the solver's answer, the
  command and the ladder, in closed loop.
* **Episode**: one iteration of `run_tracking_episode` is one step: core, plant,
  audit projection, books (progress, skipped, jump episodes), and the conditions
  that end it.  The A8 matrix adds two cells: a controller without a gate
  (`GlobalCycle`), judged by the ledger or by the raw ruler.
* **FastTrackingEnv**: `reset` and `step` of the residual environment: fusing,
  safety projection, delay queue, lag, ledger, pay, termination.  **PolicyRuns**:
  those who run episodes in it: training, curriculum, evaluation, two studies.
* **Projection**: `closest_point` as an operator on grid paths: heading gate,
  window, runs of near-equal candidates (`Tied`, `RunStarts`, `Reps`), the
  choice among them (`Pick`), and the stages up to the refusal.
* **Reference**: how references are made (ten recipes: pipelines, recorded
  files, a planner's own, generated geometries, scenarios, what the trajectory
  server and the Nav2 adapter make of them) and judged by the guard.
* **ReferenceTracking**: poses projected onto such references, from a stateless
  seed and then along the path.
* **LinearMpcNode**, **VelocityArbiter**: the two nodes, one action per
  callback, lifecycle transition, and time.
* **PluginSmoke**: the acceptance script, its server (external) and the sandbox
  robot.  **NegativeControl**: the runs with the terminal stop patched away.

### State and code

| model | code |
|---|---|
| `gate` | `accepted_arc`, `budget`, last pose known or not |
| `gate_initialized`, `reject_run`, `have_warm`, `has_reference` | members of the same name; a reference is set |
| `reacq` | the reacquire state, field by field |
| `fallback` | engaged, failed cycles, last speed |
| `res` | the fields of the cycle's result that a caller or a property reads |
| `plan` (SolvePhase) | the last QP: arc of the preview, `x0`, solution, status |
| `has_plan`, `controller`, `qp_fail_run`, `ambiguous_run`, `speed_limit` | members of the plugin |
| `cell`, `ledger`, `progress`, `skipped`, `jumps`, `in_jump`, `watermark`, `stall_mark` | audit mode and locals of `run_tracking_episode` |
| `delay_buf`, `arc_hist`, `prev_cmd`, `step_count` | members of the environment |
| `odom`, `path`, `timer` | odometry and path with the ages of their stamps and receipts; the timer exists |
| `last`, `have`, `output` | last message and `have` of each source; the last message on `/cmd_vel` |
| `source`, `backup`, `marker`, `binary` | files the negative control writes; what was built |
| `hist`, `truth`, `tally`, `silence`, `missed` | history, no part of the code |

Time.  The nodes read a clock and compare stamps with it.  The models keep each
stamp as its *age*: time passes by making everything older (`Elapse`), and a
clock that is set back (`use_sim_time` and a restarted simulation) makes
everything younger by `MaxJump` (`ClockSetBack`, once), with messages stamped
before still on their way for `MaxDelay`.  In the arbiter these are
`ArbiterElapse`, `ArbiterClockSetBack`, `MaxSetBack` and `MaxTransport`.

Lifecycle.  `on_activate` is overridden without a call of the base class, and
`cmd_pub_` is declared as a plain `rclcpp::Publisher`, whose `publish` is not
virtual in Jazzy: the node publishes in every lifecycle state, and its `Cycle`
has no guard on it.

## 3. What the runs check

| run | question | result |
|---|---|---|
| `core` | Do the parts of the Python core stay consistent under every interleaving of new paths, refused, jumping and honest projections and failing QPs; does it implement the protocol; does every SEEKING episode and probation window end? | pass |
| `straight` | Is the accepted arc neither ahead of an honest robot nor farther behind than unseen motion explains; when is its motion rejected, and how is that worked off (C++)? | pass |
| `straight_honest` | Is honest motion always believed (C++)? | violated |
| `solve` | Does the condensed QP mean what the model does step by step; is the ladder sound behind it and for any other caller? | pass |
| `nav2` | Does every command respect every limit; is a plan given up only for the stated reasons and in its time; does SEEKING end? | pass |
| `nodes` | How old may the state and the path behind a moving command be, is a stale verdict lifted once the driver reports again; is a source heard recently never passed over, a silent one never forwarded, and the robot stopped when all are silent? | pass |
| `episode` | Do the books balance; is progress earned; do the two gates agree; what ends an episode? | pass |
| `env` | Is the agent paid for motion and for all of it? | pass |
| `env_delay` | Is a command as late as the configured delay says? | violated |
| `reference` | Is a good path certified and a certified one drivable; are the shaping passes the greatest profile; is a follower always found; is every answer of the projection justified? | pass |
| `projection_ties` | Is a tie between two lanes always refused? | violated |
| `smoke` | Does a pass of the acceptance script mean the robot arrived; does it stop before the end; can a patch always be undone? | pass |

The properties that carry most:

* `AdvanceWithinMotion` (core), `ProgressWithinMotion` (episode),
  `EarnedByMotion` (environment): the same promise of the gate for its three
  users.  An allowance spent twice shows only some cycles later.
* `BooksBalance`: progress + skipped = the ledger's way from its seed, however
  jumps open, resolve, stay unresolved or return.
* `TruthNeverRejected`: two gates that see the pose before and after the plant
  step both follow a robot whose projections are right; `HonestMotionIsPaid` says
  the same of the reward's.
* `SeekingIffRunExceeded`, `CommitOnlyOnStableEvidence`, `ProtocolSafety`: a
  change of mode is justified by the recorded verdicts and candidates, and the
  core refines the abstract protocol.
* `CappedCyclesAreSlow`: through the ladder and the clamp, which come after the cap.
* `LagIsUnseenMotion`: what an honest robot may be rejected for at all, up to the
  very limit of margin and bank.
* `PlanIsItsRollout`: rows and objective of the condensed QP against the model
  rolled forward, also for a failed plan.  System and input matrix both depend on
  the reference of their step, so a block that takes those of another shows.
* `CommandRespectsEveryLimit`, `AbortNeedsNormalFailures`, `SeekingHasItsTime`:
  a SEEKING result reads `kFailed` by default; it never shortens a plan's life.
* `NoMotionOnOldState`: states the age of the *measurement* behind a command,
  which the node never sees, also after the clock was set back (`Slack`).
* `GoodPathsAreCertified` and `CertifiedIsDrivable` pull in opposite directions:
  completion must not break a good path, and the guard must not pass a bad one.
* `ShapedIsGreatest`: the two passes give the pointwise greatest profile under
  the limits, defined without the passes.
* `PassMeansArrived`, `PatchCanBeUndone`: under late answers, crashes and edits.

### Findings

1. **Honest motion after an anchor is rejected** (`straight_honest`).  The C++
   anchor cycle forgets the last pose, so a robot that moves more than the margin
   in the next period is rejected; the budget then grows as fast as the distance,
   so the deficit is never worked off (`RejectionNeedsReanchor`) and ends in
   SEEKING.  Every republished path starts this again.  `mpc.py:214` records the
   pose and does not have the defect (`TruthNeverRejected`).
2. **A tie between two lanes is not always refused** (`projection_ties`).
   `frenet.py:170` looks a run's representative up in the whole band from its
   start on, so that two lanes may be represented by the nearer one.
3. **Commands are one step later than configured** (`env_delay`).
   `fast_tracking_env.py:131` keeps a command until the queue, the new one
   included, holds more than `control_delay_steps + 1`, against
   `randomization.py:20`, `attribution_study.py:8` and `sysid_study.py:100`; with
   a delay of 0 every command after the first is a step late.  Until then the
   plant is given each command at once and the command stays queued, so those
   issued while the queue fills are applied a second time.  What holds for every
   delay is `OneStepLate`, of the commands that come out of the queue.

Other places where the code and its documents part, met while modelling and
without a run of their own.  Core and plugin:

* The C++ core does not cap a probation cycle (`src/mpc/linear_mpc.cpp:156` caps
  only while `reject_run_ > 0`; `linear_mpc.hpp:37` and
  `nav2_mpc_controller.cpp:236` say that it does, as `mpc.py:259`).  The plugin
  caps again; `linear_mpc_node` does not.
* An ambiguous projection inside probation counts and can throw the plan away
  (`nav2_mpc_controller.cpp:176`, `:180`), which the comment at `:193` rules
  out; the count is reset by a new plan only.
* The turn rate is taken from the second input block (`mpc.py:249`), against the
  docstrings `mpc.py:15` and `types.py:17`; the C++ core takes the first.  With
  the horizon of 1 that `MpcParams` admits, that block does not exist and the
  cycle ends in an `IndexError`: `SolveAssumption` asks for `N > 1`.
* After a failed QP the Python ladder starts from 0, not from the last command.
* `diag.health` is overwritten after the ladder (`mpc.py:277`).

Nodes:

* A clock that is set back revives a hung odometry driver: nothing notices the
  clock itself going back (`linear_mpc_node.cpp:137`), where
  `docs/ros2_interface_contract.md:53` asks for zero output on frozen stamps.
  `NoMotionOnOldState` has the jump in its bound.
* The path is republished at 2 Hz, every tenth cycle, and each arrival drops a
  SEEKING episode whose timeout is 40 cycles: PROJECTION_LOST is out of reach of
  the standalone chain.
* The age of a path is counted from its receipt; the contract (`:51`) names its
  stamp.  `NoMotionOnOldPath` therefore has the transport delay in its bound.
* Nothing in `linear_mpc_node` reacts to deactivation and its timer is never
  stopped; the contract (`:71`) says `on_deactivate` guarantees zero speed.
* The arbiter judges a source by its stamp alone, so after the clock is set back
  a silent source stays selected until the clock has caught up, against
  `velocity_arbiter.cpp:5`.  `SilenceStops` holds without the proviso.

References:

* The last sample of a generated geometry gets a negative speed
  (`gen_a8_geometries.py:72`), although the docstring at line 78 says the last
  point repeats; the guard lets it pass because one sample is shorter than what
  it counts as reverse driving.
* A recorded closed path is served as it is (`trajectory_server.py:90`), although
  the comment at line 110 explains why closed tracks must be opened.
* The planner's guard accepts a path of no length, and nobody judges what the
  Nav2 adapter makes (`maxOmegaRatio` is only a helper).
* `gen_ref_variants.py:215` lets a parameter run one sample past its end; noticed,
  not modelled.

Episodes and learning:

* The comment at `episode.py:196` says completion is not taken in probation; on
  commit cycles and failed QPs the diagnostics do not report probation.
* The first step of an environment's episode is paid from arc 0
  (`fast_tracking_env.py:147`) and its ledger is opened with whatever a stateless
  projection finds.
* `CurriculumV2Env` never uses its first track for its first episode.  The time
  limit of 600 steps hides the environment's own 1200; a study then reports an
  empty reason (`sysid_study.py:86`).  `attribution_study.py:63` says "same
  ranges as sample_profile" and draws a delay from others.

Scripts:

* `nav2_plugin_smoke.py:194` calls `client.cancel_goal_async`, which an action
  client does not have; line 259 takes the maximum of an empty list when no
  command was seen, and prints no count then, against the docstring (lines 8-9).
* The negative control's backup is made once and never renewed (`nc_patch_b6b.py:3`):
  reverting brings back the first revision that was patched.
  `PatchCanBeUndone` promises no more than that, which is less than the "restore
  the exact original" of the same line.
* A crash between writing the patched source and the marker (`nc_patch_b6b.py:67`,
  `:68`) leaves a patched source that `status` and the runner take for an
  original.  `PatchCanBeUndone` permits it: the backup is there and `revert`
  still finds it.

### Bounds, and why they are enough

* **Lengths** (core, plugin, episode).  Margin 1, caps 2 to 3, step cap 2: a
  step within the margin, one that needs a bank of one cycle and one that fills
  the bank all occur.  On paths of 3 and 4 units jumps in both directions
  exceed what the bank allows; the core's path has two segments, so that an arc
  may lie on one or on the border of two.  The straight runs use a cap of several
  cycles' motion and paths of 8 and 18.
* **Displacements** (core, episode): backwards, and one at or beyond the step cap.
* **Counters.**  Reject run 1 (0 where a caller has counters of its own), two
  stable beats (one in the plugin), timeouts of 2 to 3, probation of 2, one or two held failures:
  each counter has a value strictly between its ends, so an off-by-one on either
  side is a different behaviour.
* **The plugin** has one external limit of 2, below `VMax` 3 and above the
  probation speed 1, and a deceleration with which the stop before the goal
  allows everything from no speed to `VMax`: each limit is the least in some
  cycle.  Its robot does not move by itself; projections that jump are rejected
  all the same.
* **solve.**  Horizon 3, so that the recursion is used twice; a path that goes
  straight, turns, slows and turns the other way, so that every matrix of the
  preview differs from its neighbour; input blocks within the bounds and beyond, in
  every order; tolerance 1.
* **episode.**  At most 5 steps with a stall window of 2, on a path of 4: a
  window passes with and without progress, and an episode completes in 2.  Its
  VIEW leaves out the core's history and last result, which no step and no
  property of the run reads.
* **env.**  Two tracks, 6 and 5 long, delays 0 and 2, a start before the path, one
  sighting near the end of one track and at that of the other, at most 5 steps,
  the time limit being below `max_steps` as in the code; 2 episodes, for what
  survives a reset.
* **reference.**  Straights, corners, lanes one to three samples apart, a closed
  loop, one that crosses itself, a fold, repeated points and nothing, each also
  turned by a quarter; a planner's references with a fast, reverse, standing,
  spinning or non-finite sample; four tracks and two serpentines.  Seed poses
  lie on, beside, beyond and between the lanes; the follower moves up to two
  samples with lateral offset and slant of one.
* **nodes.**  MCRosNodes composes the two nodes, which share no state; which of
  them moves is chosen at the start (`moving`) and the other stands still.  To
  either of them the other's messages are some of those that may arrive at any
  time, and no property speaks of both, so nothing is lost.
* **Ages.**  They stop at `AgeCap` (`ArbiterAgeCap`), one beyond the largest limit plus delay plus
  jump, so no guard tells an age there from a greater one.  Limits of 1 and 2
  ticks, a delay of 1 and a jump of 2 put ages below, at and beyond each limit.
  The clock is set back at most once.
* **smoke.**  A straight of 3 and an arc of 4 with cruise speed 2 and two robot
  steps a cycle, so that one cycle's way exceeds the margin; two starts, one
  crash, one edit.  The thresholds of 50 and 10 messages are 2 and 1 (`MinCommands`,
  `MinFlow`): the control stages count the commands that are not zero, the
  negative stage all that were published.
* **hist** keeps the last `MaxRejectRun + 1` verdicts and `ReacquireStableSteps`
  candidates, exactly what the properties quote.

Deadlock is checked wherever a call is always possible.  `episode`, `env`,
`env_delay`, `reference`, `projection_ties` and `smoke` end: an episode is over, its drivers
have had theirs, the path is driven, the script returns.

### Fairness

`FairSpec` of MpcCore asks for weak fairness of `Cycle` as a whole: the caller
keeps calling, as the wall timer of `linear_mpc_node` and the control loop of the
Nav2 server do.  Nothing is assumed of what a cycle finds: no projection need
ever be good, no QP ever solved.  `ProbationEnds` names its own premise, that the
projection is trusted again and again: a refused projection returns before the
tick of the window.  `Nav2FairSpec` asks the same of `Compute`.  In
VelocityArbiter the timer fires and time passes (`create_wall_timer`, 20 ms).  In
LinearMpcNode time passes and the driver reports what it has just measured
(`FreshOdometry`): a driver that stays silent must *not* make a stale state
fresh, so the property cannot hold without.  `NodesSpec` asks both of the node
that moves.

## 4. What is proved

For every value of the constants that satisfies the named assumptions of the
modules (`GateAssumption`, `ReacquireAssumption`, `FallbackAssumption`,
`MpcCoreAssumption`, and those of the others).  A theorem without a property
states the inductive invariant that those below it rest on.

| module | theorem | property |
|---|---|---|
| MpcCoreProofs | `TypeCorrect`, `GateSound`, `SeekingSound` | `TypeOK`, `AdvanceWithinMotion`, `SeekingIffRunExceeded` |
| | `WarmStartSound`, `CapsSound`, `CommitSound` | `WarmStartFromThisAnchor`, `CappedCyclesAreSlow`, `CommitOnlyOnStableEvidence` |
| | `ProtocolImplemented` | `ProtocolSafety` (refinement) |
| CoreCallersProofs | `LagSound`, `DeficitSound` | `LagIsUnseenMotion`, `RejectionNeedsReanchor` |
| | `Nav2TypeCorrect`, `CommandSound` | `Nav2TypeOK`, `CommandRespectsEveryLimit` |
| | `AbortSound`, `SeekingTimeSound` | `AbortNeedsNormalFailures`, `SeekingHasItsTime` |
| EpisodeProofs | `BooksSound`, `ProgressSound` | `BooksBalance`, `ProgressWithinMotion` |
| | `CompletionSound`, `TruthSound`, `StallSound` | `CompletedAtTheEnd`, `TruthNeverRejected`, `LongRunsMakeProgress` |
| PolicyRunsProofs | `RunTypeCorrect`, `EarnedSound` | `RunTypeOK`, `EarnedByMotion` |
| | `OrderSound`, `HonestSound` | `OneStepLate` (of no run), `HonestMotionIsPaid` |
| SolvePhaseProofs | `LadderBounded`, `LadderDecelerates`, `LadderForgets` | `HoldIsBounded`, `NeverAcceleratesWhileFailing`, `NoReuseAfterStop` (any caller) |
| | `LoopBounded`, `LoopDecelerates`, `LoopForgets` | the same three, in the closed loop |
| | `SolveInvariance`, `CondensedSound` | `PlanIsItsRollout` |
| RosNodesProofs | `NodeInvariance`, `NoOldState`, `NoOldPath` | `NodeInv`, `NoMotionOnOldState`, `NoMotionOnOldPath` |
| | `ArbiterInvariance`, `RecentHeard`, `SilentDropped` | `ArbiterInv`, `RecentMessageIsHeard`, `SilentSourceIsDropped` |
| NegativeControlProofs | `SandboxInvariance` | |
| | `PassSound`, `EndSound`, `PatchSound` | `PassMeansArrived`, `NeverPastTheEnd`, `PatchCanBeUndone` |
| ReferenceProofs | `ReferenceTypeInvariance`, `EntryInvariance`, `PreparedInvariance` | |
| | `ShapedSound`, `DrivableSound` | `ShapedIsGreatest`, `CertifiedIsDrivable` |
| | `GoodPathsSound`, `SearchIsJustified` | `GoodPathsAreCertified`, `AnswersAreJustified` |
| | `FollowerSound` | `FollowerIsFound` (on every way that is clear, `WayIsClear`) |

**The core.**  None of the properties is inductive alone.  `IInv` adds: the
anchor lies on the path (`ArcOnPath`, without which the saturation of `reach`
could cut it below the arc); a PROBATION window has time left (`ProbationOpen`,
else the tick would count below zero); outside SEEKING the reject run is within
its limit (`RunIsShort`); and a controller without an anchor is in no episode
(`EngagedWhenAnchored`).  Each part has one lemma per action that can disturb it.
`CapsSound` rests on a second invariant: the core hands the ladder the zero
command on every failure, so it can never answer with more than the cap.
`ProtocolImplemented` maps each action to a step of the protocol or a stutter.
`CommitSound` is about a history of several cycles and needs an invariant that
ties a counter of the code to it: in SEEKING the run the protocol counts is the
tail of the recorded evidence of this very episode (`RunIsEvidence`), so a run
that reaches `ReacquireStableSteps` fills the record with one segment.

**The QP.**  `CondensedSound` follows the construction of the matrices.  A state
of the rollout is what the start alone would become (`Free`, the rows of `F`) and
what the plan adds (`Response`, the rows of `G`): `RolloutSplits`, step by step
along the horizon, where the columns of `G` for inputs yet to come are zero
(`GBeyond`).  The rows of the QP are the bounds on speed and turn rate of these
states (`RowsMeanBounds`).  The objective is reached by exchanging sums: the
Hessian and the gradient add up columns over the steps, the cost adds up steps
over the columns (`Contract`), and the square of a sum leaves, besides what the
QP minimises, the cost of the idle plan (`ObjectiveIsCost`).  The sums are
recursive functions; that they are linear and may be exchanged is proved by
induction over their length (`TotalLinear`, `TotalExchange`).  Of the program,
`SolveInv` says that the QP starts from an arc on the path and a state of
integers and that a plan is one input block a step; `SolveAssumption` types the
parameters.  The ladder's invariant is `LadderInv`: its count of degraded cycles
is the number of failures in a row, and the speed it remembers is the one it
answered with.

**The plugin.**  `Nav2Inv` is `IInv` and `SlowInv` of the core, lifted over
`Compute` and `SetPlan` (a plan's core starts anew), with the counts that tie the
plugin's counters to the failures and beats it has really seen (`RunsCounted`,
`SeekingCounted`).  `CommandSound` adds that a greatest speed to
stop from exists (`GreatestUpTo`, from the well-foundedness of the naturals) and
that what can stop at one speed can at any lower one (`StopSpeeds`).

**The straight run.**  `RunInv` adds `DeficitStands` to the core's invariant:
during a run of rejections the way from the anchor to the pose the gate recorded
last stays beyond the margin and everything in the bank, because bank and way
grow alike; this is why the deficit is never worked off.  `AnchorTrails` is the part of
`LagIsUnseenMotion` about cycles that reject nothing.

**The episode.**  One invariant for the books and one for the truth: while
nothing wrong was seen, each gate's arc is at the pose it saw last, so the next
displacement is exactly what its bank allows.  `StallSound` is about the last
look back of the window (`stall_checked_at`, `stall_mark`).

**The environment.**  `QueueOfIssued`: the delay queue and the record of issued
commands end alike, a relation kept by appending to both and by dropping the
first of either; that a command comes out of the queue one step later than
configured (`OneStepLate`) follows from it and the length of the queue.  `PaidUpToLedger`: what was paid is within the ledger's arc,
which with the bank is within the motion.  `HonestInv`, for the converse: while
every projection was right, the accepted arc is at the farthest the robot got,
and no command on its way to the plant is faster than one decision of the ledger
allows without its bank (`Paced`).  The latter rests on `PaceAssumption`, which
the code meets with 5 mm to spare: `stepCap` is `v_max * Ts` and 15 mm of
odometry noise, and the residual adds at most 10 mm to `v_max * Ts`.

**The nodes.**  What a node reads (an age off a stamp or a receipt) must bound
what the property is about (the true age, kept as history), up to the jump once the clock was set
back (`Slack`).  `AgesAreHonest`, and
`RecentIsHeld` with `StampsAreTrue`, say so; they are inductive because time makes
both sides older alike and the cap lies beyond every limit (`CapBeyondLimits`).

**The scripts.**  `SandboxInv` has three parts that do not meet.  `RobotInv`:
where the robot can be before its next command (`Reach`) is on the path, if the
build has the terminal stop; `MarginAssumption` says that a robot slow enough to
stop within a distance does not drive past it and the stop margin in one period,
as configured 25 mm (0.5 m/s, 20 Hz) against 200 mm (`terminal_stop_margin` in
`config/controller_server.yaml`).  `VerdictInv`: a goal that succeeded found the
robot stopped at the end under an active server, which nothing later undoes.
`PatchInv`: of source and backup one was never patched, and between the backup
and the write it is the backup.

**References.**  `RefTypeInv` says that the arrays of a reference have the length
of its points, whatever the recipe made of it so far; the passes are recursive
functions, and what each does from one sample to the next is proved first
(`RampedSteps`, `BrakedSteps`, `ArcSteps`, `ReverseSteps`).  `ShapedSound` says
of the two passes that no sample is met too fast (`BuiltUp`, `WithinCaps`) and
that each attains the cap of some sample (`AllBuilt`, `AtCaps`), by induction
along the path in one direction and then in the other; `EntryInv` carries the
result to the judged reference.  `PreparedInv` has three parts: the arcs belong
to the points, and neighbours differ once resampled (`MadeInv`); completion
leaves no turn too fast and drives no sample backwards but the last of a planned
path (`TurnsInv`); what was certified passes the guard's tests (`VerdictInv`).
That two samples in a row never coincide, however the path folds back, is
`ResampledStepwise`: on the mesh a sample has the colour of its arc as on a
chessboard, so that neighbours differ, and no two points lie further apart than
the way between them.  `PathsAssumption` and `MeshAssumption` say what is
offered: no path is empty, arrays have equal lengths, legs run along the axes
over a number of samples.

**The search.**  `SearchIsJustified` follows `closest_point` from the inside out:
the list in order of arcs has every candidate once (`Ranked`, by counting: the
rank is an injection of a finite set into an interval of its size); the nearest
with its tie band is the band of those within the tie of all others; and where
two representatives lead different ways, the gap at which the second run starts
divides the band (`RunsDivide`).  A refusal without an arc to start from thus has
the tie it needs, and an answer comes out of the set the heading gate left.

**The follower.**  `FollowerSound` says that along a clear way every cycle finds
the robot where it is.  It cannot hold on every path: a lane laid over another in
the same direction cannot be told from it.  `WayIsClear` asks no more than that
nothing is mistaken for the way: of the segments in the window that the heading
gate lets pass, no earlier one touches the robot's point of the path or the
neighbouring sample at its side, no later one leads from the one to the other,
and the window reaches the next place (`ClearAhead`); a served track does not
come back to its start (`ClearOfStart`); a reference that somebody else made has
the arcs and headings of its points (`Regular`).  Lanes may run beside each
other a sample apart, cross, meet and turn back.  It is a condition on the
points alone, and the model checker evaluates it on every path it offers
(`OfferedWaysAreClear`), so none of the run's ways is left out by the premise.
`FollowAssumption` says what a follower is: within half a sample of the path and
within reach, with a tie band of at least a sample (the code's band is 50 mm,
`frenet.py:56`, its samples 20 to 50 mm).

The proof has a geometric and a temporal half.  All legs lie along the mesh, so
a leg that is as near to the robot as the path touches its point of the path or
a neighbouring sample at its side, and one that is nearer leads from the one to
the other (`RivalNearby`): the path is the nearest, and of equals the first.
What ties with it within the band is at the same place (`SamePlace`), and `Pick`
takes the path (`PickNearest`, `PathPicked`).  The segment behind the robot
answers with the arc of its point and with the robot's offset (`StraightFeet`).
In the first cycle no arc is known and the whole path is the window
(`FoundFirst`); in all others the arc is the one found before, which is the true
one, so that the window around it contains the way (`FoundNext`).  That is
`FollowInv`.  It needs that arcs and points of what was handed over belong
together and lie on the mesh (`MadeInv`, whose part `Meshed` goes through the
resampling by `OneStep`), and that the headings are those of the points
(`HeadedInv`).

**Checked by TLC only.** Liveness (`ProtocolLiveness`, `ProbationEnds`,
`SeekingIsResolved`, `StaleStateRecovers`, `SilenceStops`), which is out of the
prover's reach, and the three properties that the code violates.  All other
invariants and action properties of the runs are theorems.

## 5. Not modelled, and why

* The iterations of the ADMM and OSQP solvers, their warm start and the
  optimality of a plan; the discretisation beyond the terms in which the reference
  of a step first shows, and the integration of the pose: real-valued numerics.  The core sees a status and a command, both free.
* The turn rate outside SolvePhase: clamped alike everywhere, and it decides
  nothing else.
* `activate`, `deactivate` and parameter loading: logging and constants.
* References off the grid: half-circle caps, the lattice and hybrid variants of
  `gen_ref_variants.py`, plans of uneven spacing; the pure-pursuit controller of
  the comparison.
* Observations, the terms of the reward other than progress, and what a policy
  learns: a policy may do anything in the model.
* A file torn by a crash in the middle of a write; the lateral checks and the
  offline start of the acceptance script.
* Benchmark tables, figures, golden files, system identification, launch files:
  straight-line programs that read, compute and print.

What would come next: the composition of node and arbiter with one clock (the
age of the measurement behind an executed command, end to end); and grid paths
with diagonal legs, for which `ClearAhead` would have to be asked anew.
