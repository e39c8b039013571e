------------------------------- MODULE PolicyRuns -------------------------------
(***************************************************************************)
(* Those who run episodes in the learning environment:                     *)
(*                                                                         *)
(*   "train"       train_ppo_residual on one track                         *)
(*   "curriculum"  the same, the tracks in turn (CurriculumV2Env)          *)
(*   "evaluate"    evaluate_policy: three controllers, each on every track *)
(*   "attribute"   attribution_study: one disturbance at a time            *)
(*   "lookahead"   sysid_study: a known delay and a lookahead against it   *)
(*                                                                         *)
(* What a policy learns from an episode is left out: it may do anything.   *)
(***************************************************************************)
EXTENDS FastTrackingEnv

CONSTANTS
    Budget,       \* max_episode_steps of the time limit and of a rollout
    StudyDelay,   \* delay of the studies, in steps
    MaxEpisodes   \* bound on the episodes explored

ASSUME RunsAssumption ==
    /\ Budget \in Nat /\ MaxEpisodes \in Nat \ {0}
    /\ 0 \in Delays /\ StudyDelay \in Delays

VARIABLES
    driver,
    ep,       \* episodes begun; _ep of the curriculum
    acting    \* whether the residual of the policy counts

runVars == <<envVars, driver, ep, acting>>

Drivers == {"train", "curriculum", "evaluate", "attribute", "lookahead"}

TrackOf(n) == (n % Len(Tracks)) + 1

RunInit ==
    /\ EnvInit
    /\ driver \in Drivers
    /\ ep = 0 /\ acting = FALSE

\* sample_profile: of the profile the delay and the lag matter here.
Sampled == delay' \in Delays /\ lagged' \in BOOLEAN

\* build_env and the reset of the adapter around it: the track stays.
Train ==
    /\ driver = "train"
    /\ track' = track /\ shaped' = TRUE /\ acting' = TRUE
    /\ Sampled

\* Each episode of the curriculum goes on to the next track.
Curriculum ==
    /\ driver = "curriculum"
    /\ track' = TrackOf(ep + 1) /\ shaped' = TRUE /\ acting' = TRUE
    /\ Sampled

\* build_env of the evaluation and of the studies: a new environment on any
\* track.
Built(shapings) == track' \in 1..Len(Tracks) /\ shaped' \in shapings

\* The controllers of the evaluation: without the policy, with it, and with it
\* but without the projection.
Evaluate ==
    /\ driver = "evaluate"
    /\ Built(BOOLEAN)
    /\ acting' \in BOOLEAN /\ (acting' \/ shaped')
    /\ Sampled

\* make_profile: nothing at all, a lag, a delay, or all at once; the conditions
\* on the first pose and its measurement are among the starts and sightings.
Attribute ==
    /\ driver = "attribute"
    /\ Built({TRUE}) /\ acting' = FALSE
    /\ \/ delay' = 0 /\ lagged' \in BOOLEAN
       \/ delay' = StudyDelay /\ lagged' = FALSE
       \/ Sampled

Lookahead ==
    /\ driver = "lookahead"
    /\ Built({TRUE}) /\ acting' = FALSE
    /\ delay' = StudyDelay /\ lagged' = FALSE

\* The time limit around the environment, or the count of the rollout.
OutOfTime == step_count >= Budget

\* An episode lasts until the environment ends it or the time is up.
Over == ep = 0 \/ reason # NoReason \/ OutOfTime

\* The trainer goes on with the environment it has; the others build one for
\* each rollout, and one rollout stands for all.
Begin ==
    /\ Over
    /\ ep < (IF driver \in {"train", "curriculum"} THEN MaxEpisodes ELSE 1)
    /\ ep' = ep + 1
    /\ \/ Train
       \/ Curriculum
       \/ Evaluate
       \/ Attribute
       \/ Lookahead
    /\ ResetOn(track')
    /\ UNCHANGED driver

Act ==
    /\ ~Over
    /\ StepWith(IF acting THEN Residuals ELSE {0})
    /\ UNCHANGED <<driver, ep, acting>>

\* What a rollout reports.
Completed == reason = "completed"

RunNext == Begin \/ Act

RunSpec == RunInit /\ [][RunNext]_runVars

-----------------------------------------------------------------------------

\* Type invariant.
RunTypeOK ==
    /\ EnvTypeOK
    /\ driver \in Drivers /\ ep \in 0..MaxEpisodes /\ acting \in BOOLEAN

\* Whatever projections were seen, an episode is paid for no more progress than
\* its first projection and the motion since can account for, and completed only
\* with an arc they account for: a projection that jumps ahead, or back and
\* forth, earns nothing and ends nothing.
EarnedByMotion ==
    /\ hist.paid <= hist.motion
    /\ Completed => hist.motion >= Length - CompleteMargin

\* While every projection is right, the ledger is exactly where the robot has
\* been: the reward of an honest robot is never withheld.
HonestMotionIsPaid ==
    hist.honest /\ ep > 0 => gate.accepted_arc = Seen(hist.far, Length)
=============================================================================
