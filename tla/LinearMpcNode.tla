---------------------------- MODULE LinearMpcNode ----------------------------
(***************************************************************************)
(* linear_mpc_node: the lifecycle node around the controller core in the   *)
(* standalone mode.  Two subscriptions (odometry, reference path) and a    *)
(* timer run one after another in its executor; the timer decides from     *)
(* the ages of what it holds whether the core may be asked at all.         *)
(*                                                                         *)
(* A time stamp is kept as its age on the node's clock, up to AgeCap       *)
(* beyond which nothing tells ages apart.  The clock may once be set back  *)
(* by MaxJump (the simulation is restarted); messages sent before that     *)
(* arrive up to MaxDelay later, with stamps from the future.               *)
(*                                                                         *)
(* The core is what it promises a caller: without a reference it says so,  *)
(* and otherwise it answers with a speed or an emergency stop.             *)
(***************************************************************************)
EXTENDS Integers

CONSTANTS
    OdomMaxAge,  \* odom_max_age_s
    TrajMaxAge,  \* traj_max_age_s
    ClockTol,    \* kOdomClockTolS
    MaxDelay,    \* bound: how long a message is on its way
    MaxJump,     \* bound: how far the clock is set back
    CoreSpeeds   \* speeds the core may answer with

ASSUME NodeAssumption ==
    /\ OdomMaxAge \in Nat /\ TrajMaxAge \in Nat /\ ClockTol \in Nat
    /\ MaxDelay \in Nat /\ MaxJump \in Nat
    /\ CoreSpeeds \subseteq Int

VARIABLES
    lifecycle,   \* state of the lifecycle node
    timer,       \* timer_ and the subscriptions exist
    core_ready,  \* mpc_ has been given a reference
    odom,        \* the last odometry: have, valid, backwards, stamp, recv
    path,        \* the last path: have, recv
    candidate,   \* what was published last on cmd_vel_mpc
    since_jump,  \* time since the clock was set back, NoJump before
    truth        \* history: age of the measurement in odom, and of the path

nodeVars ==
    <<lifecycle, timer, core_ready, odom, path, candidate, since_jump, truth>>

NoJump == -1

Later(a, b) == IF a >= b THEN a ELSE b

AgeCap == Later(OdomMaxAge, TrajMaxAge) + MaxDelay + MaxJump + 1

Older(age) == IF age < AgeCap THEN age + 1 ELSE AgeCap

Init ==
    /\ lifecycle = "unconfigured"
    /\ timer = FALSE
    /\ core_ready = FALSE
    /\ odom = [have |-> FALSE, valid |-> FALSE, backwards |-> FALSE,
               stamp |-> AgeCap, recv |-> AgeCap]
    /\ path = [have |-> FALSE, recv |-> AgeCap]
    /\ candidate = [v |-> 0, health |-> "OK"]
    /\ since_jump = NoJump
    /\ truth = [state |-> AgeCap, path |-> AgeCap]

(***************************************************************************)
(* Lifecycle.  on_configure makes a new core; what was received before is  *)
(* kept.  Neither on_deactivate nor on_cleanup is overridden, and the      *)
(* timer publishes through the base class, whatever the state.             *)
(***************************************************************************)

Configure ==
    /\ lifecycle = "unconfigured"
    /\ lifecycle' = "inactive"
    /\ timer' = TRUE
    /\ core_ready' = FALSE
    /\ UNCHANGED <<odom, path, candidate, since_jump, truth>>

Transition(from, to) ==
    /\ lifecycle = from
    /\ lifecycle' = to
    /\ UNCHANGED <<timer, core_ready, odom, path, candidate, since_jump, truth>>

Lifecycle ==
    \/ Configure
    \/ Transition("inactive", "active")
    \/ Transition("active", "inactive")
    \/ Transition("inactive", "unconfigured")

(***************************************************************************)
(* Subscriptions.                                                          *)
(***************************************************************************)

\* Mutant of Backwards: once seen, a backward stamp is held against every
\* later message.
BackwardsLatched(valid, stamp) ==
    \/ odom.backwards
    \/ odom.have /\ odom.valid /\ valid /\ stamp > odom.stamp

\* Did the stamp go back?  A message without stamp leaves the verdict alone.
Backwards(valid, stamp) ==
    IF ~valid THEN odom.backwards
    ELSE odom.have /\ odom.valid /\ stamp > odom.stamp

Noted(valid, stamp) ==
    [have |-> TRUE, valid |-> valid, backwards |-> Backwards(valid, stamp),
     stamp |-> stamp, recv |-> 0]

\* An odometry message measured `measured' ago.  A driver that hangs repeats
\* an old measurement with its old stamp.
Odometry(measured, valid, stamp) ==
    /\ timer
    /\ odom' = Noted(valid, IF valid THEN stamp ELSE AgeCap)
    /\ truth' = [truth EXCEPT !.state = measured]
    /\ UNCHANGED <<lifecycle, timer, core_ready, path, candidate, since_jump>>

\* A path published `made' ago: its age is counted from now on, and one too
\* short to adapt leaves the core with the reference it has.
ReceivePath(made, usable) ==
    /\ timer
    /\ path' = [have |-> usable, recv |-> 0]
    /\ core_ready' = (core_ready \/ usable)
    /\ truth' = [truth EXCEPT !.path = made]
    /\ UNCHANGED <<lifecycle, timer, odom, candidate, since_jump>>

(***************************************************************************)
(* The timer.                                                              *)
(***************************************************************************)

\* Mutant of OdomIsStale: a stamp is not looked at while messages arrive.
OdomIsStaleByReceipt(o) == o.backwards \/ o.recv > OdomMaxAge

OdomIsStale(o) ==
    \/ o.backwards
    \/ ~o.valid /\ o.recv > OdomMaxAge
    \/ o.valid /\ (o.stamp > OdomMaxAge \/ o.stamp < -ClockTol)

\* Mutant of PathIsStale: off by one.
PathIsStaleLate(p) == p.recv > TrajMaxAge + 1

PathIsStale(p) == p.recv > TrajMaxAge

Publish(v, health) == candidate' = [v |-> v, health |-> health]

\* The core's answer is published unless its health is critical.
AskCore ==
    \/ ~core_ready /\ Publish(0, "NO_REFERENCE")
    \/ core_ready /\ Publish(0, "EMERGENCY_STOP")
    \/ core_ready /\ \E v \in CoreSpeeds : Publish(v, "OK")

\* cycle(): before the first odometry there is no output at all.
Cycle ==
    /\ timer /\ odom.have
    /\ \/ ~path.have /\ Publish(0, "NO_REFERENCE")
       \/ path.have /\ OdomIsStale(odom) /\ Publish(0, "STATE_STALE")
       \/ path.have /\ ~OdomIsStale(odom) /\ PathIsStale(path)
          /\ Publish(0, "STALE_REFERENCE")
       \/ path.have /\ ~OdomIsStale(odom) /\ ~PathIsStale(path) /\ AskCore
    /\ UNCHANGED <<lifecycle, timer, core_ready, odom, path, since_jump, truth>>

(***************************************************************************)
(* Time.                                                                   *)
(***************************************************************************)

Elapse ==
    /\ odom' = [odom EXCEPT !.stamp = Older(@), !.recv = Older(@)]
    /\ path' = [path EXCEPT !.recv = Older(@)]
    /\ truth' = [state |-> Older(truth.state), path |-> Older(truth.path)]
    /\ since_jump' = IF since_jump \in 0..MaxDelay THEN since_jump + 1
                     ELSE since_jump
    /\ UNCHANGED <<lifecycle, timer, core_ready, candidate>>

ClockSetBack ==
    /\ since_jump = NoJump
    /\ since_jump' = 0
    /\ odom' = [odom EXCEPT !.stamp = @ - MaxJump, !.recv = @ - MaxJump]
    /\ path' = [path EXCEPT !.recv = @ - MaxJump]
    /\ UNCHANGED <<lifecycle, timer, core_ready, candidate, truth>>

\* The driver reports what it has just measured.
FreshOdometry == Odometry(0, TRUE, 0)

Next ==
    \/ Lifecycle \/ Cycle \/ Elapse \/ ClockSetBack
    \/ \E measured \in 0..(OdomMaxAge + MaxDelay + 1) :
          \/ Odometry(measured, TRUE, measured)
          \/ measured <= MaxDelay /\ Odometry(measured, FALSE, AgeCap)
          \/ since_jump \in 0..MaxDelay /\ measured >= since_jump
             /\ Odometry(measured, TRUE, measured - MaxJump)
    \/ \E made \in 0..MaxDelay, usable \in BOOLEAN : ReceivePath(made, usable)

Spec == Init /\ [][Next]_nodeVars

\* Time passes, and the odometry driver keeps reporting.
FairSpec ==
    /\ Spec
    /\ WF_nodeVars(Elapse)
    /\ WF_nodeVars(FreshOdometry)

-----------------------------------------------------------------------------

\* Type invariant.
NodeTypeOK ==
    /\ lifecycle \in {"unconfigured", "inactive", "active"}
    /\ timer \in BOOLEAN /\ core_ready \in BOOLEAN
    /\ odom \in [have : BOOLEAN, valid : BOOLEAN, backwards : BOOLEAN,
                 stamp : Int, recv : Int]
    /\ path \in [have : BOOLEAN, recv : Int]
    /\ candidate \in [v : Int, health : {"OK", "NO_REFERENCE", "STATE_STALE",
                                         "STALE_REFERENCE", "EMERGENCY_STOP"}]
    /\ since_jump \in Int
    /\ truth \in [state : 0..AgeCap, path : 0..AgeCap]

\* How far a clock that was set back may make something look younger.
Slack == IF since_jump = NoJump THEN 0 ELSE MaxJump

\* What the node reads off its two clocks (stamp and receipt) bounds the true
\* age of the state and of the path, whether the driver stamps its messages or
\* not, however they were delayed, and up to the jump of a clock set back.
AgesAreHonest ==
    /\ odom.have /\ odom.valid => truth.state <= odom.stamp + Slack
    /\ odom.have /\ ~odom.valid => truth.state <= odom.recv + MaxDelay + Slack
    /\ path.have => truth.path <= path.recv + MaxDelay + Slack

NodeInv == NodeTypeOK /\ AgesAreHonest

Moves == Cycle /\ candidate'.v # 0

\* The robot is not driven on an old state: what a cycle commands was computed
\* from a measurement within the limit, or within the limit plus the transport
\* delay for a driver that does not stamp, and a clock that was set back hides
\* no more than its jump, however often messages stamped before and after it
\* follow each other.  A hung driver that repeats its message is caught, and so
\* is one that falls silent.
NoMotionOnOldState ==
    [][Moves => truth.state <=
         OdomMaxAge + (IF odom.valid THEN 0 ELSE MaxDelay) + Slack]_nodeVars

\* Nor on an old path, as far as its receipt tells.
NoMotionOnOldPath ==
    [][Moves => truth.path <= TrajMaxAge + MaxDelay + Slack]_nodeVars

\* The verdict is not latched: once the driver reports again the state is
\* fresh again, whatever was late, unstamped, or stamped on the old clock.
StaleStateRecovers == (timer /\ OdomIsStale(odom)) ~> ~OdomIsStale(odom)
=============================================================================
