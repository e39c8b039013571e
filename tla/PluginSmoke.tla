----------------------------- MODULE PluginSmoke -----------------------------
(***************************************************************************)
(* The sandbox acceptance of the Nav2 plugin: nav2_plugin_smoke.py drives  *)
(* the lifecycle of a controller server by service calls, sends it a path  *)
(* and judges from the goal handle and from what its probes saw whether    *)
(* the plugin works; nav2_sandbox_robot.py integrates the commands.  The   *)
(* server (external) may be late with every answer.                        *)
(*                                                                         *)
(* The robot is an arc along the path of the stage; the plugin is the      *)
(* terminal stop it applies, which a patched build lacks.  Lengths are in  *)
(* units of one robot step at speed 1.  The lateral checks are left out,   *)
(* and so is the offline start.                                            *)
(***************************************************************************)
EXTENDS Integers, Sequences

CONSTANTS
    StraightLength, ArcLength,  \* of the two paths
    StopMargin,     \* terminal_stop_margin
    Tolerance,      \* xy_goal_tolerance
    CruiseSpeed,    \* v_max
    Braking,        \* 2 * a_max
    StepsPerCycle,  \* robot steps between two cycles of the server, at most
    Excess,         \* displacement the checks allow beyond the path
    MinCommands,    \* nonzero commands a control stage asks for
    MinFlow,        \* commands the negative control must see more than
    Patience,       \* waits before a deadline
    MaxPos          \* bound on how far a robot that does not stop is followed

ASSUME SmokeAssumption ==
    /\ {StraightLength, ArcLength, StopMargin, Tolerance, CruiseSpeed,
        Braking, StepsPerCycle, Excess, MinCommands, MinFlow, Patience, MaxPos}
          \subseteq Nat
    /\ MinFlow < MinCommands
    /\ StopMargin <= Tolerance
    /\ MaxPos > StraightLength + Excess /\ MaxPos > ArcLength + Excess

\* A robot slow enough to stop within r does not drive further than r and the
\* margin before it gets its next command.  As configured it drives 25 mm in a
\* period of the server, and the margin is 200 mm.
ASSUME MarginAssumption ==
    \A v \in 0..CruiseSpeed, r \in 0..(StraightLength + ArcLength) :
        v * v <= Braking * r => v * StepsPerCycle <= r + StopMargin

VARIABLES
    stage,   \* --stage
    script,  \* where the script is (pc), since when it waits (waited), what it
             \* has found of the bring-up (ok) and its exit code (exit)
    call,    \* the service calls sent and not answered, and the answer to the last
    server,  \* lifecycle state of the controller server
    goal,    \* the goal, and whether a cancel is on its way
    robot,   \* pos, v, and steps since the last cycle
    probes,  \* commands (up to MinCommands of those the stage counts), odom (the
             \* last seen), far (the farthest)
    patched  \* the server runs a build without terminal stop

smokeVars == <<stage, script, call, server, goal, robot, probes, patched>>

Stages == {"1", "2a", "2b", "nc"}

\* The path the stage sends.
Length == IF stage = "2a" THEN StraightLength ELSE ArcLength

\* arc_nc_path asks for a last yaw that a robot on the arc never has.
YawReachable == stage # "nc"

NotRun == -1

NoOdom == -1

Fewer(a, b) == IF a < b THEN a ELSE b

\* The script at pc, about to wait there.
At(pc) == [script EXCEPT !.pc = pc, !.waited = 0]

Found(check, pc) == [At(pc) EXCEPT !.ok = @ /\ check]

\* run_stage: everything of an earlier run is killed, a robot and a server
\* are started, and then the script.
Launched(st, build) ==
    /\ stage' = st
    /\ script' = [pc |-> "configure", waited |-> 0, ok |-> TRUE, exit |-> NotRun]
    /\ call' = [sent |-> <<"configure">>, reply |-> "none"]
    /\ server' = "unconfigured"
    /\ goal' = [state |-> "none", cancel |-> FALSE]
    /\ robot' = [pos |-> 0, v |-> 0, steps |-> 0]
    /\ probes' = [commands |-> 0, odom |-> NoOdom, far |-> 0]
    /\ patched' = build

SmokeInit ==
    /\ stage = "1" /\ patched = FALSE
    /\ script = [pc |-> "idle", waited |-> 0, ok |-> TRUE, exit |-> NotRun]
    /\ call = [sent |-> <<>>, reply |-> "none"]
    /\ server = "unconfigured"
    /\ goal = [state |-> "none", cancel |-> FALSE]
    /\ robot = [pos |-> 0, v |-> 0, steps |-> 0]
    /\ probes = [commands |-> 0, odom |-> NoOdom, far |-> 0]

-----------------------------------------------------------------------------
\* The script.

Waiting == {"configure", "plugin", "activate", "lifecycle", "serve", "send",
            "result"}

\* wait_future and the polls look at the clock after every spin, and let it
\* decide even if the answer has just come in.
Expired == script.waited = Patience

Wait ==
    /\ script.pc \in Waiting /\ script.waited < Patience
    /\ script' = [script EXCEPT !.waited = @ + 1]
    /\ UNCHANGED <<stage, call, server, goal, robot, probes, patched>>

Send(request) ==
    call' = [sent |-> Append(call.sent, request), reply |-> "none"]

\* bringup: each check is noted, and whatever it was the next one is made.
\* An answer that comes after its deadline is nobody's.  The parameter of the
\* plugin is there once the server has dealt with the first request.
BringUp ==
    /\ \/ /\ script.pc = "configure"
          /\ \/ /\ call.reply # "none"
                /\ script' = Found(call.reply = "success", "plugin")
             \/ Expired /\ script' = Found(FALSE, "plugin")
          /\ UNCHANGED call
       \/ /\ script.pc = "plugin"
          /\ \/ call.sent = <<>> /\ script' = At("activate")
             \/ Expired /\ script' = Found(FALSE, "activate")
          /\ Send("activate")
       \/ /\ script.pc = "activate"
          /\ \/ /\ call.reply # "none"
                /\ script' = Found(call.reply = "success", "lifecycle")
             \/ Expired /\ script' = Found(FALSE, "lifecycle")
          /\ UNCHANGED call
       \/ /\ script.pc = "lifecycle"
          /\ LET next == IF stage = "1" THEN "report" ELSE "serve" IN
             \/ server = "active" /\ script' = At(next)
             \/ Expired /\ script' = Found(FALSE, next)
          /\ UNCHANGED call
    /\ UNCHANGED <<stage, server, goal, robot, probes, patched>>

\* run_follow_path: an early return leaves the outcome None.  The client has no
\* cancel_goal_async, so that a goal whose acceptance is late ends the script.
FollowPath ==
    /\ \/ /\ script.pc = "serve"
          /\ \/ /\ server # "unconfigured" /\ script' = At("send")
                /\ goal' = [goal EXCEPT !.state = "sent"]
             \/ Expired /\ script' = At("judge") /\ UNCHANGED goal
       \/ /\ script.pc = "send"
          /\ \/ goal.state = "rejected" /\ script' = At("judge")
             \/ goal.state \notin {"sent", "rejected"} /\ script' = At("result")
             \/ Expired /\ script' = [At("done") EXCEPT !.exit = 1]
          /\ UNCHANGED goal
       \/ /\ script.pc = "result"
          /\ \/ /\ goal.state \in {"succeeded", "aborted", "canceled"}
                /\ script' = At("judge") /\ UNCHANGED goal
             \/ /\ Expired /\ script' = At("timed_out")
                /\ goal' = [goal EXCEPT !.cancel = TRUE]
    /\ UNCHANGED <<stage, call, server, robot, probes, patched>>

\* The callbacks of the probes run while the script spins for a future.
Spinning == script.pc \in {"send", "result"}

Spin ==
    /\ Spinning
    /\ probes' = [commands |-> probes.commands, odom |-> robot.pos,
                  far |-> IF robot.pos > probes.far THEN robot.pos ELSE probes.far]
    /\ probes' # probes
    /\ UNCHANGED <<stage, script, call, server, goal, robot, patched>>

\* What run_follow_path returned: the state of the handle when the result was in.
Outcome == IF script.pc = "judge" THEN goal.state ELSE "none"

\* Where a control stage asks the robot to be seen last.
FinalWindow ==
    IF stage = "2a" THEN (Length - StopMargin - Tolerance)..(Length + Tolerance)
    ELSE (Length - 2 * Tolerance)..(Length + 2 * Tolerance)

\* Mutant of ControlChecks: the outcome of the goal is not looked at.
ControlChecksOfProbes ==
    /\ probes.commands >= MinCommands
    /\ probes.odom \in FinalWindow
    /\ probes.far <= Length + Excess

ControlChecks ==
    /\ Outcome = "succeeded"
    /\ probes.commands >= MinCommands
    /\ probes.odom \in FinalWindow
    /\ probes.far <= Length + Excess

\* The negative control may end in an abort or in a timeout.
ScenarioChecks ==
    /\ script.pc = "timed_out" \/ Outcome \in {"aborted", "canceled"}
    /\ probes.commands > MinFlow
    /\ probes.odom # NoOdom

StageChecks ==
    CASE stage = "1" -> TRUE
      [] stage = "nc" -> ScenarioChecks
      [] OTHER -> ControlChecks

\* The stage's report, and exit.
Report ==
    /\ script.pc \in {"report", "judge", "timed_out"}
    /\ script' = [At("done") EXCEPT
                     !.exit = IF script.ok /\ StageChecks THEN 0 ELSE 1]
    /\ UNCHANGED <<stage, call, server, goal, robot, probes, patched>>

Script == Wait \/ BringUp \/ FollowPath \/ Report

-----------------------------------------------------------------------------
\* The controller server and the plugin.

\* A transition is made or fails; its answer counts if the script still waits.
Transition ==
    /\ call.sent # <<>>
    /\ LET first == Head(call.sent) = "configure"
           from == IF first THEN "unconfigured" ELSE "inactive"
           to == IF first THEN "inactive" ELSE "active"
       IN  \E made \in {server = from, FALSE} :
              /\ server' = IF made THEN to ELSE server
              /\ call' = [sent |-> Tail(call.sent),
                          reply |-> IF Len(call.sent) > 1 THEN "none"
                                    ELSE IF made THEN "success" ELSE "failure"]
    /\ UNCHANGED <<stage, script, goal, robot, probes, patched>>

\* Only an active server takes a goal.
Accept ==
    /\ goal.state = "sent"
    /\ goal' = [goal EXCEPT
          !.state = IF server = "active" THEN "running" ELSE "rejected"]
    /\ UNCHANGED <<stage, script, call, server, robot, probes, patched>>

Remaining == IF Length > robot.pos THEN Length - robot.pos ELSE 0

\* Mutant of StopsIn: the margin is left out.
StopsInWithoutMargin(v) == v * v <= Braking * Remaining

\* v_term: slow enough to stop StopMargin before the end.
StopsIn(v) ==
    v * v
        <= Braking * (IF Remaining > StopMargin THEN Remaining - StopMargin ELSE 0)

\* The command of a cycle: the fastest the limits allow.
Commanded ==
    CHOOSE v \in 0..CruiseSpeed :
        /\ patched \/ StopsIn(v)
        /\ \A faster \in (v + 1)..CruiseSpeed : ~(patched \/ StopsIn(faster))

\* The robot and, while the script spins, the probes get a command: a control
\* stage counts those that move, the negative control all of them.
Publish(v) ==
    /\ robot' = [robot EXCEPT !.v = v, !.steps = 0]
    /\ probes' = [probes EXCEPT
          !.commands = IF Spinning /\ (v # 0 \/ stage = "nc")
                       THEN Fewer(@ + 1, MinCommands) ELSE @]

\* A cycle of a running goal.
Control ==
    /\ goal.state = "running" /\ robot.steps > 0
    /\ Publish(Commanded)
    /\ UNCHANGED <<stage, script, call, server, goal, patched>>

\* A goal that ends leaves the robot with a zero command.  It may be aborted at
\* any time, for want of progress or by the plugin.
Ended(state) ==
    /\ goal.state = "running"
    /\ goal' = [state |-> state, cancel |-> FALSE]
    /\ Publish(0)
    /\ UNCHANGED <<stage, script, call, server, patched>>

GoalEnds ==
    \/ /\ Remaining <= Tolerance /\ robot.pos <= Length + Tolerance /\ YawReachable
       /\ Ended("succeeded")
    \/ Ended("aborted")
    \/ goal.cancel /\ Ended("canceled")

\* step() of the robot, at most StepsPerCycle times between two cycles; it has
\* no watchdog and keeps the last command.
RobotStep ==
    /\ robot.steps < StepsPerCycle /\ robot.pos + robot.v <= MaxPos
    /\ robot' = [robot EXCEPT !.pos = @ + robot.v, !.steps = @ + 1]
    /\ UNCHANGED <<stage, script, call, server, goal, probes, patched>>

World == Transition \/ Accept \/ Control \/ GoalEnds \/ RobotStep

-----------------------------------------------------------------------------

\* A control stage that passes means that the robot arrived: the server was
\* brought up and is active, and the robot has stopped within the tolerance of
\* the end, whatever answers were late and whatever the probes missed.
PassMeansArrived ==
    script.exit = 0 /\ stage \in {"2a", "2b"} =>
        /\ server = "active" /\ robot.v = 0
        /\ robot.pos \in (Length - Tolerance)..(Length + Tolerance)

\* With the terminal stop the robot does not drive past the end of the path,
\* also between two cycles and if the goal is never reached.
NeverPastTheEnd == ~patched => robot.pos <= Length
=============================================================================
