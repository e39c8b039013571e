------------------------ MODULE NegativeControlProofs ------------------------
(***************************************************************************)
(* What the acceptance of the plugin and its negative control promise, for *)
(* every path, speed, margin and number of runs, crashes and revisions.    *)
(***************************************************************************)
EXTENDS NegativeControl, WellFoundedInduction, TLAPS

-----------------------------------------------------------------------------
\* The robot.

Robots == [pos : Nat, v : 0..CruiseSpeed, steps : 0..StepsPerCycle]

\* Where the robot can be before its next command is still on the path.
Reach(r) == r.pos + r.v * (StepsPerCycle - r.steps)

RobotInv ==
    /\ robot \in Robots
    /\ ~patched => Reach(robot) <= Length

\* The goal and the verdict.
Arrived ==
    /\ server = "active" /\ robot.v = 0
    /\ robot.pos \in (Length - Tolerance)..(Length + Tolerance)

Recorded ==
    /\ {"pc", "exit"} \subseteq DOMAIN script
    /\ {"state"} \subseteq DOMAIN goal

VerdictInv ==
    /\ Recorded
    /\ goal.state = "running" => server = "active"
    /\ goal.state = "succeeded" => Arrived
    /\ script.exit # NotRun => script.pc \in {"idle", "done"}
    /\ script.exit = 0 /\ stage \in {"2a", "2b"}
          => goal.state \notin {"sent", "running"}
    /\ PassMeansArrived

\* The sources.
Intact == [rev : 0..MaxRevisions, patched : {FALSE}]

PatchInv ==
    /\ {"pc"} \subseteq DOMAIN runner
    /\ source \in Sources
    /\ backup = NoBackup \/ backup \in Intact
    /\ source \in Intact \/ backup \in Intact
    /\ runner.pc = "patch" => backup \in Intact

-----------------------------------------------------------------------------
\* The steps, for the variables of the acceptance.

\* The acceptance is not touched, launched, cut off by a crash, or runs.
CutOff ==
    /\ script' = [script EXCEPT !.pc = "idle"]
    /\ goal' = [state |-> "none", cancel |-> FALSE]
    /\ robot' = [robot EXCEPT !.v = 0]
    /\ UNCHANGED <<stage, server, probes, patched>>

LEMMA SmokeSteps ==
  ASSUME [Next]_sandboxVars
  PROVE  \/ UNCHANGED smokeVars
         \/ \E st, build : Launched(st, build)
         \/ CutOff
         \/ Script \/ Spin \/ World
PROOF
<1>1. CASE UNCHANGED sandboxVars
  BY <1>1 DEF sandboxVars
<1>2. CASE Start
  BY <1>2 DEF Start
<1>3. CASE Runner
  <2>1. ASSUME NEW pc, NEW next, Launch(pc, next)
        PROVE  \E st, build : Launched(st, build)
    BY <2>1 DEF Launch
  <2>2. CASE Launch("launch_a", "run_a") \/ Launch("launch_b", "run_b")
    BY <2>1, <2>2
  <2>3. ASSUME NEW pc, NEW unmark, NEW build,
               \/ Revert(pc, unmark, build) \/ Unmark(pc, build)
               \/ Build(pc, build)
        PROVE  UNCHANGED smokeVars
    BY <2>3 DEF Revert, Unmark, Build
  <2>4. CASE IntactDone \/ Apply \/ PatchedDone \/ Verdict
    BY <2>4 DEF IntactDone, Apply, PatchedDone, Verdict
  <2> QED
    BY <1>3, <2>2, <2>3, <2>4 DEF Runner
<1>4. CASE Stage
  BY <1>4 DEF Stage
<1>5. CASE Crash
  BY <1>5 DEF Crash, CutOff
<1>6. CASE Edit
  BY <1>6 DEF Edit
<1> QED
  BY <1>1, <1>2, <1>3, <1>4, <1>5, <1>6 DEF Next

-----------------------------------------------------------------------------
\* The robot stays on its path.

LEMMA Constants ==
  /\ StraightLength \in Nat /\ ArcLength \in Nat /\ StopMargin \in Nat
  /\ Tolerance \in Nat /\ CruiseSpeed \in Nat /\ Braking \in Nat
  /\ StepsPerCycle \in Nat
  /\ Length \in Nat /\ Length <= StraightLength + ArcLength
  /\ Length' \in Nat
BY SmokeAssumption DEF SmokeAssumption, Length

\* Some element of a part of 0..n that is not empty is the greatest: the one
\* that lacks least to n.
LEMMA Fastest ==
  ASSUME NEW n \in Nat, NEW T, T \subseteq 0..n, T # {}
  PROVE  \E x \in T : \A y \in T : y <= x
PROOF
<1> DEFINE Lacks == {n - x : x \in T}
<1>0. \A x \in T : x \in Nat /\ n - x \in Nat
  OBVIOUS
<1>1. Lacks \subseteq Nat /\ Lacks # {}
  BY <1>0
<1>2. PICK l \in Lacks : \A k \in Lacks : ~(<<k, l>> \in OpToRel(<, Nat))
  BY <1>1, NatLessThanWellFounded, WFMin
<1>3. ASSUME NEW k \in Lacks
      PROVE  l <= k
  <2>1. k \in Nat /\ l \in Nat
    BY <1>1
  <2>2. ~(k < l)
    BY <1>2, <2>1 DEF OpToRel
  <2> QED
    BY <2>1, <2>2
<1>4. PICK x \in T : l = n - x
  OBVIOUS
<1> HIDE DEF Lacks
<1>5. ASSUME NEW y \in T
      PROVE  y <= x
  <2>1. n - y \in Lacks
    BY DEF Lacks
  <2>2. n - x <= n - y
    BY <1>3, <1>4, <2>1
  <2> QED
    BY <2>2
<1> QED
  BY <1>5

\* What the plugin commands: a speed, from which an intact plugin stops in time.
LEMMA CommandStops ==
  ASSUME robot \in Robots
  PROVE  /\ Commanded \in 0..CruiseSpeed
         /\ ~patched => StopsIn(Commanded)
PROOF
<1> DEFINE May(v) == patched \/ StopsIn(v)
           Best(v) == /\ May(v)
                      /\ \A faster \in (v + 1)..CruiseSpeed : ~May(faster)
           Slow == {v \in 0..CruiseSpeed : May(v)}
<1>1. Remaining \in Nat
  BY Constants DEF Remaining, Robots
<1>2. May(0)
  BY <1>1, Constants DEF StopsIn
<1> HIDE DEF May
<1>3. \E v \in 0..CruiseSpeed : Best(v)
  <2>1. 0 \in Slow
    BY <1>2, Constants
  <2>2. PICK v \in Slow : \A y \in Slow : y <= v
    BY <2>1, Constants, Fastest
  <2>3. \A faster \in (v + 1)..CruiseSpeed : ~May(faster)
    BY <2>2, Constants
  <2> QED
    BY <2>2, <2>3
<1>4. Commanded = CHOOSE v \in 0..CruiseSpeed : Best(v)
  BY Zenon DEF Commanded, May
<1>5. Commanded \in 0..CruiseSpeed /\ Best(Commanded)
  BY <1>3, <1>4
<1> QED
  BY <1>5 DEF May

\* A commanded speed keeps the robot on the path until the next command.
LEMMA ReachOfCommand ==
  ASSUME NEW pos \in Nat, pos <= Length, pos = robot.pos,
         NEW v \in 0..CruiseSpeed, StopsIn(v)
  PROVE  pos + v * StepsPerCycle <= Length
PROOF
<1> DEFINE r == IF Remaining > StopMargin THEN Remaining - StopMargin ELSE 0
<1>1. /\ Remaining \in Nat /\ pos + Remaining = Length
      /\ v \in Nat
  BY Constants DEF Remaining
<1>2. /\ r \in 0..(StraightLength + ArcLength)
      /\ v * v <= Braking * r
  BY <1>1, Constants DEF StopsIn
<1>3. v * StepsPerCycle <= r + StopMargin
  BY <1>2, MarginAssumption
<1>4. CASE Remaining > StopMargin
  <2>1. r + StopMargin = Remaining
    BY <1>1, <1>4, Constants
  <2>2. v * StepsPerCycle \in Nat
    BY <1>1, Constants
  <2> QED
    BY <1>1, <1>3, <2>1, <2>2, Constants
<1>5. CASE ~(Remaining > StopMargin)
  <2>1. v * v <= 0
    BY <1>2, <1>5, Constants
  <2>2. v = 0
    BY <1>1, <2>1
  <2> QED
    BY <2>2, Constants
<1> QED
  BY <1>4, <1>5

\* Driving a step does not change the reach, which is never behind the robot.
LEMMA ReachAhead ==
  ASSUME NEW pos \in Nat, NEW v \in Nat, NEW steps \in 0..StepsPerCycle
  PROVE  /\ pos <= pos + v * (StepsPerCycle - steps)
         /\ steps < StepsPerCycle =>
              (pos + v) + v * (StepsPerCycle - (steps + 1))
                = pos + v * (StepsPerCycle - steps)
PROOF
<1>1. PICK left \in Nat : StepsPerCycle = steps + left
  <2>1. StepsPerCycle - steps \in Nat
    BY Constants
  <2> QED
    BY <2>1, Constants
<1>2. v * left \in Nat
  BY <1>1
<1>3. StepsPerCycle - steps = left /\ StepsPerCycle - (steps + 1) = left - 1
  BY <1>1, Constants
<1>4. v * (left - 1) = v * left - v
  BY <1>1
<1> QED
  BY <1>2, <1>3, <1>4

LEMMA ReachStep ==
  ASSUME RobotInv, [Next]_sandboxVars
  PROVE  RobotInv'
PROOF
<1>0. /\ robot \in Robots
      /\ robot.pos \in Nat /\ robot.v \in 0..CruiseSpeed /\ robot.v \in Nat
      /\ robot.steps \in 0..StepsPerCycle /\ robot.steps \in Nat
      /\ robot.pos <= Reach(robot)
      /\ ~patched => robot.pos <= Length
  <2>1. /\ robot \in Robots
        /\ robot.pos \in Nat /\ robot.v \in 0..CruiseSpeed /\ robot.v \in Nat
        /\ robot.steps \in 0..StepsPerCycle /\ robot.steps \in Nat
        /\ robot.v * (StepsPerCycle - robot.steps) \in Int
    BY Constants DEF RobotInv, Robots
  <2>2. robot.pos <= Reach(robot)
    BY <2>1, ReachAhead DEF Reach
  <2>3. ~patched => robot.pos <= Length
    BY <2>1, <2>2, Constants DEF RobotInv, Reach
  <2> QED
    BY <2>1, <2>2, <2>3
\* A command that stops the robot where it is.
<1>1. ASSUME NEW steps \in 0..StepsPerCycle,
             robot' = [pos |-> robot.pos, v |-> 0, steps |-> steps],
             UNCHANGED <<stage, patched>>
      PROVE  RobotInv'
  <2>1. robot' \in Robots /\ Reach(robot') = robot.pos
    BY <1>0, <1>1, Constants DEF Robots, Reach
  <2>2. Length' = Length
    BY <1>1 DEF Length
  <2> QED
    BY <1>0, <1>1, <2>1, <2>2 DEF RobotInv, Reach
<1>2. CASE UNCHANGED <<stage, robot, patched>>
  <2>1. Length' = Length
    BY <1>2 DEF Length
  <2> QED
    BY <1>2, <2>1 DEF RobotInv, Reach
<1>3. CASE \E st, build : Launched(st, build)
  <2>1. robot' = [pos |-> 0, v |-> 0, steps |-> 0]
    BY <1>3 DEF Launched
  <2>2. robot' \in Robots /\ Reach(robot') = 0
    BY <2>1, Constants DEF Robots, Reach
  <2> QED
    BY <2>2, Constants DEF RobotInv, Reach
<1>4. CASE CutOff
  <2>1. robot' = [pos |-> robot.pos, v |-> 0, steps |-> robot.steps]
    BY <1>0, <1>4 DEF CutOff, Robots
  <2> QED
    BY <1>0, <1>1, <1>4, <2>1 DEF CutOff
<1>5. CASE \E state : Ended(state)
  <2>1. robot' = [pos |-> robot.pos, v |-> 0, steps |-> 0]
    BY <1>0, <1>5 DEF Ended, Publish, Robots
  <2>2. 0 \in 0..StepsPerCycle
    BY Constants
  <2> QED
    BY <1>1, <1>5, <2>1, <2>2 DEF Ended
<1>6. CASE Control
  <2>1. /\ robot' = [pos |-> robot.pos, v |-> Commanded, steps |-> 0]
        /\ UNCHANGED <<stage, patched>>
    BY <1>0, <1>6 DEF Control, Publish, Robots
  <2>2. /\ Commanded \in 0..CruiseSpeed /\ Commanded \in Nat
        /\ ~patched => StopsIn(Commanded)
    BY <1>0, CommandStops, Constants
  <2>3. robot' \in Robots /\ Reach(robot') = robot.pos + Commanded * StepsPerCycle
    BY <1>0, <2>1, <2>2, Constants DEF Robots, Reach
  <2>4. ~patched => robot.pos + Commanded * StepsPerCycle <= Length
    BY <1>0, <2>2, ReachOfCommand
  <2>5. Length' = Length
    BY <2>1 DEF Length
  <2> QED
    BY <2>1, <2>3, <2>4, <2>5 DEF RobotInv, Reach
<1>7. CASE RobotStep
  <2>1. /\ robot' = [pos |-> robot.pos + robot.v, v |-> robot.v,
                     steps |-> robot.steps + 1]
        /\ robot.steps < StepsPerCycle
        /\ UNCHANGED <<stage, patched>>
    BY <1>0, <1>7 DEF RobotStep, Robots
  <2>2. robot' \in Robots
    BY <1>0, <2>1, Constants DEF Robots
  <2>3. Reach(robot') = Reach(robot)
    BY <1>0, <2>1, ReachAhead DEF Reach
  <2>4. Length' = Length
    BY <2>1 DEF Length
  <2> QED
    BY <2>1, <2>2, <2>3, <2>4 DEF RobotInv
<1>8. CASE Script \/ Spin \/ Transition \/ Accept
  <2>1. UNCHANGED <<stage, robot, patched>>
    BY <1>8 DEF Script, Wait, BringUp, FollowPath, Report, Spin, Transition, Accept
  <2> QED
    BY <1>2, <2>1
<1>9. CASE UNCHANGED smokeVars
  BY <1>2, <1>9 DEF smokeVars
<1> QED
  BY <1>3, <1>4, <1>5, <1>6, <1>7, <1>8, <1>9, SmokeSteps DEF World, GoalEnds

-----------------------------------------------------------------------------
\* A pass means that the robot arrived.

\* A zero exit of a control stage is reported with a goal that succeeded.
LEMMA ReportStep ==
  ASSUME VerdictInv, Report
  PROVE  VerdictInv'
PROOF
<1>1. /\ script' = [script EXCEPT !.pc = "done", !.waited = 0,
                       !.exit = IF script.ok /\ StageChecks THEN 0 ELSE 1]
      /\ UNCHANGED <<stage, server, goal, robot>>
  BY Zenon DEF Report, At
<1>2. /\ script'.pc = "done" /\ {"pc", "exit"} \subseteq DOMAIN script'
      /\ script'.exit = 0 => StageChecks
  BY <1>1 DEF VerdictInv, Recorded
<1>3. ASSUME script'.exit = 0, stage \in {"2a", "2b"}
      PROVE  goal.state = "succeeded"
  BY <1>2, <1>3 DEF StageChecks, ControlChecks, Outcome
<1>4. Length' = Length
  BY <1>1 DEF Length
<1>5. Arrived' = Arrived
  BY <1>1, <1>4 DEF Arrived
<1>6. PassMeansArrived'
  BY <1>1, <1>3, <1>5 DEF VerdictInv, PassMeansArrived, Arrived
<1> QED
  BY <1>1, <1>2, <1>3, <1>5, <1>6 DEF VerdictInv, Recorded

\* The script's other steps exit only with a failure, and only they send a goal.
LEMMA ScriptStep ==
  ASSUME VerdictInv, Wait \/ BringUp \/ FollowPath
  PROVE  VerdictInv'
PROOF
<1>1. ASSUME NEW pc, script' = [script EXCEPT !.pc = pc, !.waited = 0]
      PROVE  DOMAIN script' = DOMAIN script /\ script'.exit = script.exit
  BY <1>1
<1>2. ASSUME NEW pc, NEW check, script' = Found(check, pc)
      PROVE  DOMAIN script' = DOMAIN script /\ script'.exit = script.exit
  BY <1>2 DEF Found, At
<1>3. script' = [script EXCEPT !.waited = @ + 1]
        => DOMAIN script' = DOMAIN script /\ script'.exit = script.exit
  OBVIOUS
<1>4. script' = [At("done") EXCEPT !.exit = 1]
        => /\ DOMAIN script' = DOMAIN script
           /\ script'.pc = "done" /\ script'.exit = 1
  BY DEF VerdictInv, Recorded, At
<1>5. /\ DOMAIN script' = DOMAIN script
      /\ script'.exit = script.exit \/ (script'.pc = "done" /\ script'.exit = 1)
  <2>1. CASE Wait
    BY <1>3, <2>1 DEF Wait
  <2>2. CASE BringUp
    BY Zenon, <1>1, <1>2, <2>2 DEF BringUp, At
  <2>3. CASE FollowPath
    <3>1. \/ \E pc : script' = At(pc)
          \/ script' = [At("done") EXCEPT !.exit = 1]
      BY Zenon, <2>3 DEF FollowPath
    <3>2. CASE \E pc : script' = At(pc)
      BY Zenon, <1>1, <3>2 DEF At
    <3> QED
      BY Zenon, <1>4, <3>1, <3>2
  <2> QED
    BY <2>1, <2>2, <2>3
<1>6. script.pc \notin {"idle", "done"} /\ UNCHANGED <<stage, server, robot>>
  BY DEF Wait, Waiting, BringUp, FollowPath
<1>7. script.exit = NotRun
  BY <1>6 DEF VerdictInv
<1>8. /\ DOMAIN goal' = DOMAIN goal
      /\ goal'.state \in {goal.state, "sent"}
  BY DEF Wait, BringUp, FollowPath, VerdictInv, Recorded
<1>9. Arrived' = Arrived
  BY <1>6 DEF Arrived, Length
<1>10. PassMeansArrived'
  BY <1>5, <1>7 DEF PassMeansArrived, NotRun
<1> QED
  BY <1>5, <1>6, <1>7, <1>8, <1>9, <1>10 DEF VerdictInv, Recorded, NotRun

LEMMA VerdictStep ==
  ASSUME RobotInv, VerdictInv, [Next]_sandboxVars
  PROVE  VerdictInv'
PROOF
<1>1. CASE UNCHANGED smokeVars
  BY <1>1 DEF VerdictInv, Recorded, Arrived, PassMeansArrived, Length, smokeVars
<1>2. CASE \E st, build : Launched(st, build)
  <2>1. /\ script' = [pc |-> "configure", waited |-> 0, ok |-> TRUE, exit |-> NotRun]
        /\ goal' = [state |-> "none", cancel |-> FALSE]
    BY <1>2 DEF Launched
  <2>2. /\ {"pc", "exit"} \subseteq DOMAIN script' /\ script'.exit = NotRun
        /\ {"state"} \subseteq DOMAIN goal' /\ goal'.state = "none"
    BY <2>1
  <2> QED
    BY <2>2 DEF VerdictInv, Recorded, PassMeansArrived, NotRun
<1>3. CASE CutOff
  <2>1. /\ {"pc", "exit"} \subseteq DOMAIN script'
        /\ script'.pc = "idle" /\ script'.exit = script.exit
        /\ {"state"} \subseteq DOMAIN goal' /\ goal'.state = "none"
        /\ robot'.v = 0 /\ robot'.pos = robot.pos
        /\ UNCHANGED <<stage, server>>
    BY <1>3 DEF CutOff, VerdictInv, Recorded, RobotInv, Robots
  <2>2. PassMeansArrived'
    BY <2>1 DEF VerdictInv, PassMeansArrived, Length
  <2> QED
    BY <2>1, <2>2 DEF VerdictInv, Recorded
<1>4. CASE Report
  BY <1>4, ReportStep
<1>5. CASE Wait \/ BringUp \/ FollowPath
  BY <1>5, ScriptStep
<1>6. CASE Spin
  <2>1. UNCHANGED <<stage, script, server, goal, robot>>
    BY <1>6 DEF Spin
  <2> QED
    BY <2>1 DEF VerdictInv, Recorded, Arrived, PassMeansArrived, Length
\* An active server does not make another transition.
<1>7. CASE Transition
  <2>1. /\ server = "active" => server' = "active"
        /\ UNCHANGED <<stage, script, goal, robot>>
    BY <1>7 DEF Transition
  <2> QED
    BY <2>1 DEF VerdictInv, Recorded, Arrived, PassMeansArrived, Length
<1>8. CASE Accept
  <2>1. /\ goal.state = "sent" /\ {"state"} \subseteq DOMAIN goal'
        /\ goal'.state \in {"running", "rejected"}
        /\ goal'.state = "running" => server = "active"
        /\ UNCHANGED <<stage, script, server, robot>>
    BY <1>8 DEF Accept, VerdictInv, Recorded
  <2> QED
    BY <2>1 DEF VerdictInv, Recorded, Arrived, PassMeansArrived, Length
<1>9. ASSUME goal.state = "running", UNCHANGED <<stage, script, server>>,
             {"state"} \subseteq DOMAIN goal',
             goal'.state \in {"running", "aborted", "canceled"}
                \/ (goal'.state = "succeeded" /\ Arrived')
      PROVE  VerdictInv'
  <2>1. ~(script.exit = 0 /\ stage \in {"2a", "2b"})
    BY <1>9 DEF VerdictInv
  <2> QED
    BY <1>9, <2>1 DEF VerdictInv, Recorded, PassMeansArrived
<1>10. CASE Control
  BY <1>9, <1>10 DEF Control, VerdictInv, Recorded
<1>11. CASE GoalEnds
  <2>1. ASSUME NEW state, Ended(state)
        PROVE  /\ goal.state = "running" /\ UNCHANGED <<stage, script, server>>
               /\ {"state"} \subseteq DOMAIN goal' /\ goal'.state = state
               /\ robot'.v = 0 /\ robot'.pos = robot.pos
    BY <2>1 DEF Ended, Publish, RobotInv, Robots
  <2>2. CASE Ended("aborted") \/ Ended("canceled")
    BY <1>9, <2>1, <2>2
  <2>3. CASE /\ Remaining <= Tolerance /\ robot.pos <= Length + Tolerance
             /\ Ended("succeeded")
    <3>1. robot.pos \in (Length - Tolerance)..(Length + Tolerance)
      BY <2>3, Constants DEF Remaining, RobotInv, Robots
    <3>2. Length' = Length
      BY <2>1, <2>3 DEF Length
    <3>3. Arrived'
      BY <2>1, <2>3, <3>1, <3>2 DEF Arrived, VerdictInv
    <3> QED
      BY <1>9, <2>1, <2>3, <3>3
  <2> QED
    BY <1>11, <2>2, <2>3 DEF GoalEnds
\* A robot that has stopped stays where it is.
<1>12. CASE RobotStep
  <2>1. /\ robot.v = 0 => robot'.v = 0 /\ robot'.pos = robot.pos
        /\ UNCHANGED <<stage, script, server, goal>>
    BY <1>12 DEF RobotStep, RobotInv, Robots
  <2>2. Arrived => Arrived'
    BY <2>1 DEF Arrived, Length
  <2> QED
    BY <2>1, <2>2 DEF VerdictInv, Recorded, PassMeansArrived, Arrived
<1> QED
  BY <1>1, <1>2, <1>3, <1>4, <1>5, <1>6, <1>7, <1>8, <1>10, <1>11, <1>12, SmokeSteps
     DEF Script, World

-----------------------------------------------------------------------------
\* A patch can be undone.

LEMMA IntactSources ==
  /\ Intact \subseteq Sources
  /\ NoBackup \notin Sources
  /\ \A s \in Sources : ~s.patched => s \in Intact
  /\ \A s \in Intact : ~s.patched
PROOF
<1>1. ASSUME NEW s \in Sources, ~s.patched
      PROVE  s \in Intact
  <2>1. s = [rev |-> s.rev, patched |-> s.patched] /\ s.patched \in BOOLEAN
    BY Zenon DEF Sources
  <2>2. s.rev \in 0..MaxRevisions /\ s.patched \in {FALSE}
    BY Zenon, <1>1, <2>1 DEF Sources
  <2> QED
    BY <2>1, <2>2 DEF Intact
<1>2. Intact \subseteq Sources
  BY DEF Intact, Sources
<1>3. \A s \in Intact : ~s.patched
  BY Zenon DEF Intact
<1>4. NoBackup \notin Sources
  <2>1. NoBackup.rev = NotRun
    BY Zenon DEF NoBackup
  <2>2. \A s \in Sources : s.rev \in 0..MaxRevisions
    BY DEF Sources
  <2> QED
    BY <2>1, <2>2, NegativeControlAssumption DEF NotRun
<1> QED
  BY <1>1, <1>2, <1>3, <1>4

LEMMA Edited ==
  ASSUME NEW s \in Sources, s.rev < MaxRevisions
  PROVE  LET t == [s EXCEPT !.rev = @ + 1] IN
         t \in Sources /\ (s \in Intact => t \in Intact)
PROOF
<1>1. s.rev + 1 \in 0..MaxRevisions
  BY NegativeControlAssumption DEF Sources
<1>2. ASSUME NEW flags, s \in [rev : 0..MaxRevisions, patched : flags]
      PROVE  [s EXCEPT !.rev = @ + 1] \in [rev : 0..MaxRevisions, patched : flags]
  BY <1>1, <1>2
<1> QED
  BY Zenon, <1>2 DEF Sources, Intact

LEMMA PatchStep ==
  ASSUME PatchInv, [Next]_sandboxVars
  PROVE  PatchInv'
PROOF
<1>1. CASE UNCHANGED <<source, backup, runner>>
  BY <1>1 DEF PatchInv
\* The runner goes on, with the files as they were.
<1>2. ASSUME UNCHANGED <<source, backup>>, DOMAIN runner' = DOMAIN runner,
             runner'.pc # "patch"
      PROVE  PatchInv'
  BY <1>2 DEF PatchInv
<1>3. ASSUME NEW pc, To(pc)
      PROVE  DOMAIN runner' = DOMAIN runner /\ runner'.pc = pc
  BY <1>3 DEF To, PatchInv
<1>4. Fails => DOMAIN runner' = DOMAIN runner /\ runner'.pc = "idle"
  BY DEF Fails, PatchInv
<1>5. CASE Start
  <2>1. runner'.pc # "patch" /\ {"pc"} \subseteq DOMAIN runner'
    BY <1>5 DEF Start, Idle
  <2> QED
    BY <1>5, <2>1 DEF Start, PatchInv, files
<1>6. ASSUME NEW pc, NEW unmark, NEW build, Revert(pc, unmark, build),
             unmark # "patch", build # "patch"
      PROVE  PatchInv'
  <2>1. CASE backup = NoBackup
    BY <1>2, <1>3, <1>6, <2>1 DEF Revert
  <2>2. CASE backup # NoBackup
    <3>1. /\ source' = backup /\ backup' = backup /\ backup \in Intact
          /\ DOMAIN runner' = DOMAIN runner /\ runner'.pc = unmark
      BY <1>3, <1>6, <2>2 DEF Revert, PatchInv
    <3> QED
      BY <1>6, <3>1, IntactSources DEF PatchInv
  <2> QED
    BY <2>1, <2>2
<1>7. ASSUME NEW pc, NEW next, next # "patch",
             Unmark(pc, next) \/ Build(pc, next) \/ Launch(pc, next)
      PROVE  PatchInv'
  BY <1>2, <1>3, <1>4, <1>7 DEF Unmark, Build, Launch, files
<1>8. CASE IntactDone \/ PatchedDone \/ Verdict
  <2>1. DOMAIN runner' = DOMAIN runner /\ runner'.pc # "patch"
    BY <1>4, <1>8 DEF IntactDone, PatchedDone, Verdict, PatchInv
  <2> QED
    BY <1>2, <1>8, <2>1 DEF IntactDone, PatchedDone, Verdict, files
<1>9. CASE Apply
  <2>1. CASE runner.pc = "apply" /\ MayPatch
    <3>1. backup' = Kept /\ source' = source /\ To("patch")
      BY <1>9, <2>1 DEF Apply
    <3>2. backup' \in Intact
      BY <2>1, <3>1, IntactSources DEF Kept, MayPatch, PatchInv
    <3> QED
      BY <1>3, <3>1, <3>2 DEF PatchInv
  <2>2. CASE runner.pc = "apply" /\ ~MayPatch
    BY <1>2, <1>4, <1>9, <2>2 DEF Apply
  <2>3. CASE runner.pc = "patch"
    <3>1. /\ source' = [source EXCEPT !.patched = TRUE]
          /\ backup' = backup /\ To("mark")
      BY <1>9, <2>3 DEF Apply
    <3>2. source' \in Sources
      BY <3>1 DEF PatchInv, Sources
    <3> QED
      BY <1>3, <2>3, <3>1, <3>2 DEF PatchInv
  <2>4. CASE runner.pc = "mark"
    BY <1>2, <1>3, <1>9, <2>4 DEF Apply
  <2> QED
    BY <1>9, <2>1, <2>2, <2>3, <2>4 DEF Apply
<1>10. CASE Runner
  BY <1>6, <1>7, <1>8, <1>9, <1>10 DEF Runner
<1>11. CASE Stage
  BY <1>1, <1>11 DEF Stage, files
<1>12. CASE Crash
  BY <1>2, <1>4, <1>12 DEF Crash, files
<1>13. CASE Edit
  BY <1>13, Edited DEF Edit, PatchInv
<1> QED
  BY <1>1, <1>5, <1>10, <1>11, <1>12, <1>13 DEF Next, sandboxVars, files

-----------------------------------------------------------------------------

SandboxInv == RobotInv /\ VerdictInv /\ PatchInv

\* The acceptance and the negative control preserve what their judgements rest
\* on, over launches, crashes and edits.
THEOREM SandboxInvariance == Spec => []SandboxInv
PROOF
<1>1. Init => SandboxInv
  <2> SUFFICES ASSUME Init
               PROVE  SandboxInv
    OBVIOUS
  <2>1. RobotInv
    BY Constants DEF Init, SmokeInit, RobotInv, Robots, Reach
  <2>2. VerdictInv
    <3>1. /\ script = [pc |-> "idle", waited |-> 0, ok |-> TRUE, exit |-> NotRun]
          /\ goal = [state |-> "none", cancel |-> FALSE]
      BY Zenon DEF Init, SmokeInit
    <3>2. /\ {"pc", "exit"} \subseteq DOMAIN script /\ script.exit = NotRun
          /\ {"state"} \subseteq DOMAIN goal /\ goal.state = "none"
      BY <3>1
    <3> QED
      BY <3>2 DEF VerdictInv, Recorded, PassMeansArrived, NotRun
  <2>3. source \in Intact /\ source \in Sources
    <3>1. source = [rev |-> 0, patched |-> FALSE]
      BY Zenon DEF Init
    <3>2. 0 \in 0..MaxRevisions
      BY NegativeControlAssumption
    <3>3. source \in Intact
      BY <3>1, <3>2 DEF Intact
    <3> QED
      BY <3>3, IntactSources
  <2>4. runner.pc = "idle" /\ {"pc"} \subseteq DOMAIN runner
    BY DEF Init, Idle
  <2>5. PatchInv
    BY <2>3, <2>4 DEF Init, PatchInv
  <2> QED
    BY <2>1, <2>2, <2>5 DEF SandboxInv
<1>2. SandboxInv /\ [Next]_sandboxVars => SandboxInv'
  BY ReachStep, VerdictStep, PatchStep DEF SandboxInv
<1> QED
  BY <1>1, <1>2, PTL DEF Spec

\* nav2_plugin_smoke: a control stage that exits with 0 has seen the robot
\* stopped within the tolerance of the end, under an active server.
THEOREM PassSound == Spec => []PassMeansArrived
PROOF
<1>1. SandboxInv => PassMeansArrived
  BY DEF SandboxInv, VerdictInv
<1> QED
  BY <1>1, SandboxInvariance, PTL

\* A build with the terminal stop does not drive past the end of the path.
THEOREM EndSound == Spec => []NeverPastTheEnd
PROOF
<1>1. SandboxInv => NeverPastTheEnd
  <2> SUFFICES ASSUME RobotInv, ~patched
               PROVE  robot.pos <= Length
    BY DEF SandboxInv, NeverPastTheEnd
  <2>1. /\ robot.pos \in Nat /\ robot.v \in Nat
        /\ robot.steps \in 0..StepsPerCycle
        /\ robot.v * (StepsPerCycle - robot.steps) \in Int
    BY Constants DEF RobotInv, Robots
  <2>2. robot.pos <= Reach(robot) /\ Reach(robot) <= Length
    BY <2>1, ReachAhead DEF RobotInv, Reach
  <2> QED
    BY <2>1, <2>2, Constants DEF Reach
<1> QED
  BY <1>1, SandboxInvariance, PTL

\* nc_patch_b6b.py: a patched source has a backup that was never patched,
\* wherever a run was cut off.
THEOREM PatchSound == Spec => []PatchCanBeUndone
PROOF
<1>1. SandboxInv => PatchCanBeUndone
  <2> SUFFICES ASSUME PatchInv, source.patched
               PROVE  backup \in Sources /\ ~backup.patched
    BY DEF SandboxInv, PatchCanBeUndone
  <2>1. source \notin Intact
    BY IntactSources
  <2> QED
    BY <2>1, IntactSources DEF PatchInv
<1> QED
  BY <1>1, SandboxInvariance, PTL
=============================================================================
