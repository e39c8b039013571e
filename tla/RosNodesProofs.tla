----------------------------- MODULE RosNodesProofs ----------------------------
(***************************************************************************)
(* Theorems about the two ROS nodes that judge messages by their age,      *)
(* linear_mpc_node and velocity_arbiter, for every limit on an age, every  *)
(* delay of a message and every jump of the clock.                         *)
(***************************************************************************)
EXTENDS LinearMpcNode, VelocityArbiter, TLAPS

-----------------------------------------------------------------------------
(***************************************************************************)
(* linear_mpc_node.                                                        *)
(***************************************************************************)

\* The cap lies beyond every limit and every measurement that can arrive.
LEMMA CapBeyondLimits ==
    /\ AgeCap \in Nat
    /\ OdomMaxAge + MaxDelay + 1 <= AgeCap
    /\ TrajMaxAge + MaxDelay + 1 <= AgeCap
BY NodeAssumption DEF AgeCap, Later

\* Growing older keeps ages in their range.
LEMMA OlderAge ==
    ASSUME NEW age \in Int
    PROVE  /\ Older(age) \in Int
           /\ age \in 0..AgeCap => Older(age) \in 0..AgeCap
BY CapBeyondLimits DEF Older

\* And it keeps a bound on a true age by one that was read.
LEMMA OlderBound ==
    ASSUME NEW true \in 0..AgeCap, NEW read \in Int, NEW d \in Nat,
           true <= read + d
    PROVE  Older(true) <= Older(read) + d
BY CapBeyondLimits DEF Older

\* Time and messages leave the slack as it is.
LEMMA SlackKept ==
    ASSUME since_jump' = since_jump \/ Elapse
    PROVE  Slack' = Slack /\ Slack \in Nat
<1>1. since_jump' = NoJump <=> since_jump = NoJump
  BY NodeAssumption DEF Elapse, NoJump
<1> QED BY <1>1, NodeAssumption DEF Slack

\* What a message leaves behind, stamped or not, from this epoch or the last.
LEMMA OdometryKeepsInv ==
    ASSUME NodeInv, NEW measured \in 0..(OdomMaxAge + MaxDelay + 1),
           NEW valid \in BOOLEAN, NEW stamp \in Int,
           valid => measured <= stamp + Slack,
           ~valid => measured <= MaxDelay,
           Odometry(measured, valid, stamp)
    PROVE  NodeInv'
<1> DEFINE kept == IF valid THEN stamp ELSE AgeCap
<1>1. kept \in Int /\ Backwards(valid, kept) \in BOOLEAN
  <2>1. kept \in Int
    BY CapBeyondLimits
  <2>2. odom.backwards \in BOOLEAN /\ odom.have \in BOOLEAN /\ odom.valid \in BOOLEAN
    BY DEF NodeInv, NodeTypeOK
  <2>3. CASE valid
    <3>1. Backwards(valid, kept) = (odom.have /\ odom.valid /\ kept > odom.stamp)
      BY <2>3 DEF Backwards
    <3>2. (odom.have /\ odom.valid /\ kept > odom.stamp) \in BOOLEAN
      OBVIOUS
    <3> QED BY <2>1, <3>1, <3>2
  <2>4. CASE ~valid
    <3>1. Backwards(valid, kept) = odom.backwards
      BY <2>4 DEF Backwards
    <3> QED BY <2>1, <2>2, <3>1
  <2> QED BY <2>3, <2>4
<1>2. odom' = [have |-> TRUE, valid |-> valid,
               backwards |-> Backwards(valid, kept), stamp |-> kept, recv |-> 0]
  BY DEF Odometry, Noted
<1>3. measured \in 0..AgeCap /\ MaxDelay \in Nat
  BY CapBeyondLimits, NodeAssumption
<1>4. truth' \in [state : 0..AgeCap, path : 0..AgeCap]
      /\ truth'.state = measured /\ truth'.path = truth.path
  BY <1>3 DEF Odometry, NodeInv, NodeTypeOK
<1>5. odom' \in [have : BOOLEAN, valid : BOOLEAN, backwards : BOOLEAN,
                 stamp : Int, recv : Int]
  BY <1>1, <1>2
<1> HIDE DEF kept
<1>6. NodeTypeOK'
  BY <1>4, <1>5 DEF Odometry, NodeInv, NodeTypeOK
<1>7. AgesAreHonest'
  <2>1. Slack' = Slack /\ Slack \in Nat /\ path' = path
    BY SlackKept DEF Odometry
  <2>2. valid => measured <= kept + Slack
    BY DEF kept
  <2>3. ~valid => measured <= 0 + MaxDelay + Slack
    BY <1>3, <2>1
  <2>4. path'.have => truth'.path <= path'.recv + MaxDelay + Slack
    BY <1>4, <2>1 DEF NodeInv, AgesAreHonest
  <2> QED BY <1>2, <1>4, <2>1, <2>2, <2>3, <2>4 DEF AgesAreHonest
<1> QED BY <1>6, <1>7 DEF NodeInv

\* Ages are honest up to the jump of a clock that was set back, and every
\* variable keeps its type.
THEOREM NodeInvariance == Spec => []NodeInv
<1>1. Init => NodeInv
  <2> SUFFICES ASSUME Init PROVE NodeInv
    OBVIOUS
  <2>1. AgeCap \in Int /\ AgeCap \in 0..AgeCap
    BY CapBeyondLimits
  <2>2. odom \in [have : BOOLEAN, valid : BOOLEAN, backwards : BOOLEAN,
                  stamp : Int, recv : Int]
    BY <2>1 DEF Init
  <2>3. path \in [have : BOOLEAN, recv : Int]
        /\ truth \in [state : 0..AgeCap, path : 0..AgeCap]
    BY <2>1 DEF Init
  <2>4. NodeTypeOK
    <3>1. candidate \in [v : Int, health : {"OK", "NO_REFERENCE", "STATE_STALE",
                                            "STALE_REFERENCE", "EMERGENCY_STOP"}]
      BY DEF Init
    <3>2. since_jump \in Int
      BY DEF Init, NoJump
    <3>3. /\ lifecycle \in {"unconfigured", "inactive", "active"}
          /\ timer \in BOOLEAN /\ core_ready \in BOOLEAN
      BY DEF Init
    <3> QED BY <2>2, <2>3, <3>1, <3>2, <3>3 DEF NodeTypeOK
  <2>5. AgesAreHonest
    BY DEF Init, AgesAreHonest
  <2> QED BY <2>4, <2>5 DEF NodeInv
<1>2. ASSUME NodeInv, [Next]_nodeVars
      PROVE  NodeInv'
  <2>0. /\ OdomMaxAge \in Nat /\ TrajMaxAge \in Nat
        /\ MaxDelay \in Nat /\ MaxJump \in Nat
    BY NodeAssumption
  <2>1. CASE Lifecycle
    BY <1>2, <2>1
    DEF Lifecycle, Configure, Transition, NodeInv, NodeTypeOK, AgesAreHonest, Slack
  <2>2. CASE Cycle
    <3>1. candidate' \in [v : Int, health : {"OK", "NO_REFERENCE", "STATE_STALE",
                                             "STALE_REFERENCE", "EMERGENCY_STOP"}]
      <4>1. ASSUME NEW v \in CoreSpeeds, Publish(v, "OK")
            PROVE  candidate' = [v |-> v, health |-> "OK"] /\ v \in Int
        BY <4>1, NodeAssumption DEF Publish
      <4>2. CASE \E v \in CoreSpeeds : Publish(v, "OK")
        BY <4>1, <4>2
      <4>3. CASE \E h \in {"NO_REFERENCE", "STATE_STALE", "STALE_REFERENCE",
                           "EMERGENCY_STOP"} : Publish(0, h)
        BY <4>3 DEF Publish
      <4> QED BY <2>2, <4>2, <4>3 DEF Cycle, AskCore
    <3>2. UNCHANGED <<lifecycle, timer, core_ready, odom, path, since_jump, truth>>
      BY <2>2 DEF Cycle
    <3> QED BY <1>2, <3>1, <3>2 DEF NodeInv, NodeTypeOK, AgesAreHonest, Slack
  <2>3. CASE Elapse
    <3>1. /\ odom' = [odom EXCEPT !.stamp = Older(odom.stamp),
                                  !.recv = Older(odom.recv)]
          /\ path' = [path EXCEPT !.recv = Older(path.recv)]
          /\ truth' = [state |-> Older(truth.state), path |-> Older(truth.path)]
          /\ UNCHANGED <<lifecycle, timer, core_ready, candidate>>
      BY <2>3 DEF Elapse
    <3>2. /\ odom.stamp \in Int /\ odom.recv \in Int /\ path.recv \in Int
          /\ truth.state \in 0..AgeCap /\ truth.path \in 0..AgeCap
      BY <1>2 DEF NodeInv, NodeTypeOK
    <3>3. since_jump' \in Int /\ (since_jump' = NoJump => since_jump = NoJump)
      BY <1>2, <2>0, <2>3 DEF Elapse, NoJump, NodeInv, NodeTypeOK
    <3>4. /\ Older(odom.stamp) \in Int /\ Older(odom.recv) \in Int
          /\ Older(path.recv) \in Int
      BY <3>2, OlderAge
    <3>5. Older(truth.state) \in 0..AgeCap /\ Older(truth.path) \in 0..AgeCap
      BY <3>2, OlderAge, CapBeyondLimits
    <3>6. /\ odom' \in [have : BOOLEAN, valid : BOOLEAN, backwards : BOOLEAN,
                        stamp : Int, recv : Int]
          /\ path' \in [have : BOOLEAN, recv : Int]
      BY <1>2, <3>1, <3>4 DEF NodeInv, NodeTypeOK
    <3>7. NodeTypeOK'
      BY <1>2, <3>1, <3>3, <3>5, <3>6 DEF NodeInv, NodeTypeOK
    <3>8. /\ odom'.have = odom.have /\ odom'.valid = odom.valid
          /\ odom'.stamp = Older(odom.stamp) /\ odom'.recv = Older(odom.recv)
          /\ path'.have = path.have /\ path'.recv = Older(path.recv)
          /\ truth'.state = Older(truth.state) /\ truth'.path = Older(truth.path)
      BY <1>2, <3>1 DEF NodeInv, NodeTypeOK
    <3>9. AgesAreHonest'
      <4>1. Slack' = Slack /\ Slack \in Nat /\ MaxDelay + Slack \in Nat
        BY <2>0, <2>3, SlackKept
      <4>2. odom.have /\ odom.valid
                => Older(truth.state) <= Older(odom.stamp) + Slack
        BY <1>2, <3>2, <4>1, OlderBound DEF NodeInv, AgesAreHonest
      <4>3. odom.have /\ ~odom.valid
                => Older(truth.state) <= Older(odom.recv) + (MaxDelay + Slack)
        <5>1. odom.have /\ ~odom.valid
                => truth.state <= odom.recv + (MaxDelay + Slack)
          BY <1>2, <2>0, <3>2, <4>1 DEF NodeInv, AgesAreHonest
        <5> QED BY <3>2, <4>1, <5>1, OlderBound
      <4>4. path.have => Older(truth.path) <= Older(path.recv) + (MaxDelay + Slack)
        <5>1. path.have => truth.path <= path.recv + (MaxDelay + Slack)
          BY <1>2, <2>0, <3>2, <4>1 DEF NodeInv, AgesAreHonest
        <5> QED BY <3>2, <4>1, <5>1, OlderBound
      <4> QED BY <2>0, <3>4, <3>8, <4>1, <4>2, <4>3, <4>4 DEF AgesAreHonest
    <3> QED BY <3>7, <3>9 DEF NodeInv
  <2>4. CASE ClockSetBack
    <3>1. since_jump' = 0 /\ since_jump' # NoJump
      BY <2>4 DEF ClockSetBack, NoJump
    <3>2. /\ odom' \in [have : BOOLEAN, valid : BOOLEAN, backwards : BOOLEAN,
                        stamp : Int, recv : Int]
          /\ path' \in [have : BOOLEAN, recv : Int]
      <4>1. /\ odom.stamp - MaxJump \in Int /\ odom.recv - MaxJump \in Int
            /\ path.recv - MaxJump \in Int
        BY <1>2, <2>0 DEF NodeInv, NodeTypeOK
      <4>2. /\ odom' = [odom EXCEPT !.stamp = odom.stamp - MaxJump,
                                    !.recv = odom.recv - MaxJump]
            /\ path' = [path EXCEPT !.recv = path.recv - MaxJump]
        BY <2>4 DEF ClockSetBack
      <4>3. /\ odom \in [have : BOOLEAN, valid : BOOLEAN, backwards : BOOLEAN,
                          stamp : Int, recv : Int]
            /\ path \in [have : BOOLEAN, recv : Int]
        BY <1>2 DEF NodeInv, NodeTypeOK
      <4> QED BY <4>1, <4>2, <4>3
    <3>3. UNCHANGED <<lifecycle, timer, core_ready, candidate, truth>>
      BY <2>4 DEF ClockSetBack
    <3>4. NodeTypeOK'
      BY <1>2, <3>1, <3>2, <3>3 DEF NodeInv, NodeTypeOK
    <3>5. Slack = 0 /\ Slack' = MaxJump
      BY <2>4, <3>1 DEF ClockSetBack, Slack
    <3>6. /\ odom'.have = odom.have /\ odom'.valid = odom.valid
          /\ odom'.stamp = odom.stamp - MaxJump
          /\ odom'.recv = odom.recv - MaxJump
          /\ path'.have = path.have /\ path'.recv = path.recv - MaxJump
      BY <1>2, <2>4 DEF ClockSetBack, NodeInv, NodeTypeOK
    <3>7. /\ odom.stamp \in Int /\ odom.recv \in Int /\ path.recv \in Int
          /\ truth.state \in 0..AgeCap /\ truth.path \in 0..AgeCap
      BY <1>2 DEF NodeInv, NodeTypeOK
    <3>8. AgesAreHonest'
      BY <1>2, <2>0, <3>3, <3>5, <3>6, <3>7, CapBeyondLimits
      DEF NodeInv, AgesAreHonest
    <3> QED BY <3>4, <3>8 DEF NodeInv
  <2>5. ASSUME NEW measured \in 0..(OdomMaxAge + MaxDelay + 1),
               \/ Odometry(measured, TRUE, measured)
               \/ measured <= MaxDelay /\ Odometry(measured, FALSE, AgeCap)
               \/ since_jump \in 0..MaxDelay /\ measured >= since_jump
                  /\ Odometry(measured, TRUE, measured - MaxJump)
        PROVE  NodeInv'
    <3>1. measured \in Int /\ measured - MaxJump \in Int /\ AgeCap \in Int
      BY <2>0, CapBeyondLimits
    <3>2. CASE Odometry(measured, TRUE, measured)
      <4>1. Slack \in Nat
        BY <2>0 DEF Slack
      <4>2. measured <= measured + Slack
        BY <3>1, <4>1
      <4> QED BY <1>2, <3>1, <3>2, <4>2, OdometryKeepsInv
    <3>3. CASE measured <= MaxDelay /\ Odometry(measured, FALSE, AgeCap)
      BY <1>2, <3>1, <3>3, OdometryKeepsInv
    <3>4. CASE since_jump \in 0..MaxDelay
               /\ Odometry(measured, TRUE, measured - MaxJump)
      <4>1. measured <= measured - MaxJump + Slack
        <5>1. since_jump # NoJump
          BY <2>0, <3>4 DEF NoJump
        <5> QED BY <2>0, <3>1, <5>1 DEF Slack
      <4> QED BY <1>2, <3>1, <3>4, <4>1, OdometryKeepsInv
    <3> QED BY <2>5, <3>2, <3>3, <3>4
  <2>6. ASSUME NEW made \in 0..MaxDelay, NEW usable \in BOOLEAN,
               ReceivePath(made, usable)
        PROVE  NodeInv'
    <3>1. made \in 0..AgeCap /\ made <= 0 + MaxDelay
      BY <2>0, CapBeyondLimits
    <3>2. /\ path' = [have |-> usable, recv |-> 0]
          /\ truth' \in [state : 0..AgeCap, path : 0..AgeCap]
          /\ truth'.path = made /\ truth'.state = truth.state
          /\ core_ready' \in BOOLEAN
      BY <1>2, <2>6, <3>1 DEF ReceivePath, NodeInv, NodeTypeOK
    <3>3. UNCHANGED <<lifecycle, timer, odom, candidate, since_jump>>
      BY <2>6 DEF ReceivePath
    <3>4. Slack' = Slack /\ Slack \in Nat
      BY <3>3, SlackKept
    <3> QED BY <1>2, <2>0, <3>1, <3>2, <3>3, <3>4
        DEF NodeInv, NodeTypeOK, AgesAreHonest
  <2>7. CASE UNCHANGED nodeVars
    BY <1>2, <2>7 DEF nodeVars, NodeInv, NodeTypeOK, AgesAreHonest, Slack
  <2> QED BY <1>2, <2>1, <2>2, <2>3, <2>4, <2>5, <2>6, <2>7 DEF Next
<1> QED BY <1>1, <1>2, PTL DEF Spec

\* A cycle commands motion only past both freshness checks.
LEMMA MovesPastChecks ==
    ASSUME Moves
    PROVE  /\ odom.have /\ ~OdomIsStale(odom)
           /\ path.have /\ ~PathIsStale(path)
           /\ UNCHANGED truth
<1>1. Cycle /\ candidate'.v # 0
  BY DEF Moves
<1>2. \A h : Publish(0, h) => candidate'.v = 0
  BY DEF Publish
<1> QED BY <1>1, <1>2 DEF Cycle

\* The robot is not driven on an old state.
THEOREM NoOldState == Spec => NoMotionOnOldState
<1>1. ASSUME NodeInv, Moves
      PROVE  truth.state <=
                 OdomMaxAge + (IF odom.valid THEN 0 ELSE MaxDelay) + Slack
  <2>1. odom.have /\ ~OdomIsStale(odom)
    BY <1>1, MovesPastChecks
  <2>2. /\ odom.stamp \in Int /\ odom.recv \in Int /\ truth.state \in Int
        /\ OdomMaxAge \in Nat /\ MaxDelay \in Nat /\ Slack \in Nat
    BY <1>1, NodeAssumption, CapBeyondLimits DEF NodeInv, NodeTypeOK, Slack
  <2>3. CASE odom.valid
    BY <1>1, <2>1, <2>2, <2>3 DEF NodeInv, AgesAreHonest, OdomIsStale
  <2>4. CASE ~odom.valid
    BY <1>1, <2>1, <2>2, <2>4 DEF NodeInv, AgesAreHonest, OdomIsStale
  <2> QED BY <2>3, <2>4
<1>2. NodeInv => [Moves => truth.state <=
          OdomMaxAge + (IF odom.valid THEN 0 ELSE MaxDelay) + Slack]_nodeVars
  BY <1>1
<1> QED BY <1>2, NodeInvariance, PTL DEF NoMotionOnOldState

\* Nor on a path that was received too long ago.
THEOREM NoOldPath == Spec => NoMotionOnOldPath
<1>1. ASSUME NodeInv, Moves
      PROVE  truth.path <= TrajMaxAge + MaxDelay + Slack
  <2>1. path.have /\ ~PathIsStale(path)
    BY <1>1, MovesPastChecks
  <2>2. /\ path.recv \in Int /\ truth.path \in Int
        /\ TrajMaxAge \in Nat /\ MaxDelay \in Nat /\ Slack \in Nat
    BY <1>1, NodeAssumption, CapBeyondLimits DEF NodeInv, NodeTypeOK, Slack
  <2> QED BY <1>1, <2>1, <2>2 DEF NodeInv, AgesAreHonest, PathIsStale
<1>2. NodeInv => [Moves => truth.path <= TrajMaxAge + MaxDelay + Slack]_nodeVars
  BY <1>1
<1> QED BY <1>2, NodeInvariance, PTL DEF NoMotionOnOldPath

-----------------------------------------------------------------------------
(***************************************************************************)
(* velocity_arbiter.                                                       *)
(***************************************************************************)

\* Of any fresh sources one has the highest priority.
LEMMA HighestExists ==
    ASSUME NEW fresh \in SUBSET Sources, fresh # {}
    PROVE  \E s \in fresh : \A t \in fresh : Priority[t] <= Priority[s]
<1>1. CASE "cmd_vel_stop" \in fresh
  BY <1>1 DEF Sources, Priority
<1>2. CASE "cmd_vel_stop" \notin fresh /\ "cmd_vel_mpc" \in fresh
  BY <1>2 DEF Sources, Priority
<1>3. CASE "cmd_vel_stop" \notin fresh /\ "cmd_vel_mpc" \notin fresh
  <2>1. fresh = {"cmd_vel_nav"}
    BY <1>3 DEF Sources
  <2> QED BY <2>1 DEF Priority
<1> QED BY <1>1, <1>2, <1>3

\* What is selected: zero if nothing is fresh, else a fresh source that none
\* outranks.
LEMMA SelectHighest ==
    ASSUME NEW fresh \in SUBSET Sources
    PROVE  /\ fresh = {} => Select(fresh) = Stopped
           /\ fresh # {} => /\ Select(fresh).source \in fresh
                            /\ Select(fresh) = [source |-> Select(fresh).source,
                                    v |-> last[Select(fresh).source].v]
                            /\ \A t \in fresh :
                                 Priority[t] <= Priority[Select(fresh).source]
BY HighestExists DEF Select

\* Growing older keeps ages in their range and in their order.
LEMMA ArbiterOlderAge ==
    ASSUME NEW age \in Int
    PROVE  /\ ArbiterOlder(age) \in Int
           /\ age \in 0..ArbiterAgeCap => ArbiterOlder(age) \in 0..ArbiterAgeCap
           /\ \A b \in Int : b <= age => ArbiterOlder(b) <= ArbiterOlder(age)
BY ArbiterAssumption DEF ArbiterOlder, ArbiterAgeCap

\* The ages kept and the demotions stay in step with the arrivals.
THEOREM ArbiterInvariance == ArbiterSpec => []ArbiterInv
<1> USE DEF ArbiterInv
<1>1. ArbiterInit => ArbiterInv
  <2> SUFFICES ASSUME ArbiterInit PROVE ArbiterInv
    OBVIOUS
  <2>1. ArbiterAgeCap \in Nat /\ ~(ArbiterAgeCap + MaxTransport <= SourceTimeout)
    BY ArbiterAssumption DEF ArbiterAgeCap
  <2>2. \A s \in Sources : last[s].age = ArbiterAgeCap /\ silence[s] = ArbiterAgeCap
    BY DEF ArbiterInit
  <2>3. ArbiterTypeOK
    <3>1. [v |-> 0, age |-> ArbiterAgeCap] \in [v : Int, age : Int]
      BY <2>1
    <3>2. output \in [source : Sources \cup {"none"}, v : Int]
      BY DEF ArbiterInit, Stopped
    <3>3. last \in [Sources -> [v : Int, age : Int]]
      BY <3>1 DEF ArbiterInit
    <3>4. have \in [Sources -> BOOLEAN] /\ jumped \in BOOLEAN
      BY DEF ArbiterInit
    <3>5. silence \in [Sources -> 0..ArbiterAgeCap]
      BY <2>1 DEF ArbiterInit
    <3> QED BY <3>2, <3>3, <3>4, <3>5 DEF ArbiterTypeOK
  <2>4. RecentIsHeld
    BY <2>1, <2>2 DEF RecentIsHeld
  <2>5. StampsAreTrue
    BY <2>1, <2>2 DEF StampsAreTrue
  <2> QED BY <2>3, <2>4, <2>5
<1>2. ASSUME ArbiterInv, [ArbiterNext]_arbiterVars
      PROVE  ArbiterInv'
  <2>0. SourceTimeout \in Nat /\ MaxTransport \in Nat /\ MaxSetBack \in Nat
    BY ArbiterAssumption
  <2>1. ASSUME NEW s \in Sources, NEW v \in Speeds, NEW age \in Int,
               age <= MaxTransport, jumped \/ age >= 0, Receive(s, v, age)
        PROVE  ArbiterInv'
    <3>1. v \in Int
      BY ArbiterAssumption
    <3>2. ArbiterTypeOK'
      BY <1>2, <2>0, <2>1, <3>1 DEF Receive, ArbiterTypeOK, ArbiterAgeCap
    <3>3. RecentIsHeld'
      BY <1>2, <2>0, <2>1 DEF Receive, ArbiterTypeOK, RecentIsHeld
    <3>4. StampsAreTrue'
      BY <1>2, <2>0, <2>1 DEF Receive, ArbiterTypeOK, StampsAreTrue
    <3> QED BY <3>2, <3>3, <3>4
  <2>2. CASE Tick
    <3>1. Fresh \in SUBSET Sources
      BY DEF Fresh
    <3>2. Select(Fresh) \in [source : Sources \cup {"none"}, v : Int]
      <4>1. CASE Fresh = {}
        BY <4>1, <3>1, SelectHighest DEF Stopped
      <4>2. CASE Fresh # {}
        BY <4>2, <3>1, <1>2, SelectHighest DEF ArbiterTypeOK
      <4> QED BY <4>1, <4>2
    <3>3. ArbiterTypeOK'
      BY <1>2, <2>2, <3>2 DEF Tick, Remaining, ArbiterTypeOK
    <3>4. RecentIsHeld'
      BY <1>2, <2>0, <2>2 DEF Tick, Remaining, Fresh, ArbiterTypeOK, RecentIsHeld
    <3>5. StampsAreTrue'
      BY <1>2, <2>2 DEF Tick, StampsAreTrue
    <3> QED BY <3>3, <3>4, <3>5
  <2>3. CASE ArbiterElapse
    <3>1. \A s \in Sources : /\ last'[s] = [v |-> last[s].v, age |-> ArbiterOlder(last[s].age)]
                             /\ silence'[s] = ArbiterOlder(silence[s])
      BY <1>2, <2>3 DEF ArbiterElapse, ArbiterTypeOK
    <3>2. \A s \in Sources : last[s].v \in Int /\ last[s].age \in Int
                              /\ silence[s] \in 0..ArbiterAgeCap /\ silence[s] \in Int
      BY <1>2, <2>0 DEF ArbiterTypeOK, ArbiterAgeCap
    <3>3. ArbiterTypeOK'
      BY <1>2, <2>3, <3>1, <3>2, ArbiterOlderAge DEF ArbiterElapse, ArbiterTypeOK
    <3>4. RecentIsHeld'
      <4> SUFFICES ASSUME NEW s \in Sources, silence'[s] + MaxTransport <= SourceTimeout
                   PROVE  have'[s] /\ last'[s].age <= silence'[s] + MaxTransport
        BY DEF RecentIsHeld
      <4>1. ArbiterOlder(silence[s]) + MaxTransport <= SourceTimeout
        BY <3>1
      <4>2. silence[s] + MaxTransport <= SourceTimeout
        BY <2>0, <3>2, <4>1 DEF ArbiterOlder, ArbiterAgeCap
      <4>3. have[s] /\ last[s].age <= silence[s] + MaxTransport
        BY <1>2, <4>2 DEF RecentIsHeld
      <4>4. ArbiterOlder(last[s].age) <= ArbiterOlder(silence[s]) + MaxTransport
        BY <2>0, <3>2, <4>1, <4>3 DEF ArbiterOlder, ArbiterAgeCap
      <4>5. have' = have /\ last'[s].age = ArbiterOlder(last[s].age)
        BY <2>3, <3>1 DEF ArbiterElapse
      <4> QED BY <3>1, <4>3, <4>4, <4>5
    <3>5. StampsAreTrue'
      BY <1>2, <2>3, <3>1, <3>2, ArbiterOlderAge DEF ArbiterElapse, StampsAreTrue
    <3> QED BY <3>3, <3>4, <3>5
  <2>4. CASE ArbiterClockSetBack
    <3>1. \A s \in Sources : last'[s] = [v |-> last[s].v, age |-> last[s].age - MaxSetBack]
      BY <1>2, <2>4 DEF ArbiterClockSetBack, ArbiterTypeOK
    <3>2. ArbiterTypeOK'
      BY <1>2, <2>0, <2>4 DEF ArbiterClockSetBack, ArbiterTypeOK
    <3>3. RecentIsHeld'
      BY <1>2, <2>0, <2>4, <3>1 DEF ArbiterClockSetBack, ArbiterTypeOK, RecentIsHeld, ArbiterAgeCap
    <3>4. StampsAreTrue'
      BY <2>4 DEF ArbiterClockSetBack, StampsAreTrue
    <3> QED BY <3>2, <3>3, <3>4
  <2>5. CASE UNCHANGED arbiterVars
    BY <1>2, <2>5 DEF arbiterVars, ArbiterTypeOK, RecentIsHeld, StampsAreTrue
  <2>6. CASE \E s \in Sources, v \in Speeds, delay \in 0..MaxTransport :
                \/ Receive(s, v, delay)
                \/ jumped /\ Receive(s, v, delay - MaxSetBack)
    <3>1. PICK s \in Sources, v \in Speeds, delay \in 0..MaxTransport :
                \/ Receive(s, v, delay)
                \/ jumped /\ Receive(s, v, delay - MaxSetBack)
      BY <2>6
    <3>2. CASE Receive(s, v, delay)
      BY <2>0, <2>1, <3>2
    <3>3. CASE jumped /\ Receive(s, v, delay - MaxSetBack)
      <4>1. delay - MaxSetBack \in Int /\ delay - MaxSetBack <= MaxTransport
        BY <2>0
      <4> QED BY <2>1, <3>3, <4>1
    <3> QED BY <3>1, <3>2, <3>3
  <2> QED BY <1>2, <2>2, <2>3, <2>4, <2>5, <2>6 DEF ArbiterNext
<1> QED BY <1>1, <1>2, PTL DEF ArbiterSpec

\* A tick never passes over a source heard recently enough.
THEOREM RecentHeard == ArbiterSpec => RecentMessageIsHeard
<1>1. ASSUME ArbiterInv, Tick, NEW s \in Sources,
             silence[s] + MaxTransport <= SourceTimeout
      PROVE  Priority[output'.source] >= Priority[s]
  <2>1. s \in Fresh
    BY <1>1, ArbiterAssumption
    DEF ArbiterInv, ArbiterTypeOK, RecentIsHeld, Fresh, ArbiterAgeCap
  <2>2. Fresh \in SUBSET Sources /\ output' = Select(Fresh)
    BY <1>1 DEF Fresh, Tick
  <2>3. /\ output'.source \in Sources
        /\ Priority[s] <= Priority[output'.source]
    BY <2>1, <2>2, SelectHighest
  <2>4. Priority[s] \in Int /\ Priority[output'.source] \in Int
    BY <2>3 DEF Priority, Sources
  <2> QED BY <2>3, <2>4
<1>2. ArbiterInv => [Tick => \A s \in Sources :
                        silence[s] + MaxTransport <= SourceTimeout
                            => Priority[output'.source] >= Priority[s]]_arbiterVars
  BY <1>1
<1> QED BY <1>2, ArbiterInvariance, PTL DEF RecentMessageIsHeard

\* While the clock is true, a silent source is not forwarded.
THEOREM SilentDropped == ArbiterSpec => SilentSourceIsDropped
<1>1. ASSUME ArbiterInv, Tick, ~jumped, NEW s \in Sources,
             silence[s] > SourceTimeout
      PROVE  output'.source # s
  <2>1. s \notin Fresh
    BY <1>1, ArbiterAssumption
    DEF ArbiterInv, ArbiterTypeOK, StampsAreTrue, Fresh, ArbiterAgeCap
  <2>2. Fresh \in SUBSET Sources /\ output' = Select(Fresh)
    BY <1>1 DEF Fresh, Tick
  <2>3. CASE Fresh = {}
    BY <2>2, <2>3, SelectHighest DEF Stopped, Sources
  <2>4. CASE Fresh # {}
    BY <2>1, <2>2, <2>4, SelectHighest
  <2> QED BY <2>3, <2>4
<1>2. ArbiterInv => [Tick /\ ~jumped => \A s \in Sources :
                        silence[s] > SourceTimeout
                            => output'.source # s]_arbiterVars
  BY <1>1
<1> QED BY <1>2, ArbiterInvariance, PTL DEF SilentSourceIsDropped
=============================================================================
