--------------------------- MODULE CoreCallersProofs ---------------------------
(***************************************************************************)
(* Theorems about the two callers of the C++ core, for every value of      *)
(* their constants: the Nav2 plugin, and a robot on a straight path whose  *)
(* projections are right.  What they rely on inside the core comes from    *)
(* MpcCoreProofs: a cycle of theirs is a cycle of the core.                *)
(***************************************************************************)
EXTENDS Nav2Controller, StraightRun, MpcCoreProofs, WellFoundedInduction

-----------------------------------------------------------------------------
(***************************************************************************)
(* Arithmetic.                                                             *)
(***************************************************************************)

\* A set of naturals that is not empty has a least element.
LEMMA LeastNatural ==
    ASSUME NEW T, T \subseteq Nat, T # {}
    PROVE  \E x \in T : \A y \in T : x <= y
<1>1. IsWellFoundedOn(OpToRel(<, Nat), Nat)
  BY NatLessThanWellFounded
<1>2. PICK x \in T : \A y \in T : ~(<<y, x>> \in OpToRel(<, Nat))
  BY <1>1, WFMin
<1>3. ASSUME NEW y \in T PROVE x <= y
  <2>1. ~(<<y, x>> \in OpToRel(<, Nat))
    BY <1>2
  <2>2. x \in Nat /\ y \in Nat
    OBVIOUS
  <2>3. ~(y < x)
    BY <2>1, <2>2 DEF OpToRel
  <2>4. QED BY <2>2, <2>3
<1>4. QED BY <1>3

\* A part of 0..n that is not empty has a greatest element: the one that lacks
\* least.
LEMMA GreatestUpTo ==
    ASSUME NEW n \in Nat, NEW T, T \subseteq 0..n, T # {}
    PROVE  \E x \in T : \A y \in T : y <= x
<1> DEFINE Lacks == {n - x : x \in T}
<1>1. \A x \in T : x \in Nat /\ n - x \in Nat
  OBVIOUS
<1>2. Lacks \subseteq Nat /\ Lacks # {}
  BY <1>1
<1>3. PICK l \in Lacks : \A k \in Lacks : l <= k
  BY <1>2, LeastNatural
<1>4. PICK x \in T : l = n - x
  OBVIOUS
<1>5. ASSUME NEW y \in T PROVE y <= x
  <2>1. l <= n - y
    BY <1>3
  <2>2. QED BY <1>1, <1>4, <2>1
<1>6. QED BY <1>5

\* A square grows with the magnitude.
LEMMA SquaresGrow ==
    ASSUME NEW a \in Nat, NEW b \in Nat, a <= b
    PROVE  a * a <= b * b
<1>1. PICK d \in Nat : b = a + d
  <2>1. b - a \in Nat /\ b = a + (b - a)
    OBVIOUS
  <2>2. QED BY <2>1
<1>2. b * b = a * a + d * (2 * a + d)
  BY <1>1
<1>3. d * (2 * a + d) \in Nat
  OBVIOUS
<1>4. a * a \in Nat
  OBVIOUS
<1>5. QED BY <1>2, <1>3, <1>4

LEMMA SquareWithin ==
    ASSUME NEW w \in Int, NEW t \in Nat, -t <= w, w <= t
    PROVE  w * w <= t * t
<1>1. CASE w >= 0
  BY <1>1, SquaresGrow
<1>2. CASE w < 0
  <2>1. -w \in Nat /\ -w <= t
    BY <1>2
  <2>2. (-w) * (-w) <= t * t
    BY <2>1, SquaresGrow
  <2>3. (-w) * (-w) = w * w
    OBVIOUS
  <2>4. QED BY <2>2, <2>3
<1>3. QED BY <1>1, <1>2

\* Clamping to [-a, a] stays there, and never lifts a value above a bound it
\* already met.
LEMMA ClampWithin ==
    ASSUME NEW v \in Int, NEW a \in Nat
    PROVE  /\ Clamp(v, -a, a) \in Int
           /\ -a <= Clamp(v, -a, a)
           /\ Clamp(v, -a, a) <= a
           /\ \A p \in Nat : v <= p => Clamp(v, -a, a) <= p
BY DEF Clamp

-----------------------------------------------------------------------------
(***************************************************************************)
(* The shaped command.                                                     *)
(***************************************************************************)

LEMMA Nav2Constants ==
    /\ VMax \in Nat /\ VProbation \in Nat
    /\ QpFailMax \in Nat /\ AmbiguousMax \in Nat
    /\ ReacquireTimeoutSteps \in Nat \ {0}
    /\ SpeedLimits \subseteq Nat
    /\ NoLimit \notin Nat
BY Nav2Assumption, FallbackAssumption, MpcCoreAssumption, ReacquireAssumption
   DEF NoLimit

\* Standing still can always stop, and what can stop at one speed can at any
\* lower one.
LEMMA StopSpeeds ==
    ASSUME NEW arc \in Nat
    PROVE  /\ CanStop(0, arc)
           /\ \A w \in Int, t \in Nat :
                 -t <= w /\ w <= t /\ CanStop(t, arc) => CanStop(w, arc)
<1> DEFINE room == 2 * AMax * Greater(0, PathLength - arc - TerminalMargin)
<1>1. PathLength \in Nat /\ AMax \in Nat /\ TerminalMargin \in Nat
  BY ArcsAreNaturals, Nav2Assumption
<1>2. Greater(0, PathLength - arc - TerminalMargin) \in Nat
  BY <1>1 DEF Greater
<1>3. room \in Nat
  BY <1>1, <1>2
<1> HIDE DEF room
<1>4. \A w : CanStop(w, arc) <=> w * w <= room
  BY DEF CanStop, room
<1>5. CanStop(0, arc)
  BY <1>3, <1>4
<1>6. ASSUME NEW w \in Int, NEW t \in Nat, -t <= w, w <= t, CanStop(t, arc)
      PROVE  CanStop(w, arc)
  <2>1. w * w <= t * t /\ t * t <= room
    BY <1>4, <1>6, SquareWithin
  <2>2. w * w \in Int /\ t * t \in Int
    OBVIOUS
  <2>3. w * w <= room
    BY <1>3, <2>1, <2>2
  <2>4. QED BY <1>4, <2>3
<1>7. QED BY <1>5, <1>6

\* The speed the terminal stop leaves is one of 0..VMax that can stop.
LEMMA TerminalSpeed ==
    ASSUME NEW arc \in Nat
    PROVE  LET v_term == CHOOSE t \in 0..VMax : CanStop(t, arc)
                            /\ \A u \in 0..VMax : CanStop(u, arc) => u <= t
           IN  v_term \in 0..VMax /\ CanStop(v_term, arc)
<1> DEFINE Stopping == {t \in 0..VMax : CanStop(t, arc)}
<1>1. VMax \in Nat /\ 0 \in Stopping
  BY Nav2Constants, StopSpeeds
<1>2. PICK x \in Stopping : \A y \in Stopping : y <= x
  BY <1>1, GreatestUpTo
<1>3. \E t \in 0..VMax : CanStop(t, arc)
          /\ \A u \in 0..VMax : CanStop(u, arc) => u <= t
  BY <1>2
<1>4. QED BY <1>3

\* What the plugin makes of a result respects every limit it knows of: its own
\* speed, the external limit, probation, and the way left to the end.
LEMMA ShapedSound ==
    ASSUME NEW r \in Results, NEW arc \in Nat,
           speed_limit \in SpeedLimits \cup {NoLimit}
    PROVE  /\ Shaped(r, arc) \in Int
           /\ Shaped(r, arc) <= VMax
           /\ speed_limit # NoLimit => Shaped(r, arc) <= speed_limit
           /\ r.in_probation => Shaped(r, arc) <= VProbation
           /\ r.v_cmd <= VProbation => Shaped(r, arc) <= VProbation
           /\ CanStop(Shaped(r, arc), arc)
<1> DEFINE allow == VAllow(r)
           v == Clamp(r.v_cmd, -allow, allow)
           v_term == CHOOSE t \in 0..VMax : CanStop(t, arc)
                        /\ \A u \in 0..VMax : CanStop(u, arc) => u <= t
<1>1. v_term \in Nat /\ v_term <= VMax /\ CanStop(v_term, arc)
  BY TerminalSpeed, Nav2Constants
<1>2. Shaped(r, arc) = Clamp(v, -v_term, v_term)
  BY DEF Shaped
<1>3. /\ allow \in Nat /\ allow <= VMax
      /\ speed_limit # NoLimit => speed_limit \in Nat /\ allow <= speed_limit
      /\ r.in_probation => allow <= VProbation
  BY Nav2Constants DEF VAllow, Lesser
<1> HIDE DEF allow, v_term
<1>4. r.v_cmd \in Int
  BY DEF Results
<1>5. /\ v \in Int /\ v <= allow
      /\ r.v_cmd <= VProbation => v <= VProbation
  BY <1>3, <1>4, ClampWithin, Nav2Constants
<1> HIDE DEF v
<1> DEFINE w == Clamp(v, -v_term, v_term)
<1>6. /\ w \in Int /\ -v_term <= w /\ w <= v_term
      /\ \A p \in Nat : v <= p => w <= p
  BY <1>1, <1>5, ClampWithin
<1> HIDE DEF w
<1>7. w <= VMax /\ CanStop(w, arc)
  <2>1. w <= VMax
    BY <1>1, <1>6, Nav2Constants
  <2>2. QED BY <1>1, <1>6, <2>1, StopSpeeds
<1>8. /\ speed_limit # NoLimit => w <= speed_limit
      /\ r.in_probation => w <= VProbation
      /\ r.v_cmd <= VProbation => w <= VProbation
  BY <1>3, <1>5, <1>6, Nav2Constants
<1>9. QED
  BY <1>2, <1>6, <1>7, <1>8 DEF w

-----------------------------------------------------------------------------
(***************************************************************************)
(* The inductive invariant: the core's own two, and that the plugin's      *)
(* counters are what the history says of them.                             *)
(***************************************************************************)

\* A plan is held only with a reference, and within both limits; every entry
\* of the QP-failure run is a failed cycle of normal tracking.
RunsCounted ==
    /\ has_plan => has_reference
    /\ has_plan => qp_fail_run <= QpFailMax /\ ambiguous_run <= AmbiguousMax
    /\ qp_fail_run <= tally.failed

\* While a plan is held in SEEKING, its cycles are counted and within time.
SeekingCounted ==
    has_plan /\ reacq.mode = "SEEKING" =>
        /\ tally.beats = reacq.seeking_steps
        /\ reacq.seeking_steps <= ReacquireTimeoutSteps

\* TypeOK is part of IInv.
PluginTypeOK ==
    /\ has_plan \in BOOLEAN /\ controller \in BOOLEAN
    /\ qp_fail_run \in 0..(QpFailMax + 1)
    /\ ambiguous_run \in 0..(AmbiguousMax + 1)
    /\ speed_limit \in SpeedLimits \cup {NoLimit}
    /\ outcome \in Outcomes
    /\ tally \in [failed : 0..(QpFailMax + 1), beats : Nat]

CoreInv == IInv /\ SlowInv

PluginInv == PluginTypeOK /\ RunsCounted /\ SeekingCounted

Nav2Inv == CoreInv /\ PluginInv

LEMMA OutcomeTypes ==
    /\ \A e \in {"none", "NoValidControl", "ControllerTFError", "InvalidPath"} :
          Thrown(e) \in Outcomes
    /\ [kind |-> "none", v |-> 0] \in Outcomes
    /\ \A v \in Int : Command(v) \in Outcomes
BY DEF Thrown, Command, Outcomes

\* A plan of its own resets the core as a new reference does.
LEMMA SetPlanCore == CoreInv /\ SetPlan => CoreInv'
<1> SUFFICES ASSUME CoreInv, SetPlan PROVE CoreInv'
  OBVIOUS
<1>1. /\ hist' \in Histories /\ hist'.reach = 0
      /\ gate' \in Gates /\ gate'.accepted_arc = 0 /\ gate'.budget = 0
  BY AnchoredAtType DEF SetPlan
<1>2. reacq' \in ReacquireStates /\ reacq'.mode = "NORMAL"
  BY ReacquireTypes DEF SetPlan, CoreInv, IInv, TypeOK
<1>3. fallback' \in FallbackStates /\ fallback'.last_v = 0
  BY DEF SetPlan, ResetFallback, FallbackStates
<1>4. reject_run' = 0 /\ 0 \in 0..(MaxRejectRun + 1) /\ 0 # MaxRejectRun + 1
  BY ReacquireAssumption DEF SetPlan
<1>5. TypeOK'
  BY <1>1, <1>2, <1>3, <1>4, ResultTypes DEF SetPlan, TypeOK
<1>6. SeekingIffRunExceeded' /\ WarmStartFromThisAnchor' /\ AdvanceWithinMotion'
  BY <1>2, <1>4 DEF SetPlan, SeekingIffRunExceeded,
                    WarmStartFromThisAnchor, AdvanceWithinMotion
<1>7. ArcOnPath' /\ ProbationOpen' /\ RunIsShort' /\ EngagedWhenAnchored'
  BY <1>1, <1>2, ArcsAreNaturals
     DEF SetPlan, ArcOnPath, ProbationOpen, RunIsShort, EngagedWhenAnchored
<1>8. res'.v_cmd = 0
  BY DEF SetPlan, DefaultResult
<1>9. SlowInv'
  BY <1>3, <1>8, Nav2Constants
     DEF SlowInv, RejectedCyclesAreSlow, ProbationCapsSpeed, LadderAtRest
<1>10. QED
  BY <1>5, <1>6, <1>7, <1>9 DEF CoreInv, IInv

\* Where the core stands still its invariants do.
LEMMA CoreStutter == CoreInv /\ UNCHANGED vars => CoreInv'
BY NextInv, SlowNext DEF CoreInv

LEMMA CoreCycle == CoreInv /\ Cycle => CoreInv'
BY NextInv, SlowNext DEF CoreInv, Next

\* How a cycle counts in SEEKING: a beat beyond the timeout says so, any other
\* is a reacquire cycle and is counted, and an episode starts from none.
LEMMA SeekingBeat ==
    ASSUME IInv, has_reference, Cycle
    PROVE  /\ has_reference'
           /\ reacq.mode = "SEEKING" /\ TimedOut(reacq) => LostVerdict(res')
           /\ reacq.mode = "SEEKING" /\ ~TimedOut(reacq) =>
                 /\ res'.reacquire_seeking
                 /\ ~LostVerdict(res') /\ ~AmbiguousVerdict(res')
                 /\ reacq'.mode = "SEEKING" =>
                       reacq'.seeking_steps = CountBeat(reacq, FALSE)
           /\ reacq.mode # "SEEKING" /\ reacq'.mode = "SEEKING" =>
                 reacq'.seeking_steps = 0
<1> DEFINE Goal ==
           /\ has_reference'
           /\ reacq.mode = "SEEKING" /\ TimedOut(reacq) => LostVerdict(res')
           /\ reacq.mode = "SEEKING" /\ ~TimedOut(reacq) =>
                 /\ res'.reacquire_seeking
                 /\ ~LostVerdict(res') /\ ~AmbiguousVerdict(res')
                 /\ reacq'.mode = "SEEKING" =>
                       reacq'.seeking_steps = CountBeat(reacq, FALSE)
           /\ reacq.mode # "SEEKING" /\ reacq'.mode = "SEEKING" =>
                 reacq'.seeking_steps = 0
<1> SUFFICES Goal
  OBVIOUS
<1>1. reacq \in ReacquireStates
  BY DEF IInv, TypeOK
<1>2. CASE NoReferenceCycle
  BY <1>2 DEF NoReferenceCycle
<1>3. CASE LostCycle
  <2>1. /\ res'.health = "EMERGENCY_STOP" /\ res'.reason = "PROJECTION_LOST"
        /\ reacq.mode = "SEEKING" /\ TimedOut(reacq) /\ has_reference' = has_reference
    BY <1>3 DEF LostCycle, EmergencyStop, DefaultResult
  <2>2. QED BY <2>1 DEF LostVerdict
<1>4. ASSUME NEW seg \in Nat, NEW refused \in BOOLEAN, SeekingCycle(seg, refused)
      PROVE  Goal
  <2>1. /\ res'.health = "OK" /\ res'.reacquire_seeking
        /\ reacq.mode = "SEEKING" /\ ~TimedOut(reacq)
        /\ has_reference' = has_reference
    BY <1>4 DEF SeekingCycle, SeekingResult, DefaultResult
  <2>2. reacq'.seeking_steps = CountBeat(reacq, FALSE)
    BY <1>1, <1>4 DEF SeekingCycle, ObserveCandidate, CountBeat, ReacquireStates
  <2>3. QED BY <2>1, <2>2 DEF LostVerdict, AmbiguousVerdict
<1>5. ASSUME NEW arc \in Arcs, NEW seg \in Nat, CommitCycle(arc, seg)
      PROVE  Goal
  <2>1. /\ res'.health = "OK" /\ res'.reacquire_seeking
        /\ reacq.mode = "SEEKING" /\ ~TimedOut(reacq)
        /\ has_reference' = has_reference
    BY <1>5 DEF CommitCycle, Commits, SeekingResult, DefaultResult
  <2>2. reacq'.mode = "PROBATION"
    BY <1>1, <1>5, CommitType DEF CommitCycle, IInv, RunIsShort
  <2>3. QED BY <2>1, <2>2 DEF LostVerdict, AmbiguousVerdict
<1>6. CASE AmbiguousCycle
  BY <1>6 DEF AmbiguousCycle, core
<1>7. ASSUME NEW raw \in Arcs, NEW qp \in QpAnswers, AnchorCycle(raw, qp)
      PROVE  Goal
  <2>1. reacq.mode = "NORMAL" /\ reacq' = reacq /\ has_reference' = has_reference
    BY <1>7 DEF AnchorCycle, TickProbation, IInv, EngagedWhenAnchored
  <2>2. QED BY <2>1
<1>8. ASSUME NEW moved \in Displacements, NEW raw \in Arcs, NEW qp \in QpAnswers,
             TrackCycle(moved, raw, qp)
      PROVE  Goal
  <2>1. reacq.mode # "SEEKING" /\ has_reference' = has_reference
    BY <1>8 DEF TrackCycle
  <2>2. CASE LosesTrust(reject_run')
    <3>1. EnterSeeking(reacq).mode = "SEEKING"
      BY <1>1, ReacquireTypes
    <3>2. reacq' = EnterSeeking(reacq)
      BY <1>8, <2>2, <3>1 DEF TrackCycle, TickProbation
    <3>3. reacq'.seeking_steps = 0
      BY <1>1, <3>2 DEF EnterSeeking, ReacquireStates
    <3>4. QED BY <2>1, <3>3
  <2>3. CASE ~LosesTrust(reject_run')
    <3>1. reacq' = TickProbation(reacq)
      BY <1>8, <2>3 DEF TrackCycle
    <3>2. reacq'.mode # "SEEKING"
      BY <1>1, <2>1, <3>1, TickType DEF IInv, ProbationOpen
    <3>3. QED BY <2>1, <3>2
  <2>4. QED BY <2>2, <2>3
<1>9. \A arc \in Arcs : SegmentsAt(arc) \subseteq Nat
  BY ArcsAreNaturals
<1>10. QED
  BY <1>2, <1>3, <1>4, <1>5, <1>6, <1>7, <1>8, <1>9 DEF Cycle

\* How the history counts a cycle.
LEMMA TalliedSound ==
    ASSUME PluginTypeOK, tally' = Tallied(res')
    PROVE  /\ tally' \in [failed : 0..(QpFailMax + 1), beats : Nat]
           /\ tally.failed <= tally'.failed
           /\ ~LostVerdict(res') /\ ~AmbiguousVerdict(res')
              /\ ~Reacquiring(res') /\ res'.qp_status = "kFailed" =>
                 tally'.failed = IF tally.failed <= QpFailMax
                                 THEN tally.failed + 1 ELSE tally.failed
           /\ reacq.mode = "SEEKING" =>
                 tally'.beats = Lesser(tally.beats + 1, ReacquireTimeoutSteps + 2)
           /\ reacq.mode # "SEEKING" => tally'.beats = 0
<1>1. /\ tally.failed \in 0..(QpFailMax + 1) /\ tally.beats \in Nat
      /\ QpFailMax \in Nat /\ ReacquireTimeoutSteps \in Nat
  BY Nav2Constants DEF PluginTypeOK
<1>2. /\ tally'.failed = IF ~LostVerdict(res') /\ ~AmbiguousVerdict(res')
                            /\ ~Reacquiring(res')
                            /\ res'.qp_status = "kFailed"
                            /\ tally.failed <= QpFailMax
                         THEN tally.failed + 1 ELSE tally.failed
      /\ tally'.beats = IF reacq.mode = "SEEKING"
                        THEN Lesser(tally.beats + 1, ReacquireTimeoutSteps + 2)
                        ELSE 0
      /\ tally' = [failed |-> tally'.failed, beats |-> tally'.beats]
  BY DEF Tallied
<1>3. Lesser(tally.beats + 1, ReacquireTimeoutSteps + 2) \in Nat
  BY <1>1 DEF Lesser
<1>4. tally'.failed \in 0..(QpFailMax + 1) /\ tally.failed <= tally'.failed
  BY <1>1, <1>2
<1>5. tally'.beats \in Nat
  BY <1>2, <1>3
<1>6. tally' \in [failed : 0..(QpFailMax + 1), beats : Nat]
  BY <1>2, <1>4, <1>5
<1>7. QED
  BY <1>2, <1>4, <1>6

\* A cycle of the plugin keeps its counters what they are, whichever of the
\* four readings of the result it takes.
LEMMA ComputeInv ==
    ASSUME Nav2Inv, Compute
    PROVE  PluginInv'
<1>1. /\ CoreInv' /\ has_plan /\ controller
      /\ PluginTypeOK /\ RunsCounted /\ SeekingCounted
  BY CoreCycle DEF Nav2Inv, PluginInv, Compute
<1>2. /\ res' \in Results /\ gate'.accepted_arc \in Nat
      /\ reacq \in ReacquireStates
  BY <1>1 DEF Nav2Inv, CoreInv, IInv, TypeOK, Gates
<1>3. /\ QpFailMax \in Nat /\ AmbiguousMax \in Nat
      /\ qp_fail_run \in 0..(QpFailMax + 1) /\ qp_fail_run <= QpFailMax
      /\ ambiguous_run \in 0..(AmbiguousMax + 1) /\ ambiguous_run <= AmbiguousMax
      /\ qp_fail_run <= tally.failed
      /\ tally.failed \in 0..(QpFailMax + 1)
      /\ has_reference
  BY <1>1, Nav2Constants DEF PluginTypeOK, RunsCounted
<1>4. /\ tally' \in [failed : 0..(QpFailMax + 1), beats : Nat]
      /\ tally.failed <= tally'.failed
      /\ speed_limit' \in SpeedLimits \cup {NoLimit}
      /\ has_reference'
  BY <1>1, <1>3, TalliedSound, SeekingBeat
     DEF Compute, PluginTypeOK, Nav2Inv, CoreInv
<1>5. Shaped(res', gate'.accepted_arc) \in Int
  BY <1>1, <1>2, ShapedSound DEF PluginTypeOK
<1> DEFINE Runs ==
           /\ has_plan' \in BOOLEAN /\ controller' \in BOOLEAN
           /\ outcome' \in Outcomes
           /\ qp_fail_run' \in 0..(QpFailMax + 1)
           /\ ambiguous_run' \in 0..(AmbiguousMax + 1)
           /\ has_plan' => qp_fail_run' <= QpFailMax
                           /\ ambiguous_run' <= AmbiguousMax
           /\ qp_fail_run' <= tally'.failed
<1>6. tally'.failed \in Nat
  BY <1>4
<1>7. \A v \in Int : KeepPlan(v) =>
          has_plan' \in BOOLEAN /\ controller' \in BOOLEAN /\ outcome' \in Outcomes
  BY <1>1, OutcomeTypes DEF KeepPlan, PluginTypeOK
<1>8. ClearPlan =>
          ~has_plan' /\ has_plan' \in BOOLEAN /\ controller' \in BOOLEAN
          /\ outcome' \in Outcomes
  BY OutcomeTypes DEF ClearPlan
<1>9. ASSUME OnLost PROVE Runs
  BY <1>3, <1>4, <1>6, <1>8, <1>9 DEF OnLost
<1>10. ASSUME OnAmbiguous PROVE Runs
  <2>1. ambiguous_run' = ambiguous_run + 1 /\ qp_fail_run' = qp_fail_run
    BY <1>10 DEF OnAmbiguous
  <2>2. \/ ambiguous_run' > AmbiguousMax /\ ClearPlan
        \/ ambiguous_run' <= AmbiguousMax /\ KeepPlan(0)
    BY <1>3, <1>10, <2>1 DEF OnAmbiguous
  <2>3. /\ outcome' \in Outcomes
        /\ has_plan' \in BOOLEAN /\ controller' \in BOOLEAN
        /\ has_plan' => ambiguous_run' <= AmbiguousMax
    BY <1>7, <1>8, <2>2
  <2>4. QED BY <1>3, <1>4, <1>6, <2>1, <2>3
<1>11. ASSUME OnReacquire(res') PROVE Runs
  BY <1>3, <1>4, <1>5, <1>6, <1>7, <1>11 DEF OnReacquire
<1>12. ASSUME OnTracking(res'), ~LostVerdict(res'), ~AmbiguousVerdict(res'),
              ~Reacquiring(res')
       PROVE  Runs
  <2>1. qp_fail_run' = Recorded(res') /\ ambiguous_run' = ambiguous_run
    BY <1>12 DEF OnTracking
  <2>2. \/ qp_fail_run' > QpFailMax /\ res'.qp_status = "kFailed" /\ ClearPlan
        \/ ~(qp_fail_run' > QpFailMax /\ res'.qp_status = "kFailed")
           /\ KeepPlan(Shaped(res', gate'.accepted_arc))
    BY <1>12 DEF OnTracking
  <2>3. CASE res'.qp_status = "kFailed"
    <3>1. qp_fail_run' = qp_fail_run + 1
      BY <2>1, <2>3 DEF Recorded
    <3>2. tally'.failed = IF tally.failed <= QpFailMax
                          THEN tally.failed + 1 ELSE tally.failed
      BY <1>1, <1>12, <2>3, TalliedSound DEF Compute
    <3>3. qp_fail_run' <= tally'.failed
      BY <1>3, <3>1, <3>2
    <3>4. /\ outcome' \in Outcomes
          /\ has_plan' \in BOOLEAN /\ controller' \in BOOLEAN
          /\ has_plan' => ~(qp_fail_run' > QpFailMax)
      BY <1>5, <1>7, <1>8, <2>2, <2>3
    <3>5. QED BY <1>3, <2>1, <3>1, <3>3, <3>4
  <2>4. CASE res'.qp_status # "kFailed"
    <3>1. qp_fail_run' \in 0..qp_fail_run
      BY <1>3, <2>1, <2>4 DEF Recorded
    <3>2. KeepPlan(Shaped(res', gate'.accepted_arc))
      BY <2>2, <2>4
    <3>3. /\ outcome' \in Outcomes
          /\ has_plan' \in BOOLEAN /\ controller' \in BOOLEAN
      BY <1>5, <1>7, <3>2
    <3>4. QED BY <1>3, <1>4, <1>6, <2>1, <3>1, <3>3
  <2>5. QED BY <2>3, <2>4
<1>13. Runs
  BY <1>9, <1>10, <1>11, <1>12 DEF Compute
<1>14. SeekingCounted'
  <2> SUFFICES ASSUME has_plan', reacq'.mode = "SEEKING"
               PROVE  /\ tally'.beats = reacq'.seeking_steps
                      /\ reacq'.seeking_steps <= ReacquireTimeoutSteps
    BY DEF SeekingCounted
  <2>1. ~LostVerdict(res')
    BY <1>8 DEF Compute, OnLost, LostVerdict, AmbiguousVerdict
  <2>2. /\ reacq.mode = "SEEKING" => ~TimedOut(reacq)
        /\ reacq.mode = "SEEKING" =>
              reacq'.seeking_steps = CountBeat(reacq, FALSE)
        /\ reacq.mode # "SEEKING" => reacq'.seeking_steps = 0
    BY <1>3, <2>1, SeekingBeat DEF Compute, Nav2Inv, CoreInv
  <2>3. CASE reacq.mode # "SEEKING"
    BY <1>1, <2>2, <2>3, Nav2Constants, TalliedSound DEF Compute
  <2>4. CASE reacq.mode = "SEEKING"
    <3>1. tally.beats = reacq.seeking_steps /\ reacq.seeking_steps \in Nat
      BY <1>1, <1>2, <2>4 DEF SeekingCounted, ReacquireStates
    <3>2. tally'.beats = Lesser(tally.beats + 1, ReacquireTimeoutSteps + 2)
      BY <1>1, <2>4, TalliedSound DEF Compute
    <3>3. reacq.seeking_steps + 1 <= ReacquireTimeoutSteps
      BY <2>2, <2>4, <3>1, Nav2Constants DEF TimedOut
    <3>4. QED
      BY <2>2, <2>4, <3>1, <3>2, <3>3, Nav2Constants DEF CountBeat, Lesser
  <2>5. QED BY <2>3, <2>4
<1>15. QED
  BY <1>4, <1>13, <1>14 DEF PluginInv, PluginTypeOK, RunsCounted

\* The calls that compute nothing.
LEMMA OtherCallsInv ==
    ASSUME Nav2Inv,
           \/ SetPlan \/ RefusePlan \/ SetSpeedLimit \/ Cleanup
           \/ ComputeWithoutPlan \/ ComputeWithoutTransform
    PROVE  Nav2Inv'
<1>1. CoreInv /\ PluginTypeOK /\ RunsCounted /\ SeekingCounted
  BY DEF Nav2Inv, PluginInv
<1>2. CASE SetPlan
  <2>1. CoreInv'
    BY <1>1, <1>2, SetPlanCore
  <2>2. /\ has_plan' = TRUE /\ controller' = TRUE /\ has_reference' = TRUE
        /\ qp_fail_run' = 0 /\ ambiguous_run' = 0 /\ speed_limit' = speed_limit
        /\ outcome' \in Outcomes
        /\ tally' = [failed |-> 0, beats |-> 0]
        /\ reacq'.mode = "NORMAL"
    BY <1>2, OutcomeTypes DEF SetPlan, FreshReacquire
  <2>3. PluginTypeOK'
    BY <1>1, <2>2, Nav2Constants DEF PluginTypeOK
  <2>4. RunsCounted' /\ SeekingCounted'
    BY <2>2, Nav2Constants DEF RunsCounted, SeekingCounted
  <2>5. QED BY <2>1, <2>3, <2>4 DEF Nav2Inv, PluginInv
<1>3. CASE RefusePlan \/ SetSpeedLimit \/ Cleanup
           \/ ComputeWithoutPlan \/ ComputeWithoutTransform
  <2>1. /\ UNCHANGED <<vars, has_plan, qp_fail_run, ambiguous_run, tally>>
        /\ controller' \in BOOLEAN
        /\ speed_limit' \in SpeedLimits \cup {NoLimit}
        /\ outcome' \in Outcomes
    BY <1>1, <1>3, OutcomeTypes
       DEF RefusePlan, SetSpeedLimit, Cleanup, ComputeWithoutPlan,
           ComputeWithoutTransform, plugin, PluginTypeOK
  <2>2. CoreInv'
    BY <1>1, <2>1, CoreStutter
  <2>3. UNCHANGED <<has_reference, reacq>>
    BY <2>1 DEF vars, core
  <2>4. PluginTypeOK' /\ RunsCounted' /\ SeekingCounted'
    BY <1>1, <2>1, <2>3 DEF PluginTypeOK, RunsCounted, SeekingCounted
  <2>5. QED BY <2>2, <2>4 DEF Nav2Inv, PluginInv
<1>4. QED BY <1>2, <1>3

LEMMA Nav2InitInv == Nav2Init => Nav2Inv
<1> SUFFICES ASSUME Nav2Init PROVE Nav2Inv
  OBVIOUS
<1>1. CoreInv
  BY InitInv, SlowInit DEF Nav2Init, CoreInv
<1>2. PluginTypeOK
  <2>1. outcome \in Outcomes /\ speed_limit \in SpeedLimits \cup {NoLimit}
    BY OutcomeTypes DEF Nav2Init
  <2>2. 0 \in 0..(QpFailMax + 1) /\ 0 \in 0..(AmbiguousMax + 1)
    BY Nav2Constants
  <2>3. QED BY <2>1, <2>2 DEF Nav2Init, PluginTypeOK
<1>3. RunsCounted /\ SeekingCounted
  BY DEF Nav2Init, RunsCounted, SeekingCounted
<1>4. QED BY <1>1, <1>2, <1>3 DEF Nav2Inv, PluginInv

LEMMA Nav2StepInv == Nav2Inv /\ [Nav2Next]_nav2Vars => Nav2Inv'
<1> SUFFICES ASSUME Nav2Inv, [Nav2Next]_nav2Vars PROVE Nav2Inv'
  OBVIOUS
<1>1. CASE Compute
  BY <1>1, ComputeInv, CoreCycle DEF Nav2Inv, Compute
<1>2. CASE SetPlan \/ RefusePlan \/ SetSpeedLimit \/ Cleanup
           \/ ComputeWithoutPlan \/ ComputeWithoutTransform
  BY <1>2, OtherCallsInv
<1>3. CASE UNCHANGED nav2Vars
  <2>1. UNCHANGED <<vars, has_plan, controller, qp_fail_run, ambiguous_run,
                    speed_limit, outcome, tally>>
    BY <1>3 DEF nav2Vars, plugin
  <2>2. UNCHANGED <<has_reference, reacq>>
    BY <2>1 DEF vars, core
  <2>3. CoreInv'
    BY <2>1, CoreStutter DEF Nav2Inv
  <2>4. PluginTypeOK' /\ RunsCounted' /\ SeekingCounted'
    BY <2>1, <2>2
       DEF Nav2Inv, PluginInv, PluginTypeOK, RunsCounted, SeekingCounted
  <2>5. QED BY <2>3, <2>4 DEF Nav2Inv, PluginInv
<1>4. QED BY <1>1, <1>2, <1>3 DEF Nav2Next

\* The plugin's counters, and the core under it, keep their invariant.
THEOREM Nav2Invariance == Nav2Spec => []Nav2Inv
BY Nav2InitInv, Nav2StepInv, PTL DEF Nav2Spec

\* Every variable of the plugin keeps its type; the runs never pass the limits
\* they are compared with by more than the one that gives the plan up.
THEOREM Nav2TypeCorrect == Nav2Spec => []Nav2TypeOK
<1>1. Nav2Inv => Nav2TypeOK
  BY DEF Nav2Inv, CoreInv, PluginInv, IInv, PluginTypeOK, Nav2TypeOK
<1>2. QED BY <1>1, Nav2Invariance, PTL

-----------------------------------------------------------------------------
(***************************************************************************)
(* What the plugin promises.                                               *)
(***************************************************************************)

\* Only a cycle gives a plan up.
LEMMA OnlyComputeGivesUp ==
    ASSUME [Nav2Next]_nav2Vars, has_plan, ~has_plan'
    PROVE  Compute
BY DEF Nav2Next, nav2Vars, plugin, SetPlan, RefusePlan, SetSpeedLimit, Cleanup,
       ComputeWithoutPlan, ComputeWithoutTransform

\* Only a cycle hands out a command while the core moves.
LEMMA OnlyComputeCommands ==
    ASSUME [Nav2Next]_nav2Vars, outcome'.kind = "command", vars' # vars
    PROVE  Compute
<1>1. CASE SetPlan
  BY <1>1 DEF SetPlan
<1>2. QED
  BY <1>1 DEF Nav2Next, nav2Vars, RefusePlan, SetSpeedLimit, Cleanup,
              ComputeWithoutPlan, ComputeWithoutTransform

\* A plan is given up for QP failures only after more than QpFailMax failed
\* cycles of normal tracking.
THEOREM AbortSound == Nav2Spec => AbortNeedsNormalFailures
<1>1. ASSUME Nav2Inv, [Nav2Next]_nav2Vars, has_plan, ~has_plan',
             ~LostVerdict(res'), ~AmbiguousVerdict(res')
      PROVE  tally'.failed > QpFailMax
  <2>1. Compute
    BY <1>1, OnlyComputeGivesUp
  <2>2. OnReacquire(res') => has_plan'
    BY <1>1 DEF OnReacquire, KeepPlan
  <2>3. ~Reacquiring(res') /\ OnTracking(res')
    BY <1>1, <2>1, <2>2 DEF Compute
  <2>4. qp_fail_run' > QpFailMax /\ res'.qp_status = "kFailed"
    BY <1>1, <2>3 DEF OnTracking, KeepPlan
  <2>5. qp_fail_run' = qp_fail_run + 1
    BY <2>3, <2>4 DEF OnTracking, Recorded
  <2>6. tally'.failed = IF tally.failed <= QpFailMax
                        THEN tally.failed + 1 ELSE tally.failed
    BY <1>1, <2>1, <2>3, <2>4, TalliedSound DEF Compute, Nav2Inv, PluginInv
  <2>7. /\ qp_fail_run <= tally.failed /\ qp_fail_run \in Nat
        /\ tally.failed \in Nat /\ QpFailMax \in Nat
    BY <1>1, Nav2Constants DEF Nav2Inv, PluginInv, PluginTypeOK, RunsCounted
  <2>8. QED BY <2>4, <2>5, <2>6, <2>7
<1>2. Nav2Inv /\ [Nav2Next]_nav2Vars =>
        [(outcome'.kind = "NoValidControl" /\ has_plan /\ ~has_plan'
          /\ ~LostVerdict(res') /\ ~AmbiguousVerdict(res'))
          => tally'.failed > QpFailMax]_nav2Vars
  BY <1>1
<1>3. QED
  BY <1>2, Nav2Invariance, PTL DEF Nav2Spec, AbortNeedsNormalFailures

\* SEEKING is given all its cycles before the plan is thrown away.
THEOREM SeekingTimeSound == Nav2Spec => SeekingHasItsTime
<1>1. ASSUME Nav2Inv, [Nav2Next]_nav2Vars, has_plan, ~has_plan',
             reacq.mode = "SEEKING"
      PROVE  tally'.beats = ReacquireTimeoutSteps + 1
  <2>1. Compute
    BY <1>1, OnlyComputeGivesUp
  <2>2. IInv /\ Cycle /\ has_reference
    BY <1>1, <2>1
       DEF Nav2Inv, CoreInv, PluginInv, RunsCounted, Compute
  <2>3. TimedOut(reacq)
    <3>1. SUFFICES ASSUME ~TimedOut(reacq) PROVE FALSE
      OBVIOUS
    <3>2. Reacquiring(res') /\ ~LostVerdict(res') /\ ~AmbiguousVerdict(res')
      BY <1>1, <2>2, <3>1, SeekingBeat DEF Reacquiring
    <3>3. OnReacquire(res')
      BY <2>1, <3>2 DEF Compute
    <3>4. QED BY <1>1, <3>3 DEF OnReacquire, KeepPlan
  <2>4. /\ tally.beats = reacq.seeking_steps
        /\ reacq.seeking_steps <= ReacquireTimeoutSteps
        /\ reacq.seeking_steps \in Nat /\ ReacquireTimeoutSteps \in Nat
    BY <1>1, Nav2Constants DEF Nav2Inv, CoreInv, IInv, TypeOK, ReacquireStates,
                               PluginInv, SeekingCounted
  <2>5. tally'.beats = Lesser(tally.beats + 1, ReacquireTimeoutSteps + 2)
    BY <1>1, <2>1, TalliedSound DEF Compute, Nav2Inv, PluginInv
  <2>6. reacq.seeking_steps = ReacquireTimeoutSteps
    BY <2>3, <2>4 DEF TimedOut
  <2>7. QED BY <2>4, <2>5, <2>6 DEF Lesser
<1>2. Nav2Inv /\ [Nav2Next]_nav2Vars =>
        [(reacq.mode = "SEEKING" /\ has_plan /\ ~has_plan')
          => tally'.beats = ReacquireTimeoutSteps + 1]_nav2Vars
  BY <1>1
<1>3. QED
  BY <1>2, Nav2Invariance, PTL DEF Nav2Spec, SeekingHasItsTime

\* What a cycle that keeps the plan commands: nothing, or the shaped speed.
LEMMA CommandOfCycle ==
    ASSUME Compute, outcome'.kind = "command"
    PROVE  outcome'.v \in {0, Shaped(res', gate'.accepted_arc)}
<1>1. ~ClearPlan
  BY DEF ClearPlan, Thrown
<1>2. KeepPlan(0) \/ KeepPlan(Shaped(res', gate'.accepted_arc))
  BY <1>1 DEF Compute, OnLost, OnAmbiguous, OnReacquire, OnTracking
<1>3. QED BY <1>2 DEF KeepPlan, Command

\* Every command respects the controller's limit, the external one, the
\* probation and reject caps and the distance left to stop in.
THEOREM CommandSound == Nav2Spec => CommandRespectsEveryLimit
<1> DEFINE Respected ==
        /\ outcome'.v <= VMax
        /\ speed_limit # NoLimit => outcome'.v <= speed_limit
        /\ res'.in_probation \/ reject_run' > 0 => outcome'.v <= VProbation
        /\ CanStop(outcome'.v, gate'.accepted_arc)
<1>1. ASSUME Nav2Inv, Nav2Inv', [Nav2Next]_nav2Vars,
             outcome'.kind = "command", vars' # vars
      PROVE  Respected
  <2>1. Compute
    BY <1>1, OnlyComputeCommands
  <2>2. /\ res' \in Results /\ gate'.accepted_arc \in Nat
        /\ reject_run' \in Nat /\ res'.v_cmd \in Int
    BY <1>1, ReacquireAssumption
       DEF Nav2Inv, CoreInv, IInv, TypeOK, Gates, Results
  <2>3. speed_limit \in SpeedLimits \cup {NoLimit}
    BY <1>1 DEF Nav2Inv, PluginInv, PluginTypeOK
  <2>4. reject_run' > 0 => res'.v_cmd <= VProbation
    BY <1>1, <2>2, Nav2Constants
       DEF Nav2Inv, CoreInv, SlowInv, RejectedCyclesAreSlow
  <2>5. CASE outcome'.v = 0
    <3>1. speed_limit # NoLimit => 0 <= speed_limit
      BY <2>3, Nav2Constants
    <3>2. QED BY <2>2, <2>5, <3>1, StopSpeeds, Nav2Constants
  <2>6. CASE outcome'.v = Shaped(res', gate'.accepted_arc)
    BY <2>2, <2>3, <2>4, <2>6, ShapedSound
  <2>7. QED BY <1>1, <2>1, <2>5, <2>6, CommandOfCycle
<1>2. Nav2Inv /\ Nav2Inv' /\ [Nav2Next]_nav2Vars =>
        [outcome'.kind = "command" /\ vars' # vars => Respected]_nav2Vars
  BY <1>1
<1>3. QED
  BY <1>2, Nav2Invariance, PTL DEF Nav2Spec, CommandRespectsEveryLimit

-----------------------------------------------------------------------------
(***************************************************************************)
(* A robot on a straight path.                                             *)
(***************************************************************************)

runVars == <<vars, world>>

\* A rejection leaves the robot beyond the margin and everything in the bank,
\* measured from the pose the gate recorded last.
DeficitStands ==
    gate_initialized /\ reject_run > 0 =>
        /\ gate.has_last_pose
        /\ last_pose - gate.accepted_arc > Margin + gate.budget

\* The anchor is never ahead of the robot and lags by unseen motion only.
AnchorTrails ==
    gate_initialized =>
        /\ gate.accepted_arc <= pos
        /\ reject_run = 0 => pos - gate.accepted_arc <= missed * MaxStep

WorldOK ==
    /\ pos \in Arcs /\ pos \in Nat
    /\ last_pose \in Nat /\ last_pose <= pos
    /\ missed \in Nat

RunInv == IInv /\ WorldOK /\ AnchorTrails /\ DeficitStands

LEMMA RunConstants ==
    Margin \in Nat /\ AllowanceCap \in Nat /\ StepCap \in Nat /\ MaxStep \in Nat
    /\ MaxRejectRun \in Nat /\ Port = "cpp"
BY GateAssumption, StraightRunAssumption, ReacquireAssumption

\* One period more without seeing the pose is one step more of lag.
LEMMA ProductStep ==
    ASSUME NEW n \in Nat, NEW s \in Nat
    PROVE  n * s \in Nat /\ (n + 1) * s = n * s + s
OBVIOUS

\* Forward motion cannot work off a deficit: it enters the bank no faster than
\* it enters the distance to the anchor.
LEMMA DeficitIsNeverWorkedOff ==
    ASSUME NEW g \in Gates, NEW moved \in Nat, NEW last \in Nat,
           last - g.accepted_arc > Margin + g.budget
    PROVE  ~Accepts(g, moved, last + moved)
<1>1. /\ g.accepted_arc \in Nat /\ g.budget \in Nat
      /\ Margin \in Nat /\ AllowanceCap \in Nat /\ StepCap \in Nat
  BY RunConstants DEF Gates
<1>2. PhysicalDs(g, moved) \in Nat /\ PhysicalDs(g, moved) <= moved
  BY <1>1 DEF PhysicalDs, Lesser, Greater
<1>3. Banked(g, moved) <= g.budget + moved /\ Banked(g, moved) \in Nat
  BY <1>1, <1>2 DEF Banked, Lesser
<1>4. QED
  BY <1>1, <1>3 DEF Accepts

\* What a gate cycle does to the lag and to the deficit.
LEMMA GateStepLag ==
    ASSUME NEW g \in Gates, NEW moved \in Int, NEW raw \in Nat
    PROVE  LET n == GateStep(g, moved, raw) IN
           /\ g.accepted_arc <= raw => n.accepted_arc <= raw
           /\ Accepts(g, moved, raw) => raw <= n.accepted_arc
           /\ ~Accepts(g, moved, raw) =>
                 n.has_last_pose /\ raw - n.accepted_arc > Margin + n.budget
<1>1. g.accepted_arc \in Nat /\ g.budget \in 0..AllowanceCap
  BY DEF Gates
<1>2. Banked(g, moved) \in Int
  BY <1>1, RunConstants DEF Banked, PhysicalDs, Lesser, Greater
<1>3. QED
  BY <1>1, <1>2, RunConstants
     DEF GateStep, AcceptedArc, SpentBudget, Accepts, Greater

\* On the C++ side the gate has the last word.
LEMMA NeverBackward ==
    ASSUME NEW moved, NEW raw
    PROVE  /\ Believed(moved, raw) <=> Accepts(gate, moved, raw)
           /\ GateAfter(moved, raw) = GateStep(gate, moved, raw)
<1>1. ~Backward(raw)
  BY RunConstants DEF Backward
<1>2. QED BY <1>1 DEF Believed, GateAfter

LEMMA RunInitInv == RunInit => RunInv
<1> SUFFICES ASSUME RunInit PROVE RunInv
  OBVIOUS
<1>1. IInv /\ WorldOK
  BY InitInv, ArcsAreNaturals DEF RunInit, WorldOK
<1>2. ~gate_initialized
  BY DEF RunInit, Init
<1>3. QED BY <1>1, <1>2 DEF RunInv, AnchorTrails, DeficitStands

\* A cycle against an anchor accepts, and is where the robot is, or rejects,
\* and leaves a deficit; once there is one, it rejects.
LEMMA DriveTrackStep ==
    ASSUME RunInv, NEW d \in Steps, NEW qp \in QpAnswers, DriveTrack(d, qp)
    PROVE  RunInv' /\ (reject_run > 0 => reject_run' > 0)
<1> DEFINE moved == pos' - last_pose
<1>1. /\ IInv /\ WorldOK /\ DeficitStands
      /\ TrackCycle(moved, pos', qp)
      /\ last_pose' = pos' /\ missed' = 0
      /\ gate_initialized
  BY DEF RunInv, DriveTrack, TrackCycle
<1>2. d \in Nat /\ pos' = pos + d /\ pos' \in Arcs
  BY RunConstants DEF DriveTrack, Advance, Steps
<1>3. /\ pos' \in Nat /\ moved \in Nat /\ pos' = last_pose + moved
      /\ WorldOK'
  BY <1>1, <1>2 DEF WorldOK
<1>4. /\ gate \in Gates /\ reject_run \in Nat
      /\ last_pose \in Nat
  BY <1>1, RunConstants DEF IInv, TypeOK, WorldOK
<1>5. IInv'
  <2>1. moved \in Int
    BY <1>3
  <2>2. QED BY <1>1, <1>2, <2>1, TrackInv
<1>6. /\ gate' = GateStep(gate, moved, pos')
      /\ reject_run' = IF Accepts(gate, moved, pos') THEN 0 ELSE reject_run + 1
  BY <1>1, NeverBackward DEF TrackCycle, RejectRun
<1> HIDE DEF moved
<1>7. gate'.accepted_arc \in Nat /\ gate'.accepted_arc <= pos'
  <2>1. gate'.accepted_arc \in Nat /\ gate.accepted_arc \in Nat
    BY <1>1, <1>5 DEF IInv, TypeOK, Gates
  <2>2. gate.accepted_arc <= pos'
    BY <1>1, <1>2, <2>1 DEF RunInv, WorldOK, AnchorTrails
  <2>3. QED BY <1>3, <1>4, <1>6, <2>1, <2>2, GateStepLag
<1>8. CASE Accepts(gate, moved, pos')
  <2>1. reject_run = 0
    <3>1. SUFFICES ASSUME reject_run > 0 PROVE FALSE
      BY <1>4
    <3>2. last_pose - gate.accepted_arc > Margin + gate.budget
      BY <1>1, <3>1 DEF DeficitStands
    <3>3. QED BY <1>3, <1>4, <1>8, <3>2, DeficitIsNeverWorkedOff
  <2>2. pos' <= gate'.accepted_arc
    BY <1>3, <1>4, <1>6, <1>8, GateStepLag
  <2>3. pos' - gate'.accepted_arc <= missed' * MaxStep
    <3>1. missed' * MaxStep = 0
      BY <1>1, RunConstants
    <3>2. QED BY <1>3, <1>7, <2>2, <3>1
  <2>4. AnchorTrails' /\ DeficitStands'
    BY <1>6, <1>7, <1>8, <2>3 DEF AnchorTrails, DeficitStands
  <2>5. QED BY <1>3, <1>5, <2>1, <2>4 DEF RunInv
<1>9. CASE ~Accepts(gate, moved, pos')
  <2>1. reject_run' > 0
    BY <1>4, <1>6, <1>9
  <2>2. /\ gate'.has_last_pose
        /\ pos' - gate'.accepted_arc > Margin + gate'.budget
    BY <1>3, <1>4, <1>6, <1>9, GateStepLag
  <2>3. AnchorTrails' /\ DeficitStands'
    BY <1>1, <1>7, <2>1, <2>2 DEF AnchorTrails, DeficitStands
  <2>4. QED BY <1>3, <1>5, <2>1, <2>3 DEF RunInv
<1>10. QED BY <1>8, <1>9

\* A new anchor is where the robot is, and the gate knows no pose.
LEMMA DriveAnchorStep ==
    ASSUME RunInv, NEW d \in Steps, NEW qp \in QpAnswers, DriveAnchor(d, qp)
    PROVE  RunInv' /\ ~gate'.has_last_pose
<1>1. /\ AnchorCycle(pos', qp) /\ missed' = 0 /\ last_pose' = last_pose
      /\ IInv /\ WorldOK
  BY DEF RunInv, DriveAnchor
<1>2. d \in Nat /\ pos' = pos + d /\ pos' \in Arcs
  BY RunConstants DEF DriveAnchor, Advance, Steps
<1>3. WorldOK' /\ IInv'
  BY <1>1, <1>2, AnchorInv DEF WorldOK
<1>4. /\ gate' = AnchoredGate(pos') /\ reject_run' = 0
      /\ gate'.accepted_arc = pos' /\ ~gate'.has_last_pose
  BY <1>1, RunConstants DEF AnchorCycle, AnchoredGate, ResetGate
<1>5. gate'.accepted_arc <= pos' /\ pos' - gate'.accepted_arc <= missed' * MaxStep
  <2>1. missed' * MaxStep = 0
    BY <1>1, RunConstants
  <2>2. pos' \in Nat
    BY <1>3 DEF WorldOK
  <2>3. QED BY <1>4, <2>1, <2>2
<1>6. QED
  BY <1>3, <1>4, <1>5 DEF RunInv, AnchorTrails, DeficitStands

\* A period the gate does not see adds one step to the lag.
LEMMA DriveUnseenStep ==
    ASSUME RunInv, NEW d \in Steps, DriveUnseen(d)
    PROVE  RunInv' /\ reject_run' = reject_run
<1>1. /\ UNCHANGED core /\ missed' = missed + 1 /\ last_pose' = last_pose
      /\ IInv /\ WorldOK /\ AnchorTrails /\ DeficitStands
  BY DEF RunInv, DriveUnseen, AmbiguousCycle, vars
<1>2. d \in Nat /\ d <= MaxStep /\ pos' = pos + d /\ MaxStep \in Nat
  BY RunConstants DEF DriveUnseen, Advance, Steps
<1>3. IInv'
  BY <1>1, ReportInv, NextInv DEF DriveUnseen
<1>4. WorldOK'
  <2>1. pos' \in Arcs
    BY DEF DriveUnseen, Advance
  <2>2. QED BY <1>1, <1>2, <2>1 DEF WorldOK
<1>5. UNCHANGED <<gate, gate_initialized, reject_run>>
  BY <1>1 DEF core
<1>6. DeficitStands'
  BY <1>1, <1>5 DEF DeficitStands
<1>7. AnchorTrails'
  <2> SUFFICES ASSUME gate_initialized
               PROVE  /\ gate.accepted_arc <= pos'
                      /\ reject_run = 0 =>
                            pos' - gate.accepted_arc <= missed' * MaxStep
    BY <1>5 DEF AnchorTrails
  <2>1. /\ gate.accepted_arc <= pos
        /\ reject_run = 0 => pos - gate.accepted_arc <= missed * MaxStep
    BY <1>1 DEF AnchorTrails
  <2>2. /\ missed * MaxStep \in Nat
        /\ missed' * MaxStep = missed * MaxStep + MaxStep
    BY <1>1, <1>2, ProductStep DEF WorldOK
  <2>3. pos \in Nat /\ gate.accepted_arc \in Nat
    BY <1>1 DEF WorldOK, IInv, TypeOK, Gates
  <2>4. QED BY <1>2, <2>1, <2>2, <2>3
<1>8. QED BY <1>3, <1>4, <1>5, <1>6, <1>7 DEF RunInv

\* In SEEKING the robot stands; a commit anchors where it stands.
LEMMA DriveSeekStep ==
    ASSUME RunInv, DriveSeek
    PROVE  /\ RunInv'
           /\ reject_run' = reject_run \/ ~gate'.has_last_pose
<1>1. /\ IInv /\ WorldOK /\ AnchorTrails /\ DeficitStands
      /\ UNCHANGED <<pos, last_pose, missed>>
  BY DEF RunInv, DriveSeek, world
<1>2. WorldOK'
  BY <1>1 DEF WorldOK
<1>3. SegmentsAt(pos) \subseteq Nat
  BY ArcsAreNaturals, MpcCoreAssumption DEF SegmentsAt
<1>4. CASE LostCycle \/ \E seg \in Nat, refused \in BOOLEAN : SeekingCycle(seg, refused)
  <2>1. UNCHANGED <<gate, gate_initialized, reject_run>>
    BY <1>4 DEF LostCycle, SeekingCycle
  <2>2. IInv'
    BY <1>1, <1>4, LostInv, SeekingInv
  <2>3. AnchorTrails' /\ DeficitStands'
    BY <1>1, <2>1 DEF AnchorTrails, DeficitStands
  <2>4. QED BY <1>2, <2>1, <2>2, <2>3 DEF RunInv
<1>5. ASSUME NEW seg \in Nat, CommitCycle(pos, seg)
      PROVE  RunInv' /\ ~gate'.has_last_pose
  <2>1. /\ gate' = AnchoredGate(pos) /\ reject_run' = 0
        /\ gate'.accepted_arc = pos /\ ~gate'.has_last_pose
    BY <1>5, RunConstants DEF CommitCycle, Reanchor, AnchoredGate, ResetGate
  <2>2. gate'.accepted_arc <= pos' /\ pos' - gate'.accepted_arc <= missed' * MaxStep
    <3>1. missed * MaxStep \in Nat /\ pos \in Nat
      BY <1>1, RunConstants, ProductStep DEF WorldOK
    <3>2. QED BY <1>1, <2>1, <3>1
  <2>3. AnchorTrails' /\ DeficitStands'
    BY <2>1, <2>2 DEF AnchorTrails, DeficitStands
  <2>4. IInv'
    BY <1>1, <1>5, CommitInv DEF WorldOK
  <2>5. QED BY <1>2, <2>1, <2>3, <2>4 DEF RunInv
<1>6. QED BY <1>3, <1>4, <1>5 DEF DriveSeek

\* A new path has no anchor yet.
LEMMA NewPathStep ==
    ASSUME RunInv, NewPath
    PROVE  RunInv' /\ ~gate'.has_last_pose
<1>1. IInv'
  BY SetReferenceInv DEF RunInv, NewPath
<1>2. WorldOK'
  BY DEF RunInv, NewPath, world, WorldOK
<1>3. ~gate_initialized' /\ ~gate'.has_last_pose
  BY DEF NewPath, SetReference, ResetGate
<1>4. QED BY <1>1, <1>2, <1>3 DEF RunInv, AnchorTrails, DeficitStands

LEMMA RunStep ==
    ASSUME RunInv, [RunNext]_runVars
    PROVE  /\ RunInv'
           /\ reject_run > 0 /\ reject_run' = 0 => ~gate'.has_last_pose
<1>1. CASE UNCHANGED runVars
  <2>1. UNCHANGED <<vars, pos, last_pose, missed>>
    BY <1>1 DEF runVars, world
  <2>2. IInv'
    BY <2>1, NextInv DEF RunInv
  <2>3. UNCHANGED <<gate, gate_initialized, reject_run>>
    BY <2>1 DEF vars, core
  <2>4. QED
    BY <2>1, <2>2, <2>3 DEF RunInv, WorldOK, AnchorTrails, DeficitStands
<1>2. CASE RunNext
  <2>1. ASSUME NEW d \in Steps, NEW qp \in QpAnswers, DriveAnchor(d, qp)
        PROVE  RunInv' /\ ~gate'.has_last_pose
    BY <2>1, DriveAnchorStep
  <2>2. ASSUME NEW d \in Steps, NEW qp \in QpAnswers, DriveTrack(d, qp)
        PROVE  RunInv' /\ (reject_run > 0 => reject_run' > 0)
    BY <2>2, DriveTrackStep
  <2>3. ASSUME NEW d \in Steps, DriveUnseen(d)
        PROVE  RunInv' /\ reject_run' = reject_run
    BY <2>3, DriveUnseenStep
  <2>4. CASE DriveSeek
    BY <2>4, DriveSeekStep
  <2>5. CASE NewPath
    BY <2>5, NewPathStep
  <2>6. QED
    BY <1>2, <2>1, <2>2, <2>3, <2>4, <2>5 DEF RunNext
<1>3. QED BY <1>1, <1>2

THEOREM RunInvariance == RunSpec => []RunInv
<1>1. RunInv /\ [RunNext]_<<vars, world>> => RunInv'
  BY RunStep DEF runVars
<1>2. QED BY <1>1, RunInitInv, PTL DEF RunSpec

\* The anchor is never ahead of an honest robot; while nothing is being rejected
\* it lags by the motion of the unseen periods, and by no more; and while
\* something is, by more than the margin and the bank account for.
THEOREM LagSound == RunSpec => []LagIsUnseenMotion
<1>1. RunInv => LagIsUnseenMotion
  <2> SUFFICES ASSUME RunInv, gate_initialized, reject_run > 0
               PROVE  pos - gate.accepted_arc > Margin + gate.budget
    BY DEF RunInv, AnchorTrails, LagIsUnseenMotion
  <2>1. last_pose - gate.accepted_arc > Margin + gate.budget
    BY DEF RunInv, DeficitStands
  <2>2. last_pose <= pos /\ pos \in Nat /\ last_pose \in Nat
    BY DEF RunInv, WorldOK
  <2>3. gate.accepted_arc \in Nat /\ gate.budget \in Int /\ Margin \in Nat
    BY RunConstants DEF RunInv, IInv, TypeOK, Gates
  <2>4. QED BY <2>1, <2>2, <2>3
<1>2. QED BY <1>1, RunInvariance, PTL

\* A rejection of honest motion is never worked off: the run of rejections ends
\* only with a new anchor.
THEOREM DeficitSound == RunSpec => RejectionNeedsReanchor
<1>1. RunInv /\ [RunNext]_<<vars, world>> =>
        [(reject_run > 0 /\ reject_run' = 0) => ~gate'.has_last_pose]_<<vars, world>>
  BY RunStep DEF runVars
<1>2. QED
  BY <1>1, RunInvariance, PTL DEF RunSpec, RejectionNeedsReanchor
=============================================================================
