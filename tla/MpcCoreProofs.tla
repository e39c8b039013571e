---------------------------- MODULE MpcCoreProofs ----------------------------
(***************************************************************************)
(* Theorems about MpcCore, for every value of its constants.               *)
(***************************************************************************)
EXTENDS MpcCore, SequenceTheorems, TLAPS

-----------------------------------------------------------------------------
(***************************************************************************)
(* The gate.                                                               *)
(***************************************************************************)

\* A gate cycle keeps the state of the gate well formed: the arc stays on the
\* path and the budget within its cap.
LEMMA GateStepType ==
    ASSUME NEW g \in Gates, NEW moved \in Int, NEW raw \in Nat
    PROVE  GateStep(g, moved, raw) \in Gates
BY GateAssumption
   DEF Gates, GateStep, AcceptedArc, SpentBudget, Accepts, Banked, PhysicalDs,
       Lesser, Greater

\* The new accepted arc is the old one or the candidate.
LEMMA AcceptedArcIsOneOfTwo ==
    ASSUME NEW g \in Gates, NEW moved \in Int, NEW raw \in Nat
    PROVE  GateStep(g, moved, raw).accepted_arc \in {g.accepted_arc, raw}
BY DEF Gates, GateStep, AcceptedArc, Greater

\* One gate cycle moves accepted arc plus budget forward by no more than the
\* forward displacement, plus the margin when the candidate is accepted: an
\* allowance is spent once.
LEMMA GateStepWithinMotion ==
    ASSUME NEW g \in Gates, NEW moved \in Int, NEW raw \in Nat
    PROVE  GateStep(g, moved, raw).accepted_arc + GateStep(g, moved, raw).budget
             <= g.accepted_arc + g.budget + Greater(moved, 0)
                + (IF Accepts(g, moved, raw) THEN Margin ELSE 0)
BY GateAssumption
   DEF Gates, GateStep, AcceptedArc, SpentBudget, Accepts, Banked, PhysicalDs,
       Lesser, Greater

\* One gate cycle never moves the accepted arc backwards, and moves it forward
\* by no more than the margin and the full bank.
LEMMA GateStepCreeps ==
    ASSUME NEW g \in Gates, NEW moved \in Int, NEW raw \in Nat
    PROVE  /\ g.accepted_arc <= GateStep(g, moved, raw).accepted_arc
           /\ GateStep(g, moved, raw).accepted_arc
                <= g.accepted_arc + Margin + AllowanceCap
BY GateAssumption
   DEF Gates, GateStep, AcceptedArc, SpentBudget, Accepts, Banked, PhysicalDs,
       Lesser, Greater

\* The cycle that finds the arc too far behind leaves it and banks the motion.
LEMMA BackwardStep ==
    ASSUME gate \in Gates, NEW moved \in Int, NEW raw \in Nat, Backward(raw)
    PROVE  /\ GateAfter(moved, raw) \in Gates
           /\ GateAfter(moved, raw).accepted_arc = gate.accepted_arc
           /\ GateAfter(moved, raw).budget <= gate.budget + Greater(moved, 0)
<1> DEFINE bank == Banked(gate, moved)
<1>1. bank \in 0..AllowanceCap /\ bank <= gate.budget + Greater(moved, 0)
  BY GateAssumption DEF Gates, Banked, PhysicalDs, Lesser, Greater
<1>2. GateAfter(moved, raw) = [gate EXCEPT !.budget = bank, !.has_last_pose = TRUE]
  BY DEF GateAfter
<1> HIDE DEF bank
<1>3. QED
  BY <1>1, <1>2 DEF Gates

\* What a cycle against the anchor does to the gate, backward arcs included: it
\* stays well formed, its arc is the old one or the candidate and creeps, and
\* the sum of arc and bank grows by no more than the motion and the margin.
LEMMA GateAfterSound ==
    ASSUME gate \in Gates, NEW moved \in Int, NEW raw \in Nat
    PROVE  /\ GateAfter(moved, raw) \in Gates
           /\ GateAfter(moved, raw).accepted_arc \in {gate.accepted_arc, raw}
           /\ GateAfter(moved, raw).accepted_arc + GateAfter(moved, raw).budget
                <= gate.accepted_arc + gate.budget + Greater(moved, 0)
                   + (IF Believed(moved, raw) THEN Margin ELSE 0)
           /\ gate.accepted_arc <= GateAfter(moved, raw).accepted_arc
           /\ GateAfter(moved, raw).accepted_arc
                <= gate.accepted_arc + Margin + AllowanceCap
           /\ ~Believed(moved, raw) =>
                GateAfter(moved, raw).accepted_arc = gate.accepted_arc
<1>1. /\ gate.accepted_arc \in Int /\ gate.budget \in Int
      /\ Greater(moved, 0) \in Int /\ Margin \in Nat /\ AllowanceCap \in Nat
  BY GateAssumption DEF Gates, Greater
<1>2. CASE Backward(raw)
  <2>1. ~Believed(moved, raw)
    BY <1>2 DEF Believed
  <2>2. GateAfter(moved, raw).budget \in Int
    BY <1>2, BackwardStep, GateAssumption DEF Gates
  <2>3. QED
    BY <1>1, <1>2, <2>1, <2>2, BackwardStep
<1>3. CASE ~Backward(raw)
  <2>1. GateAfter(moved, raw) = GateStep(gate, moved, raw)
    BY <1>3 DEF GateAfter
  <2>2. Believed(moved, raw) <=> Accepts(gate, moved, raw)
    BY <1>3 DEF Believed
  <2>3. ~Accepts(gate, moved, raw) =>
          GateStep(gate, moved, raw).accepted_arc = gate.accepted_arc
    BY DEF GateStep, AcceptedArc
  <2>4. QED
    BY <2>1, <2>2, <2>3, GateStepType, AcceptedArcIsOneOfTwo,
       GateStepWithinMotion, GateStepCreeps
<1>4. QED BY <1>2, <1>3

-----------------------------------------------------------------------------
(***************************************************************************)
(* The fallback ladder.                                                    *)
(***************************************************************************)

\* Taking the ladder off its engagement keeps its state well formed.
LEMMA DisengageType ==
    ASSUME NEW f \in FallbackStates
    PROVE  /\ [f EXCEPT !.active = FALSE] \in FallbackStates
           /\ [f EXCEPT !.active = FALSE, !.degrade_cycles = 0] \in FallbackStates
BY DEF FallbackStates

\* Whatever the ladder is asked, it answers with a speed and a health, and
\* keeps its state well formed.
LEMMA ApplyType ==
    ASSUME NEW f \in FallbackStates, NEW cmd \in Commands,
           NEW health \in HealthStates
    PROVE  /\ Apply(f, cmd, health).state \in FallbackStates
           /\ Apply(f, cmd, health).v \in Int
           /\ Apply(f, cmd, health).health \in HealthStates
<1> DEFINE out == Apply(f, cmd, health)
           Typed == out.state \in FallbackStates /\ out.v \in Int
                    /\ out.health \in HealthStates
<1> SUFFICES Typed
  OBVIOUS
<1>1. ASSUME NEW h \in HealthStates, out = StopNow(f, h)
      PROVE  Typed
  <2> DEFINE g == [f EXCEPT !.active = FALSE, !.degrade_cycles = 0]
  <2>1. g \in FallbackStates
    BY DisengageType
  <2>2. out = Outcome(g, 0, h, 3)
    BY <1>1 DEF StopNow
  <2> HIDE DEF g, out
  <2>3. QED BY <2>1, <2>2 DEF Outcome
<1>2. CASE out = Degrade(f, cmd)
  <2> DEFINE g == Ladder(f, cmd)
  <2>1. g \in FallbackStates
    BY FallbackAssumption
       DEF Ladder, Decelerated, Magnitude, FallbackStates, Commands
  <2>2. g.last_v \in Int
    BY <2>1 DEF FallbackStates
  <2> DEFINE k == [g EXCEPT !.active = FALSE]
  <2>3. k \in FallbackStates
    BY <2>1, DisengageType
  <2>4. "EMERGENCY_STOP" \in HealthStates /\ "FALLBACK_ACTIVE" \in HealthStates
    BY DEF HealthStates
  <2> HIDE DEF g, k, out
  <2>5. CASE Exhausted(g)
    <3>1. out = Outcome(k, 0, "EMERGENCY_STOP", 3)
      BY <1>2, <2>5 DEF Degrade, g, k, out
    <3>2. QED BY <3>1, <2>3, <2>4 DEF Outcome
  <2>6. CASE ~Exhausted(g)
    <3>1. out = Outcome(g, g.last_v, "FALLBACK_ACTIVE", 2)
      BY <1>2, <2>6 DEF Degrade, g, out
    <3>2. QED BY <3>1, <2>1, <2>2, <2>4 DEF Outcome
  <2>7. QED BY <2>5, <2>6
<1>3. CASE out = Pass(f, cmd, health)
  <2> DEFINE v == Clamp(cmd.v, VMin, VMax)
             clamped == v # cmd.v \/ cmd.overturn
             h == IF clamped /\ health = "OK" THEN "SAFETY_CLAMPED" ELSE health
             stage == IF clamped THEN 1 ELSE 0
             k == [f EXCEPT !.active = FALSE]
  <2>1. v \in Int
    BY FallbackAssumption DEF Clamp, Commands
  <2>2. h \in HealthStates
    BY DEF HealthStates
  <2>3. out = Outcome(k, v, h, stage)
    BY <1>3 DEF Pass
  <2>4. k \in FallbackStates
    BY DisengageType
  <2>5. stage \in Int
    OBVIOUS
  <2> HIDE DEF v, h, stage, k, out
  <2>6. QED BY <2>1, <2>2, <2>3, <2>4, <2>5 DEF Outcome
<1>4. \/ out = StopNow(f, "NAN_OUTPUT")
      \/ out = StopNow(f, health)
      \/ out = Degrade(f, cmd)
      \/ out = Pass(f, cmd, health)
  BY DEF Apply
<1>5. "NAN_OUTPUT" \in HealthStates
  BY DEF HealthStates
<1> HIDE DEF out
<1>6. QED
  BY <1>1, <1>2, <1>3, <1>4, <1>5

-----------------------------------------------------------------------------
(***************************************************************************)
(* The history keeps bounded pieces of sequences.                          *)
(***************************************************************************)

\* The end of a sequence is a sequence over the same elements.
LEMMA LastNType ==
    ASSUME NEW S, NEW s \in Seq(S), NEW n \in Nat
    PROVE  LastN(s, n) \in Seq(S)
<1>1. CASE Len(s) <= n
  BY <1>1 DEF LastN
<1>2. CASE Len(s) > n
  <2>1. Len(s) \in Nat /\ Len(s) - n + 1 \in 1..(Len(s) + 1)
    BY <1>2, LenProperties
  <2>2. SubSeq(s, Len(s) - n + 1, Len(s)) \in Seq(S)
    BY <2>1, SubSeqProperties
  <2>3. QED BY <1>2, <2>1, <2>2 DEF LastN
<1>3. QED BY <1>1, <1>2, LenProperties

\* Appending to a sequence and keeping its end stays within the elements.
LEMMA AppendLastNType ==
    ASSUME NEW S, NEW s \in Seq(S), NEW e \in S, NEW n \in Nat
    PROVE  LastN(Append(s, e), n) \in Seq(S)
BY LastNType, AppendProperties

-----------------------------------------------------------------------------
(***************************************************************************)
(* The inductive invariant.                                                *)
(***************************************************************************)

\* The accepted arc only ever takes values a projection can have.
ArcOnPath == gate.accepted_arc \in Arcs

\* The probation window is open while there are ticks left in it.
ProbationOpen == reacq.mode = "PROBATION" => reacq.probation_left > 0

\* While SEEKING no run is long enough to commit: the beat that makes it so
\* ends the episode.
RunIsShort == reacq.mode = "SEEKING" => reacq.stable_run < ReacquireStableSteps

\* The protocol is engaged, and a warm start kept, only against an anchor.
EngagedWhenAnchored ==
    ~gate_initialized => reacq.mode = "NORMAL" /\ ~have_warm

\* The conjunction that a step preserves.  The bank of the gate appears in
\* AdvanceWithinMotion, and the path in ArcOnPath, because the accepted arc
\* alone says nothing about where the next accepted step may take it.
IInv ==
    /\ TypeOK
    /\ SeekingIffRunExceeded
    /\ WarmStartFromThisAnchor
    /\ AdvanceWithinMotion
    /\ ArcOnPath
    /\ ProbationOpen
    /\ RunIsShort
    /\ EngagedWhenAnchored

\* Arcs of the path are natural numbers, and its length is one of them.
LEMMA ArcsAreNaturals ==
    /\ PathLength \in Nat
    /\ Arcs \subseteq Nat
    /\ 0 \in Arcs
    /\ \A arc \in Arcs : arc <= PathLength
    /\ \A arc \in Arcs : SegmentsAt(arc) \subseteq Nat
<1>1. SegmentLength \in Nat /\ NumSegments \in Nat
  BY MpcCoreAssumption
<1>2. PathLength \in Nat
  BY <1>1 DEF PathLength
<1>3. \A arc \in Arcs : SegmentsAt(arc) \subseteq Nat
  BY <1>1 DEF SegmentsAt
<1>4. QED
  BY <1>2, <1>3 DEF Arcs

\* A new anchor starts a history of its own.
LEMMA AnchoredAtType ==
    ASSUME NEW arc \in Nat
    PROVE  /\ AnchoredAt(arc) \in Histories
           /\ AnchoredAt(arc).cold = TRUE
           /\ AnchoredAt(arc).reach = arc
           /\ ResetGate(arc) \in Gates
           /\ ResetGate(arc).accepted_arc = arc
           /\ ResetGate(arc).budget = 0
           /\ AnchoredGate(arc) \in Gates
           /\ AnchoredGate(arc).accepted_arc = arc
           /\ AnchoredGate(arc).budget = 0
<1>1. /\ AnchoredAt(arc) \in Histories
      /\ AnchoredAt(arc).cold = TRUE
      /\ AnchoredAt(arc).reach = arc
  BY DEF AnchoredAt, Histories
<1>2. /\ ResetGate(arc) \in Gates
      /\ ResetGate(arc).accepted_arc = arc
      /\ ResetGate(arc).budget = 0
  BY GateAssumption DEF ResetGate, Gates
<1>3. /\ AnchoredGate(arc) \in Gates
      /\ AnchoredGate(arc).accepted_arc = arc
      /\ AnchoredGate(arc).budget = 0
  <2> DEFINE keeps == Port = "python"
  <2>1. keeps \in BOOLEAN
    OBVIOUS
  <2>2. AnchoredGate(arc) = [ResetGate(arc) EXCEPT !.has_last_pose = keeps]
    BY DEF AnchoredGate
  <2> HIDE DEF keeps
  <2>3. QED
    BY <1>2, <2>1, <2>2 DEF Gates
<1>4. QED
  BY <1>1, <1>2, <1>3

\* The protocol's operators keep its state well formed.
LEMMA ReacquireTypes ==
    ASSUME NEW r \in ReacquireStates
    PROVE  /\ FreshReacquire \in ReacquireStates
           /\ FreshReacquire.mode = "NORMAL"
           /\ LoseProjection(r) \in ReacquireStates
           /\ LoseProjection(r).mode = r.mode
           /\ EnterSeeking(r) \in ReacquireStates
           /\ EnterSeeking(r).mode = "SEEKING"
<1>1. FreshReacquire \in ReacquireStates
  BY ReacquireAssumption DEF ReacquireStates, Modes, FreshReacquire
<1>2. FreshReacquire.mode = "NORMAL"
  BY DEF FreshReacquire
<1>3. LoseProjection(r) \in ReacquireStates /\ LoseProjection(r).mode = r.mode
  BY ReacquireAssumption DEF ReacquireStates, LoseProjection
<1>4. EnterSeeking(r) \in ReacquireStates /\ EnterSeeking(r).mode = "SEEKING"
  <2>1. /\ "SEEKING" \in Modes
        /\ 0 \in 0..(ReacquireTimeoutSteps + 1)
        /\ 0 \in 0..ReacquireStableSteps
        /\ NoSeg \in Nat \cup {NoSeg}
    BY ReacquireAssumption DEF Modes
  <2>2. QED
    BY <2>1 DEF ReacquireStates, EnterSeeking
<1>5. QED
  BY <1>1, <1>2, <1>3, <1>4

\* A tick never brings SEEKING about, nor ends it.
LEMMA TickType ==
    ASSUME NEW r \in ReacquireStates, r.mode = "PROBATION" => r.probation_left > 0
    PROVE  /\ TickProbation(r) \in ReacquireStates
           /\ TickProbation(r).mode = "SEEKING" <=> r.mode = "SEEKING"
<1>1. CASE r.mode # "PROBATION"
  BY <1>1 DEF TickProbation
<1>2. CASE r.mode = "PROBATION"
  <2>1. r.probation_left - 1 \in 0..ProbationSteps
    BY <1>2, ReacquireAssumption DEF ReacquireStates
  <2>2. TickProbation(r) = [r EXCEPT !.probation_left = r.probation_left - 1,
                    !.mode = IF r.probation_left <= 1 THEN "NORMAL" ELSE r.mode]
    BY <1>2 DEF TickProbation
  <2>3. QED
    BY <1>2, <2>1, <2>2 DEF ReacquireStates, Modes
<1>3. QED BY <1>1, <1>2

\* A beat that does not commit keeps the protocol's state well formed, and the
\* run short.
LEMMA ObserveType ==
    ASSUME NEW r \in ReacquireStates, NEW seg \in Nat, NEW refused \in BOOLEAN,
           ~TimedOut(r), ~Commits(r, seg, refused)
    PROVE  /\ ObserveCandidate(r, seg, refused) \in ReacquireStates
           /\ ObserveCandidate(r, seg, refused).mode = r.mode
           /\ ObserveCandidate(r, seg, refused).stable_run < ReacquireStableSteps
<1>1. /\ CountBeat(r, refused) \in 0..(ReacquireTimeoutSteps + 1)
      /\ StableRun(r, seg, refused) \in 0..ReacquireStableSteps
      /\ StableRun(r, seg, refused) < ReacquireStableSteps
      /\ (IF refused THEN NoSeg ELSE seg) \in Nat \cup {NoSeg}
  BY ReacquireAssumption
     DEF ReacquireStates, CountBeat, StableRun, Commits, TimedOut
<1>2. QED
  BY <1>1 DEF ReacquireStates, ObserveCandidate

\* The beat that commits opens a probation window of positive length.
LEMMA CommitType ==
    ASSUME NEW r \in ReacquireStates, NEW seg \in Nat,
           r.stable_run < ReacquireStableSteps
    PROVE  /\ CommitCandidate(r, seg) \in ReacquireStates
           /\ CommitCandidate(r, seg).mode = "PROBATION"
           /\ CommitCandidate(r, seg).probation_left > 0
<1>1. /\ CountBeat(r, FALSE) \in 0..(ReacquireTimeoutSteps + 1)
      /\ StableRun(r, seg, FALSE) \in 0..ReacquireStableSteps
      /\ seg \in Nat \cup {NoSeg}
  BY ReacquireAssumption DEF ReacquireStates, CountBeat, StableRun
<1> DEFINE o == ObserveCandidate(r, seg, FALSE)
<1>2. o \in ReacquireStates
  BY <1>1 DEF ReacquireStates, ObserveCandidate
<1>3. ProbationSteps > 0
  BY ReacquireAssumption
<1> DEFINE c == [o EXCEPT !.mode = "PROBATION",
                          !.probation_left = ProbationSteps]
           window == 0..ProbationSteps
<1>5. CommitCandidate(r, seg) = c
  BY DEF CommitCandidate
<1>6. ProbationSteps \in window /\ "PROBATION" \in Modes
  BY ReacquireAssumption DEF Modes
<1>7. ReacquireStates = [mode : Modes,
                         seeking_steps : 0..(ReacquireTimeoutSteps + 1),
                         stable_run : 0..ReacquireStableSteps,
                         stable_seg : Nat \cup {NoSeg},
                         probation_left : window]
  BY DEF ReacquireStates
<1> HIDE DEF o, window
<1>9. c \in ReacquireStates
  BY <1>2, <1>6, <1>7
<1>10. c.mode = "PROBATION" /\ c.probation_left = ProbationSteps
  BY <1>2 DEF ReacquireStates
<1> HIDE DEF c
<1>11. QED
  BY <1>3, <1>5, <1>9, <1>10

\* A tick leaves a window that is closed or has ticks left.
LEMMA TickKeepsWindow ==
    ASSUME NEW r \in ReacquireStates, r.mode = "PROBATION" => r.probation_left > 0
    PROVE  TickProbation(r).mode = "PROBATION" => TickProbation(r).probation_left > 0
BY ReacquireAssumption DEF ReacquireStates, Modes, TickProbation

\* Every answer of the solver carries a command and one of its three verdicts.
LEMMA QpAnswerType ==
    ASSUME NEW qp \in QpAnswers
    PROVE  /\ qp.status \in {"kSolved", "kApproximate", "kFailed"}
           /\ qp.cmd \in Commands
           /\ FailureHealth(qp) \in {"QP_INFEASIBLE", "NAN_OUTPUT"}
<1> DEFINE truths == {TRUE, Port = "python"}
           solutions == [status : {"kSolved", "kApproximate"},
                         cmd : [v : QpSpeeds, finite : truths, overturn : BOOLEAN]]
<1>1. truths \subseteq BOOLEAN
  OBVIOUS
<1>2. QpAnswers = solutions \cup {QpFailed}
                    \cup (IF Port = "python" THEN {QpNonFinite} ELSE {})
  BY Zenon DEF QpAnswers
<1> HIDE DEF truths, solutions
<1>3. CASE qp \in solutions
  <2>1. /\ qp.status \in {"kSolved", "kApproximate"}
        /\ qp.cmd \in [v : QpSpeeds, finite : truths, overturn : BOOLEAN]
    BY <1>3 DEF solutions
  <2>2. qp.cmd \in Commands
    BY <1>1, <2>1, MpcCoreAssumption DEF Commands
  <2>3. QED BY <2>1, <2>2 DEF FailureHealth
<1>4. CASE qp = QpFailed
  BY <1>4 DEF QpFailed, Zero, Commands, FailureHealth
<1>5. CASE qp = QpNonFinite
  BY <1>5 DEF QpNonFinite, Commands, FailureHealth
<1>6. QED
  BY <1>2, <1>3, <1>4, <1>5

\* What the tail of a cycle leaves behind: well-formed state, the history it
\* was given, and a warm start only if a QP was solved under this anchor.
LEMMA QpPhaseType ==
    ASSUME fallback \in FallbackStates, have_warm \in BOOLEAN,
           NEW r \in ReacquireStates, NEW rejects \in Nat, NEW h \in Histories,
           have_warm => ~h.cold,
           NEW qp \in QpAnswers, QpPhase(r, rejects, h, qp)
    PROVE  /\ fallback' \in FallbackStates
           /\ have_warm' \in BOOLEAN
           /\ res' \in Results
           /\ hist' \in Histories
           /\ hist'.reach = h.reach
           /\ have_warm' => ~hist'.cold
<1> DEFINE solved == qp.status # "kFailed"
           failure == FailureHealth(qp)
           asked  == [qp.cmd EXCEPT !.v = CappedSpeed(r, rejects, qp.cmd.v)]
           out    == IF solved THEN Apply(fallback, asked, "OK")
                               ELSE Apply(fallback, Zero, failure)
<1>1. /\ qp.status \in {"kSolved", "kApproximate", "kFailed"}
      /\ qp.cmd \in Commands
      /\ failure \in HealthStates
  BY QpAnswerType DEF HealthStates
<1>2. asked \in Commands
  <2> DEFINE speed == CappedSpeed(r, rejects, qp.cmd.v)
  <2>1. speed \in Int
    BY <1>1, MpcCoreAssumption, FallbackAssumption
       DEF Commands, CappedSpeed, Lesser
  <2> HIDE DEF speed
  <2>2. [qp.cmd EXCEPT !.v = speed] \in Commands
    BY <1>1, <2>1 DEF Commands
  <2>3. QED BY <2>2 DEF speed
<1> HIDE DEF failure, asked
<1>3. /\ out.state \in FallbackStates
      /\ out.v \in Int
      /\ out.health \in HealthStates
  <2>1. Zero \in Commands /\ "OK" \in HealthStates
    BY DEF Zero, Commands, HealthStates
  <2> HIDE DEF solved
  <2>2. CASE solved
    BY <1>2, <2>1, <2>2, ApplyType
  <2>3. CASE ~solved
    BY <1>1, <2>1, <2>3, ApplyType
  <2>4. QED BY <2>2, <2>3
<1> HIDE DEF out
<1> DEFINE health == ReportedHealth(qp, out.health)
           reason == IF ~qp.cmd.finite /\ ~solved THEN "non-finite cost"
                     ELSE IF ~solved THEN "qp failed"
                     ELSE IF out.health # "OK" THEN "clamped/degraded"
                     ELSE ""
           open == r.mode = "PROBATION" /\ (solved \/ Port = "cpp")
           cold == h.cold /\ ~solved
<1>4. /\ fallback' = out.state
      /\ have_warm' = (solved \/ (Port = "python" /\ have_warm))
      /\ res' = [v_cmd |-> out.v, health |-> health, reason |-> reason,
                 qp_status |-> qp.status, in_probation |-> open,
                 reacquire_seeking |-> FALSE]
      /\ hist' = [h EXCEPT !.cold = cold]
  BY DEF QpPhase, out, failure, asked
<1>5. res' \in Results
  <2>1. health \in HealthStates /\ reason \in Reasons /\ open \in BOOLEAN
    BY <1>1, <1>3 DEF Reasons, ReportedHealth, failure
  <2> HIDE DEF health, reason, open
  <2>2. QED
    BY <1>1, <1>3, <1>4, <2>1 DEF Results
<1>6. /\ hist' \in Histories
      /\ hist'.reach = h.reach
      /\ hist'.cold = cold
  <2>1. cold \in BOOLEAN
    BY DEF Histories
  <2> HIDE DEF cold
  <2>2. QED
    BY <1>4, <2>1 DEF Histories
<1>7. have_warm' \in BOOLEAN /\ (have_warm' => ~hist'.cold)
  BY <1>4, <1>6
<1>8. QED
  BY <1>3, <1>4, <1>5, <1>6, <1>7

\* The results of the cycles that run no QP are results.
LEMMA ResultTypes ==
    /\ DefaultResult \in Results
    /\ EmergencyStop("PROJECTION_AMBIGUOUS") \in Results
    /\ [DefaultResult EXCEPT !.health = "NO_REFERENCE",
                             !.reason = "no reference set"] \in Results
    /\ [EmergencyStop("PROJECTION_LOST") EXCEPT
            !.in_probation = TRUE, !.reacquire_seeking = TRUE] \in Results
    /\ \A r \in ReacquireStates : SeekingResult(r) \in Results
<1>1. DefaultResult \in Results
  BY DEF DefaultResult, Results, HealthStates, Reasons
<1>2. /\ {"EMERGENCY_STOP", "NO_REFERENCE"} \subseteq HealthStates
      /\ {"PROJECTION_AMBIGUOUS", "PROJECTION_LOST", "no reference set",
          "REACQUIRE_SEEKING"} \subseteq Reasons
  BY DEF HealthStates, Reasons
<1>3. EmergencyStop("PROJECTION_AMBIGUOUS") \in Results
  BY <1>1, <1>2 DEF Results, EmergencyStop
<1>4. [DefaultResult EXCEPT !.health = "NO_REFERENCE",
                            !.reason = "no reference set"] \in Results
  BY <1>1, <1>2 DEF Results
<1>5. [EmergencyStop("PROJECTION_LOST") EXCEPT
            !.in_probation = TRUE, !.reacquire_seeking = TRUE] \in Results
  <2>1. EmergencyStop("PROJECTION_LOST") \in Results
    BY <1>1, <1>2 DEF Results, EmergencyStop
  <2>2. QED BY <2>1 DEF Results
<1>6. ASSUME NEW r \in ReacquireStates
      PROVE  SeekingResult(r) \in Results
  <2> DEFINE b == Port = "cpp" /\ r.mode = "PROBATION"
  <2>1. b \in BOOLEAN
    OBVIOUS
  <2>2. SeekingResult(r) =
          [DefaultResult EXCEPT !.reason = "REACQUIRE_SEEKING",
                                !.in_probation = b,
                                !.reacquire_seeking = TRUE]
    BY Zenon DEF SeekingResult
  <2> HIDE DEF b
  <2>3. [DefaultResult EXCEPT !.reason = "REACQUIRE_SEEKING",
                              !.in_probation = b,
                              !.reacquire_seeking = TRUE] \in Results
    BY <1>1, <1>2, <2>1 DEF Results
  <2>4. QED
    BY <2>2, <2>3
<1>7. QED
  BY <1>1, <1>3, <1>4, <1>5, <1>6

-----------------------------------------------------------------------------
(***************************************************************************)
(* The invariant holds at first, and every action preserves it.            *)
(***************************************************************************)

\* A fresh controller satisfies the invariant.
LEMMA InitInv == Init => IInv
<1> SUFFICES ASSUME Init PROVE IInv
  OBVIOUS
<1>1. /\ hist \in Histories /\ hist.reach = 0
      /\ gate \in Gates /\ gate.accepted_arc = 0 /\ gate.budget = 0
  BY AnchoredAtType DEF Init
<1>2. reacq \in ReacquireStates /\ reacq.mode = "NORMAL"
  BY ReacquireAssumption DEF Init, FreshReacquire, ReacquireStates, Modes
<1>3. fallback \in FallbackStates
  BY DEF Init, ResetFallback, FallbackStates
<1>4. reject_run = 0 /\ 0 \in 0..(MaxRejectRun + 1) /\ 0 # MaxRejectRun + 1
  BY ReacquireAssumption DEF Init
<1>5. TypeOK
  BY <1>1, <1>2, <1>3, <1>4, ResultTypes DEF Init, TypeOK
<1>6. SeekingIffRunExceeded /\ WarmStartFromThisAnchor /\ AdvanceWithinMotion
  BY <1>2, <1>4
     DEF Init, SeekingIffRunExceeded, WarmStartFromThisAnchor, AdvanceWithinMotion
<1>7. ArcOnPath /\ ProbationOpen /\ RunIsShort /\ EngagedWhenAnchored
  BY <1>1, <1>2, ArcsAreNaturals
     DEF Init, ArcOnPath, ProbationOpen, RunIsShort, EngagedWhenAnchored
<1>8. QED
  BY <1>5, <1>6, <1>7 DEF IInv

\* A new reference starts from a fresh anchor.
LEMMA SetReferenceInv == IInv /\ SetReference => IInv'
<1> SUFFICES ASSUME IInv, SetReference PROVE IInv'
  OBVIOUS
<1>1. /\ hist' \in Histories /\ hist'.reach = 0
      /\ gate' \in Gates /\ gate'.accepted_arc = 0 /\ gate'.budget = 0
  BY AnchoredAtType DEF SetReference
<1>2. reacq' \in ReacquireStates /\ reacq'.mode = "NORMAL"
  BY ReacquireTypes DEF SetReference, IInv, TypeOK
<1>3. fallback' \in FallbackStates
  BY DEF SetReference, ResetFallback, FallbackStates
<1>4. reject_run' = 0 /\ 0 \in 0..(MaxRejectRun + 1) /\ 0 # MaxRejectRun + 1
  BY ReacquireAssumption DEF SetReference
<1>5. TypeOK'
  BY <1>1, <1>2, <1>3, <1>4 DEF SetReference, IInv, TypeOK
<1>6. SeekingIffRunExceeded' /\ WarmStartFromThisAnchor' /\ AdvanceWithinMotion'
  BY <1>2, <1>4 DEF SetReference, SeekingIffRunExceeded,
                    WarmStartFromThisAnchor, AdvanceWithinMotion
<1>7. ArcOnPath' /\ ProbationOpen' /\ RunIsShort' /\ EngagedWhenAnchored'
  BY <1>1, <1>2, ArcsAreNaturals
     DEF SetReference, ArcOnPath, ProbationOpen, RunIsShort,
         EngagedWhenAnchored
<1>8. QED
  BY <1>5, <1>6, <1>7 DEF IInv

\* The cycles that only report: without a reference, or with a refused
\* projection.
LEMMA ReportInv == IInv /\ (NoReferenceCycle \/ AmbiguousCycle) => IInv'
<1> SUFFICES ASSUME IInv, NoReferenceCycle \/ AmbiguousCycle PROVE IInv'
  OBVIOUS
<1>1. res' \in Results
  BY ResultTypes DEF NoReferenceCycle, AmbiguousCycle
<1>2. UNCHANGED <<core, hist>>
  BY DEF NoReferenceCycle, AmbiguousCycle
<1>3. TypeOK'
  BY <1>1, <1>2 DEF IInv, TypeOK, core
<1>4. QED
  BY <1>2, <1>3 DEF IInv, core, SeekingIffRunExceeded, WarmStartFromThisAnchor,
                    AdvanceWithinMotion, ArcOnPath, ProbationOpen, RunIsShort,
         EngagedWhenAnchored

\* The beat beyond the timeout leaves the mode and the run as they were.
LEMMA LostInv == IInv /\ LostCycle => IInv'
<1> SUFFICES ASSUME IInv, LostCycle PROVE IInv'
  OBVIOUS
<1>1. res' \in Results
  BY ResultTypes DEF LostCycle
<1>2. /\ reacq' \in ReacquireStates
      /\ reacq'.mode = reacq.mode
      /\ reacq'.stable_run = reacq.stable_run
      /\ reacq.mode = "SEEKING"
  <2>1. reacq' \in ReacquireStates /\ reacq'.mode = reacq.mode
    BY ReacquireTypes DEF LostCycle, IInv, TypeOK
  <2>2. reacq'.stable_run = reacq.stable_run
    BY DEF LostCycle, LoseProjection, IInv, TypeOK, ReacquireStates
  <2>3. QED BY <2>1, <2>2 DEF LostCycle
<1>3. UNCHANGED <<has_reference, gate, gate_initialized, reject_run,
                  fallback, have_warm, hist>>
  BY DEF LostCycle
<1>4. TypeOK'
  BY <1>1, <1>2, <1>3 DEF IInv, TypeOK
<1>5. QED
  BY <1>2, <1>3, <1>4
     DEF IInv, SeekingIffRunExceeded, WarmStartFromThisAnchor,
         AdvanceWithinMotion, ArcOnPath, ProbationOpen, RunIsShort,
         EngagedWhenAnchored

\* A beat that does not commit stays in SEEKING with a short run.
LEMMA SeekingInv ==
    ASSUME IInv, NEW seg \in Nat, NEW refused \in BOOLEAN,
           SeekingCycle(seg, refused)
    PROVE  IInv'
<1>1. /\ reacq' \in ReacquireStates
      /\ reacq'.mode = reacq.mode
      /\ reacq'.stable_run < ReacquireStableSteps
      /\ reacq.mode = "SEEKING"
  BY ObserveType DEF SeekingCycle, IInv, TypeOK
<1>2. res' \in Results
  BY <1>1, ResultTypes DEF SeekingCycle
<1>3. /\ hist' \in Histories
      /\ hist'.reach = hist.reach
      /\ hist'.cold = hist.cold
  <2> DEFINE e == IF refused THEN NoSeg ELSE seg
             o == Observed(e)
  <2>1. hist \in Histories /\ e \in Nat \cup {NoSeg}
    BY DEF IInv, TypeOK
  <2>2. hist.evidence \in Seq(Nat \cup {NoSeg})
    BY <2>1 DEF Histories
  <2>3. ReacquireStableSteps \in Nat
    BY ReacquireAssumption
  <2> HIDE DEF e
  <2>4. o \in Seq(Nat \cup {NoSeg})
    BY <2>1, <2>2, <2>3, AppendLastNType DEF Observed
  <2>5. hist' = [hist EXCEPT !.evidence = o]
    BY DEF SeekingCycle, e
  <2> HIDE DEF o
  <2>6. QED BY <2>1, <2>4, <2>5 DEF Histories
<1>4. UNCHANGED <<has_reference, gate, gate_initialized, reject_run,
                  fallback, have_warm>>
  BY DEF SeekingCycle
<1>5. TypeOK'
  BY <1>1, <1>2, <1>3, <1>4 DEF IInv, TypeOK
<1>6. QED
  BY <1>1, <1>3, <1>4, <1>5
     DEF IInv, SeekingIffRunExceeded, WarmStartFromThisAnchor,
         AdvanceWithinMotion, ArcOnPath, ProbationOpen, RunIsShort,
         EngagedWhenAnchored

\* The commit takes a new anchor on the path and opens probation.
LEMMA CommitInv ==
    ASSUME IInv, NEW arc \in Arcs, NEW seg \in Nat, CommitCycle(arc, seg)
    PROVE  IInv'
<1>1. /\ reacq' \in ReacquireStates
      /\ reacq'.mode = "PROBATION"
      /\ reacq'.probation_left > 0
  BY CommitType DEF CommitCycle, IInv, TypeOK, RunIsShort
<1>2. res' \in Results
  BY <1>1, ResultTypes DEF CommitCycle
<1>3. arc \in Nat
  BY ArcsAreNaturals
<1>4. /\ gate' \in Gates /\ gate'.accepted_arc = arc /\ gate'.budget = 0
  BY <1>3, AnchoredAtType DEF CommitCycle, Reanchor
<1>5. hist' \in Histories /\ hist'.reach = arc
  <2> DEFINE h == AnchoredAt(arc)
             o == Observed(seg)
  <2>1. h \in Histories /\ h.reach = arc
    BY <1>3, AnchoredAtType
  <2>2. hist.evidence \in Seq(Nat \cup {NoSeg}) /\ seg \in Nat \cup {NoSeg}
    BY DEF IInv, TypeOK, Histories
  <2>3. ReacquireStableSteps \in Nat
    BY ReacquireAssumption
  <2>4. o \in Seq(Nat \cup {NoSeg})
    BY <2>2, <2>3, AppendLastNType DEF Observed
  <2>5. hist' = [h EXCEPT !.evidence = o]
    BY DEF CommitCycle
  <2> HIDE DEF h, o
  <2>6. QED BY <2>1, <2>4, <2>5 DEF Histories
<1>6. /\ gate_initialized' = TRUE
      /\ reject_run' = 0
      /\ have_warm' = FALSE
      /\ UNCHANGED <<has_reference, fallback>>
  BY DEF CommitCycle, Reanchor
<1>7. 0 \in 0..(MaxRejectRun + 1) /\ 0 # MaxRejectRun + 1
  BY ReacquireAssumption
<1>8. TypeOK'
  BY <1>1, <1>2, <1>4, <1>5, <1>6, <1>7 DEF IInv, TypeOK
<1>9. SeekingIffRunExceeded' /\ WarmStartFromThisAnchor' /\ AdvanceWithinMotion'
  BY <1>1, <1>3, <1>4, <1>5, <1>6, <1>7
     DEF SeekingIffRunExceeded, WarmStartFromThisAnchor, AdvanceWithinMotion
<1>10. ArcOnPath' /\ ProbationOpen' /\ RunIsShort' /\ EngagedWhenAnchored'
  BY <1>1, <1>4, <1>6
     DEF ArcOnPath, ProbationOpen, RunIsShort, EngagedWhenAnchored
<1>11. QED
  BY <1>8, <1>9, <1>10 DEF IInv

\* The first projection becomes the anchor, with nothing in the bank.
LEMMA AnchorInv ==
    ASSUME IInv, NEW raw \in Arcs, NEW qp \in QpAnswers, AnchorCycle(raw, qp)
    PROVE  IInv'
<1>1. raw \in Nat
  BY ArcsAreNaturals
<1>2. /\ gate' \in Gates /\ gate'.accepted_arc = raw /\ gate'.budget = 0
      /\ AnchoredAt(raw) \in Histories /\ AnchoredAt(raw).reach = raw
  BY <1>1, AnchoredAtType DEF AnchorCycle
<1>3. /\ reacq' \in ReacquireStates
      /\ reacq'.mode # "SEEKING"
      /\ reacq'.mode = "PROBATION" => reacq'.probation_left > 0
  BY TickType, TickKeepsWindow DEF AnchorCycle, IInv, TypeOK, ProbationOpen
<1>4. /\ fallback' \in FallbackStates
      /\ have_warm' \in BOOLEAN
      /\ res' \in Results
      /\ hist' \in Histories
      /\ hist'.reach = raw
      /\ have_warm' => ~hist'.cold
  <2>1. /\ fallback \in FallbackStates /\ 0 \in Nat
        /\ have_warm \in BOOLEAN /\ ~have_warm
    BY DEF IInv, TypeOK, EngagedWhenAnchored, AnchorCycle
  <2>2. QpPhase(reacq', 0, AnchoredAt(raw), qp)
    BY DEF AnchorCycle
  <2>3. QED
    BY <1>2, <1>3, <2>1, <2>2, QpPhaseType
<1>5. /\ gate_initialized' = TRUE
      /\ reject_run' = 0
      /\ UNCHANGED has_reference
  BY DEF AnchorCycle
<1>6. 0 \in 0..(MaxRejectRun + 1) /\ 0 # MaxRejectRun + 1
  BY ReacquireAssumption
<1>7. TypeOK'
  BY <1>2, <1>3, <1>4, <1>5, <1>6 DEF IInv, TypeOK
<1>8. SeekingIffRunExceeded' /\ WarmStartFromThisAnchor' /\ AdvanceWithinMotion'
  BY <1>1, <1>2, <1>3, <1>4, <1>5, <1>6
     DEF SeekingIffRunExceeded, WarmStartFromThisAnchor, AdvanceWithinMotion
<1>9. ArcOnPath' /\ ProbationOpen' /\ RunIsShort' /\ EngagedWhenAnchored'
  BY <1>2, <1>3, <1>5
     DEF ArcOnPath, ProbationOpen, RunIsShort, EngagedWhenAnchored
<1>10. QED
  BY <1>7, <1>8, <1>9 DEF IInv

\* The motion a cycle sees is added to the history, up to the whole path.
LEMMA TrackedType ==
    ASSUME hist \in Histories, gate \in Gates,
           NEW moved \in Int, NEW raw \in Nat
    PROVE  /\ Tracked(moved, raw) \in Histories
           /\ Tracked(moved, raw).reach =
                Lesser(hist.reach + Greater(moved, 0)
                         + (IF Believed(moved, raw) THEN Margin ELSE 0),
                       PathLength + AllowanceCap)
           /\ Tracked(moved, raw).cold = hist.cold
<1> DEFINE believed == Believed(moved, raw)
           reach == Lesser(hist.reach + Greater(moved, 0)
                             + (IF believed THEN Margin ELSE 0),
                           PathLength + AllowanceCap)
           verdicts == LastN(Append(hist.verdicts, believed), MaxRejectRun + 1)
           evidence == IF LosesTrust(RejectRun(moved, raw)) THEN <<>>
                       ELSE hist.evidence
<1>1. reach \in Nat
  BY GateAssumption, ArcsAreNaturals DEF Histories, Lesser, Greater
<1>2. verdicts \in Seq(BOOLEAN)
  <2>1. believed \in BOOLEAN
    BY DEF Believed, Accepts
  <2>2. MaxRejectRun + 1 \in Nat /\ hist.verdicts \in Seq(BOOLEAN)
    BY ReacquireAssumption DEF Histories
  <2> HIDE DEF believed
  <2>3. QED BY <2>1, <2>2, AppendLastNType
<1>3. evidence \in Seq(Nat \cup {NoSeg})
  <2>1. hist.evidence \in Seq(Nat \cup {NoSeg})
    BY DEF Histories
  <2>2. <<>> \in Seq(Nat \cup {NoSeg})
    OBVIOUS
  <2>3. QED BY <2>1, <2>2
<1>4. Tracked(moved, raw) = [hist EXCEPT !.reach = reach, !.verdicts = verdicts,
                                         !.evidence = evidence]
  BY DEF Tracked
<1> HIDE DEF reach, verdicts, evidence
<1>5. /\ Tracked(moved, raw) \in Histories
      /\ Tracked(moved, raw).reach = reach
      /\ Tracked(moved, raw).cold = hist.cold
  BY <1>1, <1>2, <1>3, <1>4 DEF Histories
<1>6. QED
  BY <1>5 DEF reach

\* A cycle against the anchor: the gate spends what the history gains, and
\* the run goes beyond its limit exactly when the mode turns to SEEKING.
LEMMA TrackInv ==
    ASSUME IInv, NEW moved \in Int, NEW raw \in Arcs,
           NEW qp \in QpAnswers, TrackCycle(moved, raw, qp)
    PROVE  IInv'
<1>1. raw \in Nat /\ moved \in Int /\ raw <= PathLength /\ PathLength \in Nat
  BY ArcsAreNaturals, MpcCoreAssumption
<1>2. /\ gate \in Gates /\ hist \in Histories
      /\ reacq \in ReacquireStates /\ reacq.mode # "SEEKING"
      /\ fallback \in FallbackStates
  BY DEF IInv, TypeOK, TrackCycle
<1>3. gate' = GateAfter(moved, raw) /\ gate' \in Gates
  BY <1>1, <1>2, GateAfterSound DEF TrackCycle
<1>4. /\ reject_run' \in 0..(MaxRejectRun + 1)
      /\ LosesTrust(reject_run') <=> reject_run' = MaxRejectRun + 1
  <2>1. reject_run \in 0..MaxRejectRun
    BY <1>2, ReacquireAssumption DEF IInv, TypeOK, SeekingIffRunExceeded
  <2>2. reject_run' = 0 \/ reject_run' = reject_run + 1
    BY DEF TrackCycle, RejectRun
  <2>3. QED
    BY <2>1, <2>2, ReacquireAssumption DEF LosesTrust
<1> DEFINE x == IF LosesTrust(reject_run') THEN EnterSeeking(reacq) ELSE reacq
<1>5. /\ x \in ReacquireStates
      /\ x.mode = "SEEKING" <=> LosesTrust(reject_run')
      /\ x.mode = "PROBATION" => x.probation_left > 0
  BY <1>2, ReacquireTypes DEF IInv, ProbationOpen
<1>6. reacq' = TickProbation(x)
  BY DEF TrackCycle
<1>7. x.mode = "SEEKING" => x = EnterSeeking(reacq) /\ reacq' = x
  BY <1>5, <1>6 DEF TickProbation
<1> HIDE DEF x
<1>8. /\ reacq' \in ReacquireStates
      /\ reacq'.mode = "SEEKING" <=> reject_run' = MaxRejectRun + 1
      /\ reacq'.mode = "PROBATION" => reacq'.probation_left > 0
  BY <1>4, <1>5, <1>6, TickType, TickKeepsWindow
<1>9. reacq'.mode = "SEEKING" => reacq'.stable_run < ReacquireStableSteps
  <2>1. EnterSeeking(reacq).stable_run = 0
    BY <1>2 DEF EnterSeeking, ReacquireStates
  <2>2. reacq'.mode = "SEEKING" => x.mode = "SEEKING"
    BY <1>5, <1>6, TickType
  <2>3. QED
    BY <1>7, <2>1, <2>2, ReacquireAssumption
<1> DEFINE h == Tracked(moved, raw)
<1>10. /\ h \in Histories
       /\ h.reach = Lesser(hist.reach + Greater(moved, 0)
                         + (IF Believed(moved, raw) THEN Margin ELSE 0),
                       PathLength + AllowanceCap)
       /\ h.cold = hist.cold
  BY <1>1, <1>2, TrackedType
<1> HIDE DEF h
<1>11. /\ fallback' \in FallbackStates
       /\ have_warm' \in BOOLEAN
       /\ res' \in Results
       /\ hist' \in Histories
       /\ hist'.reach = h.reach
       /\ have_warm' => ~hist'.cold
  <2>1. QpPhase(reacq', reject_run', h, qp)
    BY DEF TrackCycle, h
  <2>2. reject_run' \in Nat
    BY <1>4, ReacquireAssumption
  <2>3. have_warm \in BOOLEAN /\ (have_warm => ~h.cold)
    BY <1>10 DEF IInv, TypeOK, WarmStartFromThisAnchor
  <2>4. QED
    BY <1>2, <1>8, <1>10, <2>1, <2>2, <2>3, QpPhaseType
<1>12. gate'.accepted_arc \in Arcs
  <2>1. gate'.accepted_arc \in {gate.accepted_arc, raw}
    BY <1>1, <1>2, <1>3, GateAfterSound
  <2>2. QED
    BY <2>1 DEF IInv, ArcOnPath
<1>13. gate'.accepted_arc + gate'.budget <= hist'.reach
  <2>1. gate.accepted_arc + gate.budget <= hist.reach
    BY DEF IInv, AdvanceWithinMotion, TrackCycle
  <2> DEFINE fwd == Greater(moved, 0)
             noise == IF Believed(moved, raw) THEN Margin ELSE 0
  <2>2. fwd \in Int /\ noise \in Int
    BY <1>1, GateAssumption DEF Greater
  <2>3. /\ gate'.accepted_arc \in Int /\ gate'.budget \in Int
        /\ gate.accepted_arc \in Int /\ gate.budget \in Int
        /\ hist.reach \in Int /\ AllowanceCap \in Nat
        /\ gate'.budget <= AllowanceCap
    BY <1>2, <1>3, GateAssumption DEF Gates, Histories
  <2>4. gate'.accepted_arc <= PathLength
    BY <1>12, ArcsAreNaturals
  <2>5. gate'.accepted_arc + gate'.budget
          <= gate.accepted_arc + gate.budget + fwd + noise
    BY <1>1, <1>2, <1>3, GateAfterSound
  <2>6. hist'.reach = Lesser(hist.reach + fwd + noise, PathLength + AllowanceCap)
    BY <1>10, <1>11
  <2> HIDE DEF fwd, noise
  <2>7. QED
    BY <1>1, <2>1, <2>2, <2>3, <2>4, <2>5, <2>6 DEF Lesser
<1>14. UNCHANGED <<has_reference, gate_initialized>>
  BY DEF TrackCycle
<1>15. TypeOK'
  BY <1>3, <1>4, <1>8, <1>11, <1>14 DEF IInv, TypeOK
<1>16. SeekingIffRunExceeded' /\ WarmStartFromThisAnchor' /\ AdvanceWithinMotion'
  BY <1>8, <1>11, <1>13
     DEF SeekingIffRunExceeded, WarmStartFromThisAnchor, AdvanceWithinMotion
<1>17. ArcOnPath' /\ ProbationOpen' /\ RunIsShort' /\ EngagedWhenAnchored'
  BY <1>8, <1>9, <1>12, <1>14
     DEF ArcOnPath, ProbationOpen, RunIsShort, EngagedWhenAnchored, TrackCycle
<1>18. QED
  BY <1>15, <1>16, <1>17 DEF IInv

-----------------------------------------------------------------------------
(***************************************************************************)
(* Theorems.                                                               *)
(***************************************************************************)

\* Every step of the controller, whichever path computeCycle takes, preserves
\* the inductive invariant.
LEMMA NextInv == IInv /\ [Next]_vars => IInv'
<1> SUFFICES ASSUME IInv, [Next]_vars PROVE IInv'
  OBVIOUS
<1>1. CASE SetReference
  BY <1>1, SetReferenceInv
<1>2. CASE Cycle
  <2>1. CASE NoReferenceCycle \/ AmbiguousCycle
    BY <2>1, ReportInv
  <2>2. CASE LostCycle
    BY <2>2, LostInv
  <2>3. ASSUME NEW arc \in Arcs, NEW seg \in SegmentsAt(arc),
               NEW refused \in BOOLEAN, SeekingCycle(seg, refused)
        PROVE  IInv'
    BY <2>3, SeekingInv, ArcsAreNaturals
  <2>4. ASSUME NEW arc \in Arcs, NEW seg \in SegmentsAt(arc),
               CommitCycle(arc, seg)
        PROVE  IInv'
    BY <2>4, CommitInv, ArcsAreNaturals
  <2>5. ASSUME NEW raw \in Arcs, NEW qp \in QpAnswers, AnchorCycle(raw, qp)
        PROVE  IInv'
    BY <2>5, AnchorInv
  <2>6. ASSUME NEW raw \in Arcs, NEW qp \in QpAnswers,
               NEW moved \in Displacements, TrackCycle(moved, raw, qp)
        PROVE  IInv'
    BY <2>6, TrackInv, MpcCoreAssumption
  <2>7. QED
    BY <1>2, <2>1, <2>2, <2>3, <2>4, <2>5, <2>6 DEF Cycle
<1>3. CASE UNCHANGED vars
  BY <1>3 DEF vars, core, IInv, TypeOK, SeekingIffRunExceeded,
     WarmStartFromThisAnchor, AdvanceWithinMotion, ArcOnPath, ProbationOpen,
     RunIsShort, EngagedWhenAnchored
<1>4. QED
  BY <1>1, <1>2, <1>3 DEF Next

\* A fresh controller is an unanchored one.
LEMMA ProtocolInit == Init => Protocol!Init
BY DEF Init, Protocol!Init, phase, ResetGate

\* Every step of the controller is a step of the abstract protocol, or none.
LEMMA ProtocolStep ==
    IInv /\ [Next]_vars => [Protocol!Next]_(Protocol!protocol)
<1> SUFFICES ASSUME IInv, [Next]_vars
             PROVE  [Protocol!Next]_(Protocol!protocol)
  OBVIOUS
<1> DEFINE arc == gate.accepted_arc
<1>1. /\ reacq \in ReacquireStates /\ gate \in Gates /\ arc \in Nat
      /\ ~gate_initialized => reacq.mode = "NORMAL"
      /\ MaxRejectRun \in Nat /\ ReacquireTimeoutSteps \in Nat \ {0}
  BY ReacquireAssumption DEF IInv, TypeOK, EngagedWhenAnchored, Gates
<1>2. CASE SetReference
  <2>1. phase' = "unanchored" /\ arc' = 0
    BY <1>2 DEF SetReference, phase, ResetGate
  <2>2. QED
    BY <2>1 DEF Protocol!Next, Protocol!NewReference
<1>3. CASE NoReferenceCycle \/ AmbiguousCycle
  BY <1>3 DEF NoReferenceCycle, AmbiguousCycle, core, phase, Protocol!protocol
<1>4. CASE LostCycle
  <2>1. /\ reacq'.mode = "SEEKING"
        /\ reacq'.seeking_steps = ReacquireTimeoutSteps + 1
    BY <1>1, <1>4 DEF LostCycle, LoseProjection, ReacquireStates
  <2>2. phase' = "lost" /\ phase \in {"seeking", "lost"} /\ UNCHANGED arc
    BY <1>1, <1>4, <2>1 DEF LostCycle, phase, Lost
  <2>3. QED
    BY <2>2 DEF Protocol!Next, Protocol!GiveUp, Protocol!protocol
<1>5. ASSUME NEW seg \in Nat, NEW refused \in BOOLEAN, SeekingCycle(seg, refused)
      PROVE  [Protocol!Next]_(Protocol!protocol)
  <2>1. ~Lost(reacq) /\ reacq.mode = "SEEKING"
    BY <1>1, <1>5 DEF SeekingCycle, Lost, TimedOut, ReacquireStates
  <2>2. reacq'.mode = "SEEKING"
    BY <1>1, <1>5 DEF SeekingCycle, ObserveCandidate, ReacquireStates
  <2>3. reacq'.seeking_steps = CountBeat(reacq, refused)
    BY <1>1, <1>5 DEF SeekingCycle, ObserveCandidate, ReacquireStates
  <2>4. ~Lost(reacq')
    BY <1>1, <1>5, <2>3
       DEF SeekingCycle, Lost, TimedOut, CountBeat, ReacquireStates
  <2>5. UNCHANGED <<phase, arc>>
    BY <1>1, <1>5, <2>1, <2>2, <2>4 DEF SeekingCycle, phase
  <2>6. QED
    BY <2>5 DEF Protocol!protocol
<1>6. ASSUME NEW a \in Arcs, NEW seg \in Nat, CommitCycle(a, seg)
      PROVE  [Protocol!Next]_(Protocol!protocol)
  <2>1. ~Lost(reacq) /\ reacq.mode = "SEEKING"
    BY <1>1, <1>6 DEF CommitCycle, Commits, Lost, TimedOut, ReacquireStates
  <2>2. reacq'.mode = "PROBATION"
    BY <1>1, <1>6, CommitType DEF CommitCycle, IInv, RunIsShort
  <2>3. gate_initialized' = TRUE /\ arc' = a /\ a \in Nat
    BY <1>6, ArcsAreNaturals, AnchoredAtType DEF CommitCycle, Reanchor
  <2>4. phase = "seeking" /\ phase' = "probation"
    BY <1>1, <2>1, <2>2, <2>3 DEF phase, Lost
  <2>5. QED
    BY <2>3, <2>4 DEF Protocol!Next, Protocol!Commit
<1>7. ASSUME NEW raw \in Arcs, NEW qp \in QpAnswers, AnchorCycle(raw, qp)
      PROVE  [Protocol!Next]_(Protocol!protocol)
  <2>1. reacq.mode = "NORMAL" /\ reacq' = reacq
    BY <1>1, <1>7 DEF AnchorCycle, TickProbation
  <2>2. gate_initialized' = TRUE /\ arc' = raw /\ raw \in Nat
    BY <1>7, ArcsAreNaturals, AnchoredAtType DEF AnchorCycle
  <2>3. phase = "unanchored" /\ phase' = "tracking"
    BY <1>7, <2>1, <2>2 DEF AnchorCycle, phase, Lost
  <2>4. QED
    BY <2>2, <2>3 DEF Protocol!Next, Protocol!Anchor
<1>8. ASSUME NEW moved \in Displacements, NEW raw \in Arcs, NEW qp \in QpAnswers,
             TrackCycle(moved, raw, qp)
      PROVE  [Protocol!Next]_(Protocol!protocol)
  <2>1. /\ raw \in Nat /\ moved \in Int
        /\ gate_initialized /\ gate_initialized'
        /\ reacq.mode # "SEEKING"
        /\ gate' = GateAfter(moved, raw)
        /\ reject_run' = RejectRun(moved, raw)
    BY <1>8, ArcsAreNaturals, MpcCoreAssumption DEF TrackCycle
  <2>2. /\ phase \in {"tracking", "probation"}
        /\ phase = "tracking" <=> reacq.mode = "NORMAL"
    BY <1>1, <2>1 DEF phase, Lost, ReacquireStates, Modes
  <2>3. CASE LosesTrust(reject_run')
    <3>1. reacq' = EnterSeeking(reacq)
      <4>1. EnterSeeking(reacq).mode = "SEEKING"
        BY <1>1, ReacquireTypes
      <4>2. QED BY <1>8, <2>3, <4>1 DEF TrackCycle, TickProbation
    <3>2. reacq'.mode = "SEEKING" /\ reacq'.seeking_steps = 0
      BY <1>1, <3>1 DEF EnterSeeking, ReacquireStates
    <3>3. phase' = "seeking"
      BY <1>1, <2>1, <3>2 DEF phase, Lost
    <3>4. ~Believed(moved, raw)
      BY <1>1, <2>1, <2>3 DEF RejectRun, LosesTrust
    <3>5. arc' = arc
      BY <1>1, <2>1, <3>4, GateAfterSound
    <3>6. QED
      BY <2>2, <3>3, <3>5 DEF Protocol!Next, Protocol!LoseTrust
  <2>4. CASE ~LosesTrust(reject_run')
    <3>1. reacq' = TickProbation(reacq)
      BY <1>8, <2>4 DEF TrackCycle
    <3>2. /\ reacq'.mode \in {"NORMAL", "PROBATION"}
          /\ reacq.mode = "NORMAL" => reacq'.mode = "NORMAL"
      BY <1>1, <2>1, <3>1 DEF TickProbation, ReacquireStates, Modes
    <3>3. phase' \in {phase, "tracking"}
      BY <2>1, <2>2, <3>2 DEF phase, Lost
    <3>4. arc <= arc' /\ arc' <= arc + (Margin + AllowanceCap) /\ arc' \in Nat
      <4>1. arc <= arc' /\ arc' <= arc + Margin + AllowanceCap
        BY <1>1, <2>1, GateAfterSound
      <4>2. arc' \in Nat
        BY <1>1, <2>1, GateAfterSound DEF Gates
      <4>3. QED BY <1>1, <4>1, <4>2, GateAssumption
    <3>5. QED
      BY <2>2, <3>3, <3>4 DEF Protocol!Next, Protocol!Creep
  <2>5. QED BY <2>3, <2>4
<1>9. CASE UNCHANGED vars
  BY <1>9 DEF vars, core, phase, Protocol!protocol
<1>10. CASE Cycle
  <2>1. \A a \in Arcs : SegmentsAt(a) \subseteq Nat
    BY ArcsAreNaturals
  <2>2. QED
    BY <1>10, <1>3, <1>4, <1>5, <1>6, <1>7, <1>8, <2>1 DEF Cycle
<1>11. QED
  BY <1>2, <1>9, <1>10 DEF Next

\* The inductive invariant holds throughout.
THEOREM Invariance == Spec => []IInv
BY InitInv, NextInv, PTL DEF Spec

\* Every variable of the controller keeps its type: in particular the reject
\* run never passes its limit, the bank never passes its cap and the counters
\* of the protocol stay in their ranges.
THEOREM TypeCorrect == Spec => []TypeOK
<1>1. IInv => TypeOK
  BY DEF IInv
<1>2. QED BY <1>1, Invariance, PTL

\* The reachability gate never lets the accepted arc, together with the
\* allowance still banked, get ahead of the motion that has been seen.
THEOREM GateSound == Spec => []AdvanceWithinMotion
<1>1. IInv => AdvanceWithinMotion
  BY DEF IInv
<1>2. QED BY <1>1, Invariance, PTL

\* SEEKING and a reject run beyond its limit go together.
THEOREM SeekingSound == Spec => []SeekingIffRunExceeded
<1>1. IInv => SeekingIffRunExceeded
  BY DEF IInv
<1>2. QED BY <1>1, Invariance, PTL

\* No warm start survives a change of anchor.
THEOREM WarmStartSound == Spec => []WarmStartFromThisAnchor
<1>1. IInv => WarmStartFromThisAnchor
  BY DEF IInv
<1>2. QED BY <1>1, Invariance, PTL

\* The controller implements the abstract protocol: the arc it steers by only
\* creeps, except where a new anchor is taken, and a lost projection stays
\* lost until there is a new reference.
THEOREM ProtocolImplemented == Spec => ProtocolSafety
BY Invariance, ProtocolInit, ProtocolStep, PTL
   DEF Spec, ProtocolSafety, Protocol!SafeSpec

-----------------------------------------------------------------------------
(***************************************************************************)
(* The reject cap, through the ladder.                                     *)
(***************************************************************************)

\* In the core the ladder is only ever engaged from standstill: a failed QP
\* offers it the zero command.
LadderAtRest == fallback.last_v = 0

\* A healthy command passes the ladder no faster than it was asked for, unless
\* it was asked to reverse; the speed the ladder remembers is not touched.
LEMMA ApplyHealthy ==
    ASSUME NEW f \in FallbackStates, NEW cmd \in Commands,
           NEW limit \in Nat, cmd.v <= limit
    PROVE  /\ Apply(f, cmd, "OK").v <= limit
           /\ Apply(f, cmd, "OK").state.last_v = f.last_v
<1> DEFINE v == Clamp(cmd.v, VMin, VMax)
           health == IF (v # cmd.v \/ cmd.overturn) /\ "OK" = "OK"
                     THEN "SAFETY_CLAMPED" ELSE "OK"
           stage == IF v # cmd.v \/ cmd.overturn THEN 1 ELSE 0
           g == [f EXCEPT !.active = FALSE, !.degrade_cycles = 0]
           k == [f EXCEPT !.active = FALSE]
<1>1. v <= limit
  BY FallbackAssumption DEF Clamp, Commands
<1>2. g.last_v = f.last_v /\ k.last_v = f.last_v
  BY DEF FallbackStates
<1>3. \/ Apply(f, cmd, "OK") = Outcome(g, 0, "NAN_OUTPUT", 3)
      \/ Apply(f, cmd, "OK") = Outcome(k, v, health, stage)
  BY DEF Apply, StopNow, Pass, Critical, QpDegrade
<1> HIDE DEF v, health, stage, g, k
<1>4. QED
  BY <1>1, <1>2, <1>3 DEF Outcome

\* From standstill the ladder answers with standstill, and so does a critical
\* stop.
LEMMA ApplyFailed ==
    ASSUME NEW f \in FallbackStates, f.last_v = 0,
           NEW health \in {"QP_INFEASIBLE", "NAN_OUTPUT"}
    PROVE  /\ Apply(f, Zero, health).v = 0
           /\ Apply(f, Zero, health).state.last_v = 0
<1> DEFINE g == Ladder(f, Zero)
           k == [g EXCEPT !.active = FALSE]
           z == [f EXCEPT !.active = FALSE, !.degrade_cycles = 0]
<1>1. g.last_v = 0
  BY FallbackAssumption DEF Ladder, Zero, Magnitude, Decelerated
<1>2. k.last_v = 0
  BY <1>1 DEF Ladder
<1>3. z.last_v = 0
  BY DEF FallbackStates
<1>4. \/ Apply(f, Zero, health) = Outcome(k, 0, "EMERGENCY_STOP", 3)
      \/ Apply(f, Zero, health) = Outcome(g, g.last_v, "FALLBACK_ACTIVE", 2)
      \/ Apply(f, Zero, health) = Outcome(z, 0, health, 3)
  BY DEF Apply, Zero, Degrade, StopNow, Critical, QpDegrade
<1> HIDE DEF g, k, z
<1>5. QED
  BY <1>1, <1>2, <1>3, <1>4 DEF Outcome

\* The tail of a cycle with rejections, and in Python of one in probation,
\* commands no more than v_probation, and keeps the ladder at rest.
LEMMA QpPhaseSlow ==
    ASSUME fallback \in FallbackStates, LadderAtRest,
           NEW r \in ReacquireStates, NEW rejects \in Nat, NEW h \in Histories,
           NEW qp \in QpAnswers, QpPhase(r, rejects, h, qp)
    PROVE  /\ LadderAtRest'
           /\ rejects > 0 => res'.v_cmd <= VProbation
           /\ Port = "python" /\ res'.in_probation => res'.v_cmd <= VProbation
<1> DEFINE speed == CappedSpeed(r, rejects, qp.cmd.v)
           asked == [qp.cmd EXCEPT !.v = speed]
           capped == rejects > 0 \/ (Port = "python" /\ r.mode = "PROBATION")
<1>1. VProbation \in Nat
  BY MpcCoreAssumption, FallbackAssumption
<1>2. Port = "python" /\ res'.in_probation => capped
  BY DEF QpPhase
<1>3. CASE qp.status = "kFailed"
  <2> DEFINE out == Apply(fallback, Zero, FailureHealth(qp))
  <2>1. fallback' = out.state /\ res'.v_cmd = out.v
    BY <1>3 DEF QpPhase
  <2>2. out.v = 0 /\ out.state.last_v = 0
    BY ApplyFailed, QpAnswerType DEF LadderAtRest
  <2>3. QED
    BY <1>1, <2>1, <2>2 DEF LadderAtRest
<1>4. CASE qp.status # "kFailed"
  <2> DEFINE out == Apply(fallback, asked, "OK")
  <2>1. fallback' = out.state /\ res'.v_cmd = out.v
    BY <1>4 DEF QpPhase
  <2>2. qp.cmd \in Commands
    BY QpAnswerType
  <2>3. speed \in Int /\ (capped => speed <= VProbation)
    BY <1>1, <2>2, MpcCoreAssumption DEF CappedSpeed, Lesser, Commands
  <2> HIDE DEF speed
  <2>4. asked \in Commands /\ asked.v = speed
    BY <2>2, <2>3 DEF Commands
  <2> HIDE DEF asked
  <2>5. capped => out.v <= VProbation
    BY <1>1, <2>3, <2>4, ApplyHealthy
  <2>6. out.state.last_v = fallback.last_v
    <3>1. PICK limit \in Nat : asked.v <= limit
      <4>1. asked.v \in Int
        BY <2>3, <2>4
      <4>2. CASE asked.v <= 0
        BY <4>2
      <4>3. CASE asked.v > 0
        BY <4>1, <4>3
      <4>4. QED BY <4>1, <4>2, <4>3
    <3>2. QED BY <2>4, <3>1, ApplyHealthy
  <2>7. QED
    BY <1>2, <2>1, <2>5, <2>6 DEF LadderAtRest
<1>5. QED BY <1>3, <1>4

\* What keeps the speed down: the two caps, and a ladder at rest.
SlowInv ==
    /\ RejectedCyclesAreSlow
    /\ Port = "python" => ProbationCapsSpeed
    /\ LadderAtRest

\* A fresh controller is at rest.
LEMMA SlowInit == Init => SlowInv
<1>1. Init => res = DefaultResult /\ reject_run = 0 /\ fallback = ResetFallback
  BY DEF Init
<1>2. DefaultResult.v_cmd = 0 /\ ResetFallback.last_v = 0
  BY DEF DefaultResult, ResetFallback
<1>3. VProbation \in Nat
  BY MpcCoreAssumption, FallbackAssumption
<1>4. QED
  BY <1>1, <1>2, <1>3
     DEF SlowInv, RejectedCyclesAreSlow, ProbationCapsSpeed, LadderAtRest

\* Every step preserves it.
LEMMA SlowNext == IInv /\ SlowInv /\ [Next]_vars => SlowInv'
<1> SUFFICES ASSUME IInv, SlowInv, [Next]_vars PROVE SlowInv'
  OBVIOUS
<1>1. /\ fallback \in FallbackStates /\ VProbation \in Nat
      /\ reject_run \in Nat /\ MaxRejectRun \in Nat
  BY MpcCoreAssumption, FallbackAssumption, ReacquireAssumption
     DEF IInv, TypeOK
<1>2. CASE SetReference
  BY <1>2 DEF SetReference, SlowInv, RejectedCyclesAreSlow,
              ProbationCapsSpeed, LadderAtRest, ResetFallback
<1>3. CASE NoReferenceCycle \/ AmbiguousCycle
  <2>1. res'.v_cmd = 0 /\ fallback' = fallback
    BY <1>3 DEF NoReferenceCycle, AmbiguousCycle, EmergencyStop,
                DefaultResult, core
  <2>2. QED BY <1>1, <2>1 DEF SlowInv, RejectedCyclesAreSlow,
                              ProbationCapsSpeed, LadderAtRest
<1>4. CASE LostCycle
  <2>1. res'.v_cmd = 0 /\ fallback' = fallback
    BY <1>4 DEF LostCycle, EmergencyStop, DefaultResult
  <2>2. QED BY <1>1, <2>1 DEF SlowInv, RejectedCyclesAreSlow,
                              ProbationCapsSpeed, LadderAtRest
<1>5. ASSUME NEW seg \in Nat, NEW refused \in BOOLEAN, SeekingCycle(seg, refused)
      PROVE  SlowInv'
  <2>1. res'.v_cmd = 0 /\ fallback' = fallback
    BY <1>5 DEF SeekingCycle, SeekingResult, DefaultResult
  <2>2. QED BY <1>1, <2>1 DEF SlowInv, RejectedCyclesAreSlow,
                              ProbationCapsSpeed, LadderAtRest
<1>6. ASSUME NEW arc \in Arcs, NEW seg \in Nat, CommitCycle(arc, seg)
      PROVE  SlowInv'
  <2>1. res'.v_cmd = 0 /\ fallback' = fallback
    BY <1>6 DEF CommitCycle, SeekingResult, DefaultResult
  <2>2. QED BY <1>1, <2>1 DEF SlowInv, RejectedCyclesAreSlow,
                              ProbationCapsSpeed, LadderAtRest
<1>7. ASSUME NEW raw \in Arcs, NEW qp \in QpAnswers, AnchorCycle(raw, qp)
      PROVE  SlowInv'
  <2>1. /\ raw \in Nat /\ IInv'
        /\ QpPhase(reacq', 0, AnchoredAt(raw), qp) /\ reject_run' = 0
    BY <1>7, ArcsAreNaturals, AnchorInv DEF AnchorCycle
  <2>2. reacq' \in ReacquireStates /\ AnchoredAt(raw) \in Histories /\ 0 \in Nat
    BY <2>1, AnchoredAtType DEF IInv, TypeOK
  <2>3. /\ LadderAtRest'
        /\ Port = "python" /\ res'.in_probation => res'.v_cmd <= VProbation
    BY <1>1, <2>1, <2>2, QpPhaseSlow DEF SlowInv
  <2>4. QED
    BY <2>1, <2>3 DEF SlowInv, RejectedCyclesAreSlow, ProbationCapsSpeed
<1>8. ASSUME NEW raw \in Arcs, NEW qp \in QpAnswers,
             NEW moved \in Displacements, TrackCycle(moved, raw, qp)
      PROVE  SlowInv'
  <2>1. /\ raw \in Nat /\ moved \in Int /\ IInv'
        /\ QpPhase(reacq', reject_run', Tracked(moved, raw), qp)
    BY <1>8, ArcsAreNaturals, MpcCoreAssumption, TrackInv DEF TrackCycle
  <2>2. reacq' \in ReacquireStates /\ reject_run' \in Nat
    BY <1>1, <2>1 DEF IInv, TypeOK
  <2>3. Tracked(moved, raw) \in Histories
    BY <2>1, TrackedType DEF IInv, TypeOK
  <2>4. /\ LadderAtRest'
        /\ reject_run' > 0 => res'.v_cmd <= VProbation
        /\ Port = "python" /\ res'.in_probation => res'.v_cmd <= VProbation
    BY <1>1, <2>1, <2>2, <2>3, QpPhaseSlow DEF SlowInv
  <2>5. res'.v_cmd \in Int
    BY <2>1 DEF IInv, TypeOK, Results
  <2>6. QED
    BY <1>1, <2>2, <2>4, <2>5
       DEF SlowInv, RejectedCyclesAreSlow, ProbationCapsSpeed
<1>9. CASE UNCHANGED vars
  BY <1>9 DEF vars, core, SlowInv, RejectedCyclesAreSlow, ProbationCapsSpeed,
              LadderAtRest
<1>10. \A arc \in Arcs : SegmentsAt(arc) \subseteq Nat
  BY ArcsAreNaturals
<1>11. QED
  BY <1>2, <1>3, <1>4, <1>5, <1>6, <1>7, <1>8, <1>9, <1>10 DEF Next, Cycle

LEMMA SlowInvariance == Spec => []SlowInv
BY SlowInit, SlowNext, Invariance, PTL DEF Spec

\* The reject cap of A5.0 is what leaves the controller: whatever the ladder
\* and the actuator clamp make of a command, a cycle that was rejected asks for
\* no more than v_probation.
THEOREM RejectCapSound == Spec => []RejectedCyclesAreSlow
<1>1. SlowInv => RejectedCyclesAreSlow
  BY DEF SlowInv
<1>2. QED BY <1>1, SlowInvariance, PTL

\* In the Python core so does every cycle that reports probation.
THEOREM CapsSound == Spec => []CappedCyclesAreSlow
<1>1. SlowInv => CappedCyclesAreSlow
  BY DEF SlowInv, CappedCyclesAreSlow
<1>2. QED BY <1>1, SlowInvariance, PTL
-----------------------------------------------------------------------------
(***************************************************************************)
(* What a commit rests on.                                                 *)
(***************************************************************************)

\* The last k elements of e are s.
EndsWith(e, k, s) ==
    k <= Len(e) /\ \A i \in (Len(e) - k + 1)..Len(e) : e[i] = s

\* The run the protocol counts is the end of the evidence of this very episode:
\* the last stable_run candidates were the segment it remembers.
RunIsEvidence ==
    reacq.mode = "SEEKING" =>
        /\ Len(hist.evidence) <= ReacquireStableSteps
        /\ EndsWith(hist.evidence, reacq.stable_run, reacq.stable_seg)

\* The last n elements of a sequence, one by one.
LEMMA LastNElements ==
    ASSUME NEW S, NEW e \in Seq(S), NEW n \in Nat, Len(e) <= n + 1, n > 0
    PROVE  /\ Len(LastN(e, n)) = IF Len(e) <= n THEN Len(e) ELSE n
           /\ \A i \in 1..Len(LastN(e, n)) :
                 LastN(e, n)[i] = e[i + (Len(e) - Len(LastN(e, n)))]
<1>1. Len(e) \in Nat
  BY LenProperties
<1>2. CASE Len(e) <= n
  <2>1. LastN(e, n) = e
    BY <1>2 DEF LastN
  <2>2. QED BY <1>1, <1>2, <2>1
<1>3. CASE Len(e) > n
  <2>1. Len(e) = n + 1
    BY <1>1, <1>3
  <2>2. LastN(e, n) = SubSeq(e, 2, n + 1)
    BY <1>3, <2>1 DEF LastN
  <2>3. /\ Len(SubSeq(e, 2, n + 1)) = n
        /\ \A i \in 1..n : SubSeq(e, 2, n + 1)[i] = e[2 + i - 1]
    <3>1. 2 \in 1..(Len(e) + 1) /\ n + 1 \in 1..Len(e)
      BY <2>1
    <3>2. \A i \in 1..(n + 1 - 2 + 1) : SubSeq(e, 2, n + 1)[i] = e[2 + i - 1]
      BY <3>1, SubSeqProperties
    <3>3. Len(SubSeq(e, 2, n + 1)) = n + 1 - 2 + 1
      BY <3>1, SubSeqProperties
    <3>4. QED BY <3>2, <3>3
  <2>4. \A i \in 1..n : 2 + i - 1 = i + (n + 1 - n)
    OBVIOUS
  <2>5. QED BY <1>3, <2>1, <2>2, <2>3, <2>4
<1>4. QED BY <1>1, <1>2, <1>3

\* One more candidate: the evidence stays within its bound and ends with it, and
\* a run of that very candidate is one longer.
LEMMA ObservedEnds ==
    ASSUME NEW S, NEW e \in Seq(S), NEW x \in S, NEW n \in Nat, n > 0,
           Len(e) <= n
    PROVE  LET o == LastN(Append(e, x), n) IN
           /\ Len(o) <= n
           /\ EndsWith(o, 0, x)
           /\ EndsWith(o, 1, x)
           /\ \A k \in Nat : k < n /\ EndsWith(e, k, x) => EndsWith(o, k + 1, x)
<1> DEFINE a == Append(e, x)
           o == LastN(a, n)
<1>1. /\ a \in Seq(S) /\ Len(a) = Len(e) + 1 /\ Len(e) \in Nat
      /\ \A i \in 1..Len(e) : a[i] = e[i]
      /\ a[Len(e) + 1] = x
  BY AppendProperties, LenProperties
<1> HIDE DEF a
<1>2. Len(a) <= n + 1
  BY <1>1
<1>3. /\ Len(o) = IF Len(a) <= n THEN Len(a) ELSE n
      /\ \A i \in 1..Len(o) : o[i] = a[i + (Len(a) - Len(o))]
  BY <1>1, <1>2, LastNElements
<1> HIDE DEF o
<1>4. Len(o) \in Nat /\ Len(o) > 0 /\ Len(o) <= n /\ Len(o) <= Len(a)
  BY <1>1, <1>3
<1>5. o[Len(o)] = x
  <2>1. o[Len(o)] = a[Len(o) + (Len(a) - Len(o))]
    <3>1. Len(o) \in 1..Len(o)
      BY <1>4
    <3>2. QED BY <1>3, <3>1, Zenon
  <2>2. Len(o) + (Len(a) - Len(o)) = Len(e) + 1
    BY <1>1, <1>4
  <2>3. QED BY <1>1, <2>1, <2>2
<1>6. EndsWith(o, 0, x) /\ EndsWith(o, 1, x)
  BY <1>4, <1>5 DEF EndsWith
<1>7. ASSUME NEW k \in Nat, k < n, EndsWith(e, k, x)
      PROVE  EndsWith(o, k + 1, x)
  <2>1. k <= Len(e)
    BY <1>7 DEF EndsWith
  <2>2. k + 1 <= Len(o)
    BY <1>1, <1>3, <1>7, <2>1
  <2>3. ASSUME NEW i \in (Len(o) - (k + 1) + 1)..Len(o)
        PROVE  o[i] = x
    <3> DEFINE j == i + (Len(a) - Len(o))
    <3>1. i \in 1..Len(o) /\ i \in Int
      BY <1>4, <2>2
    <3>2. o[i] = a[j]
      BY <1>3, <3>1
    <3>3. j \in (Len(e) - k + 1)..(Len(e) + 1) /\ j \in 1..(Len(e) + 1)
      BY <1>1, <1>4, <2>1, <2>3, <3>1
    <3> HIDE DEF j
    <3>4. CASE j = Len(e) + 1
      BY <1>1, <3>2, <3>4
    <3>5. CASE j # Len(e) + 1
      <4>1. j \in (Len(e) - k + 1)..Len(e) /\ j \in 1..Len(e)
        BY <1>1, <3>3, <3>5
      <4>2. a[j] = e[j]
        BY <1>1, <4>1
      <4>3. e[j] = x
        BY <1>7, <4>1 DEF EndsWith
      <4>4. QED BY <3>2, <4>2, <4>3
    <3>6. QED BY <3>4, <3>5
  <2>4. QED BY <2>2, <2>3 DEF EndsWith
<1>8. QED
  BY <1>4, <1>6, <1>7 DEF o, a

\* What a beat of SEEKING, refused or not, makes of the run and the evidence.
LEMMA BeatIsEvidence ==
    ASSUME IInv, RunIsEvidence, reacq.mode = "SEEKING",
           NEW seg \in Nat, NEW refused \in BOOLEAN
    PROVE  LET x == IF refused THEN NoSeg ELSE seg IN
           /\ Len(Observed(x)) <= ReacquireStableSteps
           /\ EndsWith(Observed(x), StableRun(reacq, seg, refused), x)
<1> DEFINE x == IF refused THEN NoSeg ELSE seg
           o == Observed(x)
           e == hist.evidence
           n == ReacquireStableSteps
<1>1. /\ e \in Seq(Nat \cup {NoSeg}) /\ x \in Nat \cup {NoSeg}
      /\ n \in Nat /\ n > 0 /\ Len(e) <= n
  BY ReacquireAssumption DEF IInv, TypeOK, Histories, RunIsEvidence
<1>2. o = LastN(Append(e, x), n)
  BY DEF Observed
<1>3. /\ reacq.stable_run \in Nat /\ reacq.stable_run < n
      /\ EndsWith(e, reacq.stable_run, reacq.stable_seg)
  BY ReacquireAssumption
     DEF IInv, TypeOK, ReacquireStates, RunIsShort, RunIsEvidence
<1> HIDE DEF e, n, o, x
<1>4. /\ Len(o) <= n /\ EndsWith(o, 0, x) /\ EndsWith(o, 1, x)
      /\ \A k \in Nat : k < n /\ EndsWith(e, k, x) => EndsWith(o, k + 1, x)
  BY <1>1, <1>2, ObservedEnds
<1>5. CASE refused
  <2>1. StableRun(reacq, seg, refused) = 0
    BY <1>5 DEF StableRun
  <2>2. QED BY <1>4, <2>1 DEF o, x, n
<1>6. CASE ~refused /\ seg = reacq.stable_seg
  <2>1. StableRun(reacq, seg, refused) = reacq.stable_run + 1
    BY <1>6 DEF StableRun
  <2>2. x = reacq.stable_seg
    BY <1>6 DEF x
  <2>3. EndsWith(o, reacq.stable_run + 1, x)
    BY <1>3, <1>4, <2>2
  <2>4. QED BY <1>4, <2>1, <2>3 DEF o, x, n
<1>7. CASE ~refused /\ seg # reacq.stable_seg
  <2>1. StableRun(reacq, seg, refused) = 1
    BY <1>7 DEF StableRun
  <2>2. QED BY <1>4, <2>1 DEF o, x, n
<1>8. QED BY <1>5, <1>6, <1>7
\* Every step keeps the run and the evidence together.
LEMMA EvidenceStep == IInv /\ RunIsEvidence /\ [Next]_vars => RunIsEvidence'
<1> SUFFICES ASSUME IInv, RunIsEvidence, [Next]_vars PROVE RunIsEvidence'
  OBVIOUS
<1>1. reacq \in ReacquireStates /\ hist \in Histories
  BY DEF IInv, TypeOK
<1>2. CASE SetReference
  BY <1>2 DEF SetReference, FreshReacquire, RunIsEvidence
<1>3. CASE NoReferenceCycle \/ AmbiguousCycle \/ UNCHANGED vars
  <2>1. reacq' = reacq /\ hist' = hist
    BY <1>3 DEF NoReferenceCycle, AmbiguousCycle, vars, core
  <2>2. QED BY <2>1, Zenon DEF RunIsEvidence
<1>4. CASE LostCycle
  <2>1. /\ reacq'.stable_run = reacq.stable_run
        /\ reacq'.stable_seg = reacq.stable_seg
    BY <1>1, <1>4 DEF LostCycle, LoseProjection, ReacquireStates
  <2>2. reacq.mode = "SEEKING" /\ hist' = hist
    BY <1>4 DEF LostCycle
  <2>3. QED BY <2>1, <2>2, Zenon DEF RunIsEvidence
<1>5. ASSUME NEW seg \in Nat, NEW refused \in BOOLEAN, SeekingCycle(seg, refused)
      PROVE  RunIsEvidence'
  <2> DEFINE x == IF refused THEN NoSeg ELSE seg
             o == Observed(x)
             run == StableRun(reacq, seg, refused)
  <2>1. Len(o) <= ReacquireStableSteps /\ EndsWith(o, run, x)
    BY <1>5, BeatIsEvidence DEF SeekingCycle
  <2>2. /\ reacq' = ObserveCandidate(reacq, seg, refused)
        /\ hist' = [hist EXCEPT !.evidence = o]
    BY <1>5 DEF SeekingCycle
  <2> HIDE DEF o
  <2>3. hist'.evidence = o
    BY <1>1, <2>2 DEF Histories
  <2>4. reacq'.stable_run = run /\ reacq'.stable_seg = x
    BY <1>1, <2>2 DEF ObserveCandidate, ReacquireStates
  <2>5. QED BY <2>1, <2>3, <2>4, Zenon DEF RunIsEvidence
<1>6. ASSUME NEW arc \in Arcs, NEW seg \in Nat, CommitCycle(arc, seg)
      PROVE  RunIsEvidence'
  <2>1. reacq'.mode = "PROBATION"
    BY <1>6, CommitType DEF CommitCycle, IInv, TypeOK, RunIsShort
  <2>2. QED BY <2>1 DEF RunIsEvidence
<1>7. ASSUME NEW raw \in Arcs, NEW qp \in QpAnswers, AnchorCycle(raw, qp)
      PROVE  RunIsEvidence'
  <2>1. reacq'.mode # "SEEKING"
    BY <1>1, <1>7, TickType DEF AnchorCycle, IInv, ProbationOpen
  <2>2. QED BY <2>1 DEF RunIsEvidence
<1>8. ASSUME NEW raw \in Arcs, NEW qp \in QpAnswers,
             NEW moved \in Displacements, TrackCycle(moved, raw, qp)
      PROVE  RunIsEvidence'
  <2>1. reacq.mode # "SEEKING" /\ reject_run' = RejectRun(moved, raw)
    BY <1>8 DEF TrackCycle
  <2>2. CASE LosesTrust(reject_run')
    <3>1. reacq' = EnterSeeking(reacq)
      <4>1. EnterSeeking(reacq).mode = "SEEKING"
        BY <1>1, ReacquireTypes
      <4>2. QED BY <1>8, <2>2, <4>1 DEF TrackCycle, TickProbation
    <3>2. reacq'.stable_run = 0
      BY <1>1, <3>1 DEF EnterSeeking, ReacquireStates
    <3>3. hist'.evidence = <<>>
      <4> DEFINE h == Tracked(moved, raw)
      <4>1. h.evidence = <<>>
        BY <1>1, <2>1, <2>2 DEF Tracked, Histories
      <4>2. \E c \in BOOLEAN : hist' = [h EXCEPT !.cold = c]
        BY <1>8 DEF TrackCycle, QpPhase
      <4>3. h \in Histories
        <5>1. raw \in Nat /\ moved \in Int /\ gate \in Gates
          BY ArcsAreNaturals, MpcCoreAssumption DEF IInv, TypeOK
        <5>2. QED BY <1>1, <5>1, TrackedType
      <4> HIDE DEF h
      <4>4. QED BY <4>1, <4>2, <4>3 DEF Histories
    <3>4. Len(<<>>) = 0 /\ ReacquireStableSteps \in Nat
      BY ReacquireAssumption
    <3>5. QED BY <3>2, <3>3, <3>4 DEF RunIsEvidence, EndsWith
  <2>3. CASE ~LosesTrust(reject_run')
    <3>1. reacq' = TickProbation(reacq)
      BY <1>8, <2>3 DEF TrackCycle
    <3>2. reacq'.mode # "SEEKING"
      BY <1>1, <2>1, <3>1, TickType DEF IInv, ProbationOpen
    <3>3. QED BY <3>2 DEF RunIsEvidence
  <2>4. QED BY <2>2, <2>3
<1>9. \A arc \in Arcs : SegmentsAt(arc) \subseteq Nat
  BY ArcsAreNaturals
<1>10. QED
  BY <1>2, <1>3, <1>4, <1>5, <1>6, <1>7, <1>8, <1>9 DEF Next, Cycle

\* A step from SEEKING to PROBATION is the commit, and the beats behind it are
\* the evidence the protocol asks for.
LEMMA CommitStep ==
    ASSUME IInv, RunIsEvidence, [Next]_vars,
           reacq.mode = "SEEKING", reacq'.mode = "PROBATION"
    PROVE  \E seg \in 0..(NumSegments - 1) :
              hist'.evidence = [i \in 1..ReacquireStableSteps |-> seg]
<1>1. reacq \in ReacquireStates /\ hist \in Histories
  BY DEF IInv, TypeOK
<1>2. ~SetReference
  BY DEF SetReference, FreshReacquire
<1>3. ~NoReferenceCycle /\ ~AmbiguousCycle /\ ~(UNCHANGED vars)
  BY DEF NoReferenceCycle, AmbiguousCycle, core, vars
<1>4. ~LostCycle
  BY <1>1 DEF LostCycle, LoseProjection, ReacquireStates
<1>5. ASSUME NEW seg \in Nat, NEW refused \in BOOLEAN, SeekingCycle(seg, refused)
      PROVE  FALSE
  BY <1>1, <1>5, ObserveType DEF SeekingCycle
<1>6. \A raw \in Arcs, qp \in QpAnswers :
        /\ ~AnchorCycle(raw, qp)
        /\ \A moved \in Displacements : ~TrackCycle(moved, raw, qp)
  BY DEF AnchorCycle, TrackCycle
<1>7. \A arc \in Arcs : SegmentsAt(arc) \subseteq Nat
  BY ArcsAreNaturals
<1>8. PICK arc \in Arcs, seg \in Nat :
        seg \in SegmentsAt(arc) /\ CommitCycle(arc, seg)
  BY <1>2, <1>3, <1>4, <1>5, <1>6, <1>7 DEF Next, Cycle
<1> DEFINE n == ReacquireStableSteps
           o == Observed(seg)
           h == AnchoredAt(arc)
<1>9. hist'.evidence = o
  <2>1. hist' = [h EXCEPT !.evidence = o]
    BY <1>8 DEF CommitCycle
  <2>2. h \in Histories
    BY ArcsAreNaturals, AnchoredAtType
  <2> HIDE DEF h, o
  <2>3. QED BY <2>1, <2>2 DEF Histories
<1>10. o \in Seq(Nat \cup {NoSeg}) /\ n \in Nat
  BY <1>1, AppendLastNType, ReacquireAssumption DEF Observed, Histories
<1> DEFINE run == StableRun(reacq, seg, FALSE)
<1>11. Len(o) <= n /\ EndsWith(o, run, seg)
  BY BeatIsEvidence
<1>12. run >= n /\ run \in Nat
  BY <1>1, <1>8 DEF CommitCycle, Commits, StableRun, ReacquireStates
<1> HIDE DEF o, n, run
<1>13. Len(o) = n /\ \A i \in 1..n : o[i] = seg
  <2>1. Len(o) \in Nat
    BY <1>10, LenProperties
  <2>2. /\ run <= Len(o)
        /\ \A i \in (Len(o) - run + 1)..Len(o) : o[i] = seg
    BY <1>11, Zenon DEF EndsWith
  <2>3. Len(o) = n /\ run = Len(o)
    BY <1>10, <1>11, <1>12, <2>1, <2>2
  <2>4. Len(o) - run + 1 = 1
    BY <2>1, <2>3
  <2>5. QED BY <2>2, <2>3, <2>4, Zenon
<1>14. o = [i \in 1..n |-> seg]
  <2>1. o = [i \in 1..Len(o) |-> o[i]]
    BY <1>10, LenProperties
  <2>2. QED BY <1>13, <2>1
<1>15. seg \in 0..(NumSegments - 1)
  BY <1>8 DEF SegmentsAt
<1>16. QED BY <1>9, <1>14, <1>15 DEF n

LEMMA EvidenceInvariance == Spec => []RunIsEvidence
<1>1. Init => RunIsEvidence
  BY DEF Init, FreshReacquire, RunIsEvidence
<1>2. QED BY <1>1, EvidenceStep, Invariance, PTL DEF Spec

\* Whatever the projections of an episode were, and however often they were
\* refused, a commit is backed by ReacquireStableSteps beats of this very
\* episode on one and the same segment.
THEOREM CommitSound == Spec => CommitOnlyOnStableEvidence
<1>1. IInv /\ RunIsEvidence /\ [Next]_vars
        => (reacq.mode = "SEEKING" /\ reacq'.mode = "PROBATION"
              => \E seg \in 0..(NumSegments - 1) :
                    hist'.evidence = [i \in 1..ReacquireStableSteps |-> seg])
  BY CommitStep
<1>2. QED
  BY <1>1, Invariance, EvidenceInvariance, PTL
     DEF Spec, CommitOnlyOnStableEvidence
=============================================================================
