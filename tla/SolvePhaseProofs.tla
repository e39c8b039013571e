---------------------------- MODULE SolvePhaseProofs ----------------------------
(***************************************************************************)
(* Theorems about FallbackLadder, for every set of speeds, every bound and *)
(* every deceleration, and about SolvePhase, for every horizon, path,      *)
(* weight and plan: the promises of FallbackPolicy::apply, and that the    *)
(* condensed QP is the model rolled forward.                               *)
(***************************************************************************)
EXTENDS SolvePhase, SequenceTheorems, WellFoundedInduction, TLAPS

-----------------------------------------------------------------------------
(***************************************************************************)
(* The ladder on its own.                                                  *)
(***************************************************************************)

\* The ladder is engaged exactly while failures follow one another, has counted
\* them, and remembers the speed it answered with.
Engaged ==
    /\ policy.active <=> failures > 0
    /\ failures > 0 => policy.degrade_cycles = failures /\ answer.v = policy.last_v

LadderInv == LadderTypeOK /\ HoldIsBounded /\ Engaged

\* The state of the ladder after a degraded cycle.
LEMMA LadderFields ==
    ASSUME NEW f \in FallbackStates, NEW cmd \in Commands
    PROVE  LET g == Ladder(f, cmd) IN
           /\ g \in FallbackStates
           /\ g.active
           /\ g.degrade_cycles = IF f.active THEN f.degrade_cycles + 1 ELSE 1
           /\ f.active => g.last_v = Greatest(0, f.last_v - DecelStep)
           /\ ~f.active => g.last_v <= Greatest(0, Magnitude(cmd.v) - DecelStep)
BY FallbackAssumption
   DEF Ladder, Decelerated, Magnitude, FallbackStates, Commands, Greatest

\* What one call of apply does, by rung: it stops, it degrades, or it passes
\* the command on; only the middle one leaves the ladder engaged.
LEMMA Rungs ==
    ASSUME NEW f \in FallbackStates, NEW cmd \in Commands,
           NEW health \in HealthStates
    PROVE  LET out == Apply(f, cmd, health)
               g == Ladder(f, cmd)
           IN  /\ out.state \in FallbackStates
               /\ [v |-> out.v, health |-> out.health, stage |-> out.stage] \in Answers
               /\ ~(health \in QpDegrade /\ cmd.finite) => ~out.state.active
               /\ (health \in QpDegrade /\ cmd.finite /\ Exhausted(g))
                    => out.health = "EMERGENCY_STOP" /\ ~out.state.active
               /\ (health \in QpDegrade /\ cmd.finite /\ ~Exhausted(g))
                    => out.state = g /\ out.v = g.last_v
                       /\ out.health = "FALLBACK_ACTIVE"
<1> DEFINE out == Apply(f, cmd, health)
           g == Ladder(f, cmd)
           reply == [v |-> out.v, health |-> out.health, stage |-> out.stage]
<1>1. g \in FallbackStates /\ g.last_v \in Int
  <2>1. g \in FallbackStates
    BY LadderFields
  <2> HIDE DEF g
  <2>2. QED BY <2>1 DEF FallbackStates
<1>2. QpDegrade \cap Critical = {} /\ "EMERGENCY_STOP" \in HealthStates
      /\ "NAN_OUTPUT" \in HealthStates /\ "FALLBACK_ACTIVE" \in HealthStates
      /\ "SAFETY_CLAMPED" \in HealthStates
  BY DEF QpDegrade, Critical, HealthStates
<1>3. CASE ~cmd.finite \/ (cmd.finite /\ health \in Critical)
  <2> DEFINE k == [f EXCEPT !.active = FALSE, !.degrade_cycles = 0]
             h == IF cmd.finite THEN health ELSE "NAN_OUTPUT"
  <2>1. k \in FallbackStates /\ ~k.active
    BY DEF FallbackStates
  <2>2. h \in HealthStates
    BY <1>2
  <2>3. out = Outcome(k, 0, h, 3)
    BY <1>3 DEF Apply, StopNow
  <2> HIDE DEF k, h, out
  <2>4. /\ out.state = k /\ reply \in Answers
    BY <2>2, <2>3 DEF Outcome, Answers
  <2>5. QED
    BY <1>2, <1>3, <2>1, <2>4 DEF out
<1>4. CASE cmd.finite /\ health \in QpDegrade /\ Exhausted(g)
  <2> DEFINE k == [g EXCEPT !.active = FALSE]
  <2> HIDE DEF g
  <2>1. k \in FallbackStates /\ ~k.active
    BY <1>1 DEF FallbackStates
  <2>2. out = Outcome(k, 0, "EMERGENCY_STOP", 3)
    BY <1>2, <1>4 DEF Apply, Degrade, g
  <2> HIDE DEF k, out
  <2>3. /\ out.state = k /\ reply \in Answers /\ out.health = "EMERGENCY_STOP"
    BY <1>2, <2>2 DEF Outcome, Answers
  <2>4. QED
    BY <1>4, <2>1, <2>3 DEF out, g
<1>5. CASE cmd.finite /\ health \in QpDegrade /\ ~Exhausted(g)
  <2> HIDE DEF g
  <2>1. out = Outcome(g, g.last_v, "FALLBACK_ACTIVE", 2)
    BY <1>2, <1>5 DEF Apply, Degrade, g
  <2> HIDE DEF out
  <2>2. /\ out.state = g /\ reply \in Answers /\ out.v = g.last_v
        /\ out.health = "FALLBACK_ACTIVE"
    BY <1>1, <1>2, <2>1 DEF Outcome, Answers
  <2>3. QED
    BY <1>1, <1>5, <2>2 DEF out, g
<1>6. CASE cmd.finite /\ health \notin Critical /\ health \notin QpDegrade
  <2> DEFINE v == Clamp(cmd.v, VMin, VMax)
             clamped == v # cmd.v \/ cmd.overturn
             h == IF clamped /\ health = "OK" THEN "SAFETY_CLAMPED" ELSE health
             stage == IF clamped THEN 1 ELSE 0
             k == [f EXCEPT !.active = FALSE]
  <2>1. k \in FallbackStates /\ ~k.active
    BY DEF FallbackStates
  <2>2. v \in Int
    BY FallbackAssumption DEF Clamp, Commands
  <2>3. h \in HealthStates
    BY <1>2
  <2>4. stage \in 0..3
    OBVIOUS
  <2>5. out = Outcome(k, v, h, stage)
    BY <1>6 DEF Apply, Pass
  <2> HIDE DEF v, h, stage, k, out
  <2>6. /\ out.state = k /\ reply \in Answers
    BY <2>2, <2>3, <2>4, <2>5 DEF Outcome, Answers
  <2>7. QED
    BY <1>6, <2>1, <2>6 DEF out
<1>7. QED
  BY <1>3, <1>4, <1>5, <1>6

\* A call of apply, read off its rungs: the count of failures, the answer and
\* the state of the ladder move together.
LEMMA ApplyStep ==
    ASSUME LadderInv, NEW cmd \in Commands, NEW health \in HealthStates,
           ApplyTo(cmd, health)
    PROVE  /\ LadderInv'
           /\ failures' = 0
              \/ /\ failures' = failures + 1
                 /\ answer'.v = Ladder(policy, cmd).last_v
<1> DEFINE out == Apply(policy, cmd, health)
           g == Ladder(policy, cmd)
           degraded == health \in QpDegrade /\ cmd.finite
<1>1. /\ policy \in FallbackStates /\ failures \in Nat
      /\ failures <= MaxHoldCycles /\ MaxHoldCycles \in Nat
      /\ policy.active <=> failures > 0
      /\ failures > 0 => policy.degrade_cycles = failures
  BY FallbackAssumption DEF LadderInv, LadderTypeOK, HoldIsBounded, Engaged
<1>2. /\ policy' = out.state
      /\ asked' = cmd
      /\ answer' = [v |-> out.v, health |-> out.health, stage |-> out.stage]
      /\ failures' = IF degraded
                     THEN IF out.health = "EMERGENCY_STOP" THEN 0
                          ELSE failures + 1
                     ELSE 0
  BY DEF ApplyTo
<1>3. /\ out.state \in FallbackStates
      /\ [v |-> out.v, health |-> out.health, stage |-> out.stage] \in Answers
      /\ ~degraded => ~out.state.active
      /\ degraded /\ Exhausted(g)
           => out.health = "EMERGENCY_STOP" /\ ~out.state.active
      /\ degraded /\ ~Exhausted(g)
           => out.state = g /\ out.v = g.last_v /\ out.health = "FALLBACK_ACTIVE"
  BY <1>1, Rungs
<1>4. /\ g.active
      /\ g.degrade_cycles = failures + 1
  BY <1>1, LadderFields
<1> HIDE DEF out, g
<1>5. answer'.v = out.v
  BY <1>2
<1>6. CASE degraded /\ ~Exhausted(g)
  <2>1. failures' = failures + 1 /\ policy' = g /\ answer'.v = g.last_v
    BY <1>2, <1>3, <1>5, <1>6
  <2>2. failures + 1 <= MaxHoldCycles
    BY <1>1, <1>4, <1>6 DEF Exhausted
  <2>3. LadderInv'
    BY <1>1, <1>2, <1>3, <1>4, <2>1, <2>2
       DEF LadderInv, LadderTypeOK, HoldIsBounded, Engaged
  <2>4. QED BY <2>1, <2>3 DEF g
<1>7. CASE ~(degraded /\ ~Exhausted(g))
  <2>1. failures' = 0 /\ ~policy'.active
    BY <1>2, <1>3, <1>7
  <2>2. LadderInv'
    BY <1>1, <1>2, <1>3, <2>1 DEF LadderInv, LadderTypeOK, HoldIsBounded, Engaged
  <2>3. QED BY <2>1, <2>2
<1>8. QED BY <1>6, <1>7

\* A step of the object is a reset, a call of apply or nothing.
LEMMA StepCases ==
    ASSUME LadderInv, [Next]_ladderVars
    PROVE  /\ LadderInv'
           /\ \/ failures' = 0
              \/ UNCHANGED ladderVars
              \/ \E cmd \in Commands :
                    /\ asked' = cmd
                    /\ failures' = failures + 1
                    /\ answer'.v = Ladder(policy, cmd).last_v
<1>1. CASE Reset
  BY <1>1, FallbackAssumption
     DEF Reset, LadderInv, LadderTypeOK, HoldIsBounded, Engaged, ResetFallback,
         FallbackStates
<1>2. ASSUME NEW v \in Speeds, NEW finite \in BOOLEAN, NEW overturn \in BOOLEAN,
             NEW health \in HealthStates \ {"SAFETY_CLAMPED", "NAN_OUTPUT"},
             ApplyTo([v |-> v, finite |-> finite, overturn |-> overturn], health)
      PROVE  /\ LadderInv'
             /\ \/ failures' = 0
                \/ \E cmd \in Commands :
                      /\ asked' = cmd
                      /\ failures' = failures + 1
                      /\ answer'.v = Ladder(policy, cmd).last_v
  <2> DEFINE cmd == [v |-> v, finite |-> finite, overturn |-> overturn]
  <2>1. cmd \in Commands /\ health \in HealthStates
    BY LadderAssumption DEF Commands
  <2>2. ApplyTo(cmd, health)
    BY <1>2
  <2> HIDE DEF cmd
  <2>3. asked' = cmd
    BY <2>2 DEF ApplyTo
  <2>4. QED
    BY <2>1, <2>2, <2>3, ApplyStep
<1>3. CASE UNCHANGED ladderVars
  BY <1>3 DEF ladderVars, LadderInv, LadderTypeOK, HoldIsBounded, Engaged
<1>4. CASE Next
  <2>1. CASE Reset
    BY <1>1, <2>1 DEF Reset
  <2>2. CASE ~Reset
    BY <1>2, <1>4, <2>2 DEF Next
  <2>3. QED BY <2>1, <2>2
<1>5. QED BY <1>3, <1>4

LEMMA LadderInitInv == Init => LadderInv
BY FallbackAssumption
   DEF Init, LadderInv, LadderTypeOK, HoldIsBounded, Engaged, ResetFallback,
       FallbackStates, Zero, Commands, Answers, HealthStates

\* The inductive invariant of the ladder holds throughout.
THEOREM LadderInvariance == Spec => []LadderInv
<1>1. LadderInv /\ [Next]_ladderVars => LadderInv'
  BY StepCases
<1>2. QED BY <1>1, LadderInitInv, PTL DEF Spec

\* At most MaxHoldCycles failures in a row are answered with a moving fallback.
THEOREM LadderBounded == Spec => []HoldIsBounded
<1>1. LadderInv => HoldIsBounded
  BY DEF LadderInv
<1>2. QED BY <1>1, LadderInvariance, PTL

\* While failures follow one another the speed falls by a deceleration step
\* each time, until standstill.
THEOREM LadderDecelerates == Spec => NeverAcceleratesWhileFailing
<1>1. LadderInv /\ [Next]_ladderVars
        => [(failures > 0 /\ failures' = failures + 1)
              => answer'.v = Greatest(0, answer.v - DecelStep)]_ladderVars
  <2> SUFFICES ASSUME LadderInv, [Next]_ladderVars,
                      failures > 0, failures' = failures + 1
               PROVE  answer'.v = Greatest(0, answer.v - DecelStep)
    OBVIOUS
  <2>1. /\ policy \in FallbackStates /\ failures \in Nat
        /\ policy.active /\ answer.v = policy.last_v
    BY DEF LadderInv, LadderTypeOK, Engaged
  <2>2. failures' # 0 /\ ~UNCHANGED ladderVars
    BY <2>1 DEF ladderVars
  <2>3. PICK cmd \in Commands : answer'.v = Ladder(policy, cmd).last_v
    BY <2>2, StepCases
  <2>4. QED
    BY <2>1, <2>3, LadderFields
<1>2. QED
  BY <1>1, LadderInvariance, PTL DEF Spec, NeverAcceleratesWhileFailing

\* The first failure after anything else starts from the speed asked for then.
THEOREM LadderForgets == Spec => NoReuseAfterStop
<1>1. LadderInv /\ [Next]_ladderVars
        => [(failures = 0 /\ failures' = 1)
              => answer'.v <= Greatest(0, Magnitude(asked'.v) - DecelStep)]_ladderVars
  <2> SUFFICES ASSUME LadderInv, [Next]_ladderVars,
                      failures = 0, failures' = 1
               PROVE  answer'.v <= Greatest(0, Magnitude(asked'.v) - DecelStep)
    OBVIOUS
  <2>1. policy \in FallbackStates /\ ~policy.active
    BY DEF LadderInv, LadderTypeOK, Engaged
  <2>2. failures' # 0 /\ ~UNCHANGED ladderVars
    BY DEF ladderVars
  <2>3. PICK cmd \in Commands :
          asked' = cmd /\ answer'.v = Ladder(policy, cmd).last_v
    BY <2>2, StepCases
  <2>4. QED
    BY <2>1, <2>3, LadderFields
<1>2. QED
  BY <1>1, LadderInvariance, PTL DEF Spec, NoReuseAfterStop

-----------------------------------------------------------------------------
(***************************************************************************)
(* Recursion over a range of steps.  What is proved by induction is the    *)
(* set of steps at which it holds.                                         *)
(***************************************************************************)

\* A set of naturals that is not empty has a least element.
LEMMA LeastNatural ==
  ASSUME NEW T, T \subseteq Nat, T # {}
  PROVE  \E x \in T : \A y \in T : x <= y
<1>1. PICK x \in T : \A y \in T : ~(<<y, x>> \in OpToRel(<, Nat))
  BY NatLessThanWellFounded, WFMin
<1>2. ASSUME NEW y \in T
      PROVE  x <= y
  <2>1. x \in Nat /\ y \in Nat
    OBVIOUS
  <2>2. ~(y < x)
    BY <1>1, <2>1 DEF OpToRel
  <2> QED
    BY <2>1, <2>2
<1> QED
  BY <1>2

\* What holds at the first step, and at the next whenever at one.
LEMMA Climb ==
  ASSUME NEW lo \in Nat, NEW n \in Nat, NEW S, lo \in S,
         \A i \in lo..n : i \in S /\ i + 1 \in lo..n => i + 1 \in S
  PROVE  \A i \in lo..n : i \in S
<1> DEFINE T == {i \in lo..n : i \notin S}
<1>1. SUFFICES ASSUME T # {}
               PROVE  FALSE
  OBVIOUS
<1>2. T \subseteq Nat
  OBVIOUS
<1>3. PICK x \in T : \A y \in T : x <= y
  BY <1>1, <1>2, LeastNatural
<1>4. x \in lo..n /\ x \notin S /\ x # lo
  OBVIOUS
<1>5. x - 1 \in lo..n /\ (x - 1) + 1 = x
  BY <1>4
<1>6. x - 1 \in S
  <2>1. x - 1 \notin T
    BY <1>3, <1>4
  <2> QED
    BY <1>5, <2>1
<1> QED
  BY <1>4, <1>5, <1>6

\* A sequence of values given by the first one and the step to the next.
StepsOn(lo, n, V) == [((lo + 1)..n) \X V -> V]

Follows(f, lo, n, first, next) ==
    \A i \in lo..n : f[i] = IF i = lo THEN first ELSE next[<<i, f[i - 1]>>]

LEMMA Defined ==
  ASSUME NEW lo \in Nat, NEW n \in Nat, lo <= n, NEW V, NEW first \in V,
         NEW next \in StepsOn(lo, n, V)
  PROVE  \E f \in [lo..n -> V] : Follows(f, lo, n, first, next)
<1> DEFINE S == {m \in lo..n : \E f \in [lo..m -> V] : Follows(f, lo, m, first, next)}
<1>1. lo \in S
  <2> DEFINE g == [i \in lo..lo |-> first]
  <2>1. g \in [lo..lo -> V] /\ \A i \in lo..lo : i = lo /\ g[i] = first
    <3>1. \A i \in lo..lo : i = lo
      OBVIOUS
    <3> QED
      BY Zenon, <3>1
  <2>2. Follows(g, lo, lo, first, next)
    BY Zenon, <2>1 DEF Follows
  <2>3. lo \in lo..n
    OBVIOUS
  <2> QED
    BY Zenon, <2>1, <2>2, <2>3
<1>2. ASSUME NEW m \in lo..n, m \in S, m + 1 \in lo..n
      PROVE  m + 1 \in S
  <2>1. PICK f \in [lo..m -> V] : Follows(f, lo, m, first, next)
    BY <1>2
  <2> DEFINE g == [i \in lo..(m + 1) |->
                     IF i = m + 1 THEN next[<<m + 1, f[m]>>] ELSE f[i]]
  <2>2. next[<<m + 1, f[m]>>] \in V
    <3>1. f[m] \in V /\ m + 1 \in (lo + 1)..n
      BY <1>2
    <3> QED
      BY <3>1 DEF StepsOn
  <2>3. g \in [lo..(m + 1) -> V]
    BY <2>2
  <2>4. g[m + 1] = next[<<m + 1, f[m]>>] /\ \A i \in lo..m : g[i] = f[i]
    OBVIOUS
  <2> HIDE DEF g
  <2>5. ASSUME NEW i \in lo..(m + 1)
        PROVE  g[i] = IF i = lo THEN first ELSE next[<<i, g[i - 1]>>]
    <3>1. CASE i = m + 1
      <4>1. i # lo /\ i - 1 = m /\ m \in lo..m
        BY <3>1
      <4> QED
        BY <2>4, <3>1, <4>1
    <3>2. CASE i # m + 1
      <4>1. i \in lo..m /\ (i # lo => i - 1 \in lo..m)
        BY <3>2
      <4>2. f[i] = IF i = lo THEN first ELSE next[<<i, f[i - 1]>>]
        BY <2>1, <4>1 DEF Follows
      <4>3. g[i] = f[i] /\ (i # lo => g[i - 1] = f[i - 1])
        BY <2>4, <4>1
      <4> QED
        BY <4>2, <4>3
    <3> QED
      BY <3>1, <3>2
  <2>6. Follows(g, lo, m + 1, first, next)
    BY Zenon, <2>5 DEF Follows
  <2> QED
    BY <1>2, <2>3, <2>6
<1>3. n \in S
  <2>1. n \in lo..n
    OBVIOUS
  <2> HIDE DEF S
  <2> QED
    BY <1>1, <1>2, <2>1, Climb
<1> QED
  BY <1>3

-----------------------------------------------------------------------------
(***************************************************************************)
(* Sums.                                                                   *)
(***************************************************************************)

Summable(f, n) == \A i \in 1..n : f[i] \in Int

\* The sum over an index more.
LEMMA TotalRec ==
  ASSUME NEW n \in Nat, NEW f, Summable(f, n)
  PROVE  /\ Total(f, n) \in Int
         /\ n = 0 => Total(f, n) = 0
         /\ \A m \in 0..n : m + 1 \in 0..n
              => Total(f, m + 1) = Total(f, m) + f[m + 1]
<1> DEFINE next == [p \in ((0 + 1)..n) \X Int |-> p[2] + f[p[1]]]
<1>1. next \in StepsOn(0, n, Int)
  BY DEF StepsOn, Summable
<1>2. \A i \in 1..n, v \in Int : next[<<i, v>>] = v + f[i]
  OBVIOUS
<1> HIDE DEF next
<1>3. PICK g \in [0..n -> Int] : Follows(g, 0, n, 0, next)
  <2>1. 0 \in Nat /\ 0 <= n /\ 0 \in Int
    OBVIOUS
  <2> QED
    BY Zenon, <1>1, <2>1, Defined
<1>4. g[0] = 0 /\ \A i \in 1..n : g[i] = g[i - 1] + f[i]
  <2>1. g[0] = 0
    <3>1. 0 \in 0..n
      OBVIOUS
    <3> QED
      BY <1>3, <3>1 DEF Follows
  <2>2. ASSUME NEW i \in 1..n
        PROVE  g[i] = g[i - 1] + f[i]
    <3>1. i \in 0..n /\ i # 0 /\ i - 1 \in 0..n
      OBVIOUS
    <3>2. g[i] = next[<<i, g[i - 1]>>]
      BY <1>3, <3>1 DEF Follows
    <3> QED
      BY <1>2, <3>1, <3>2
  <2> QED
    BY <2>1, <2>2
<1>5. ASSUME NEW m \in 0..n
      PROVE  Total(f, m) = g[m]
  <2> DEFINE Body(h) == [i \in 0..m |-> IF i = 0 THEN 0 ELSE h[i - 1] + f[i]]
             sum == CHOOSE h : h = Body(h)
             r == [i \in 0..m |-> g[i]]
  <2>1. r = Body(r)
    <3>1. ASSUME NEW i \in 0..m
          PROVE  r[i] = IF i = 0 THEN 0 ELSE r[i - 1] + f[i]
      BY <1>4
    <3> QED
      BY <3>1
  <2>2. sum = Body(sum)
    BY Zenon, <2>1
  <2>3. Total(f, m) = sum[m]
    BY DEF Total
  <2> HIDE DEF sum
  <2> DEFINE S == {i \in 0..m : sum[i] = g[i]}
  <2>4. 0 \in S
    BY <1>4, <2>2
  <2>5. ASSUME NEW i \in 0..m, i \in S, i + 1 \in 0..m
        PROVE  i + 1 \in S
    <3>1. sum[i + 1] = sum[i] + f[i + 1]
      BY <2>2, <2>5
    <3>2. i + 1 \in 1..n /\ (i + 1) - 1 = i
      BY <2>5
    <3>3. g[i + 1] = g[i] + f[i + 1]
      BY <1>4, <3>2
    <3> QED
      BY <2>5, <3>1, <3>3
  <2>6. m \in S
    <3>1. m \in 0..m /\ m \in Nat /\ 0 \in Nat
      OBVIOUS
    <3> HIDE DEF S
    <3> QED
      BY Zenon, <2>4, <2>5, <3>1, Climb
  <2> QED
    BY <2>3, <2>6
<1>6. Total(f, n) \in Int
  BY <1>5
<1>7. n = 0 => Total(f, n) = 0
  BY <1>4, <1>5
<1>8. ASSUME NEW m \in 0..n, m + 1 \in 0..n
      PROVE  Total(f, m + 1) = Total(f, m) + f[m + 1]
  <2>1. m + 1 \in 1..n /\ (m + 1) - 1 = m
    BY <1>8
  <2> QED
    BY <1>4, <1>5, <1>8, <2>1
<1> QED
  BY <1>6, <1>7, <1>8

Adds(h, f, a, g, n) == \A i \in 1..n : h[i] = f[i] + a * g[i]

\* Each term counts for itself.
LEMMA TotalLinear ==
  ASSUME NEW n \in Nat, NEW f, NEW g, NEW h, NEW a \in Int,
         Summable(f, n), Summable(g, n), Adds(h, f, a, g, n)
  PROVE  Summable(h, n) /\ Total(h, n) = Total(f, n) + a * Total(g, n)
<1>1. Summable(h, n)
  BY DEF Summable, Adds
<1> DEFINE S == {m \in 0..n : /\ Total(f, m) \in Int /\ Total(g, m) \in Int
                              /\ Total(h, m) = Total(f, m) + a * Total(g, m)}
<1>2. 0 \in S
  <2>1. \A x : Summable(x, 0)
    BY DEF Summable
  <2>2. Total(f, 0) = 0 /\ Total(g, 0) = 0 /\ Total(h, 0) = 0
    BY <2>1, TotalRec
  <2> QED
    BY <2>2
<1>3. ASSUME NEW m \in 0..n, m \in S, m + 1 \in 0..n
      PROVE  m + 1 \in S
  <2> DEFINE F0 == Total(f, m)
             G0 == Total(g, m)
             fm == f[m + 1]
             gm == g[m + 1]
  <2>1. m + 1 \in 1..n
    BY <1>3
  <2>2. /\ Total(f, m + 1) = F0 + fm /\ Total(g, m + 1) = G0 + gm
        /\ Total(h, m + 1) = (F0 + a * G0) + (fm + a * gm)
    <3>1. h[m + 1] = fm + a * gm
      BY <2>1 DEF Adds
    <3>2. Total(h, m + 1) = Total(h, m) + h[m + 1]
      BY <1>1, <1>3, TotalRec
    <3>3. Total(f, m + 1) = Total(f, m) + f[m + 1]
      BY <1>3, TotalRec
    <3>4. Total(g, m + 1) = Total(g, m) + g[m + 1]
      BY <1>3, TotalRec
    <3> QED
      BY <1>3, <3>1, <3>2, <3>3, <3>4
  <2>3. F0 \in Int /\ G0 \in Int /\ fm \in Int /\ gm \in Int
    BY <1>3, <2>1 DEF Summable
  <2> HIDE DEF F0, G0, fm, gm
  <2>4. (F0 + a * G0) + (fm + a * gm) = (F0 + fm) + a * (G0 + gm)
    BY <2>3
  <2> QED
    BY <1>3, <2>2, <2>3, <2>4
<1>4. n \in S
  <2>1. n \in 0..n /\ 0 \in Nat
    OBVIOUS
  <2> HIDE DEF S
  <2> QED
    BY Zenon, <1>2, <1>3, <2>1, Climb
<1> QED
  BY <1>1, <1>4

\* Terms that are nothing add up to nothing.
LEMMA TotalZero ==
  ASSUME NEW n \in Nat, NEW f, \A i \in 1..n : f[i] = 0
  PROVE  Total(f, n) = 0
<1>1. Summable(f, n)
  BY DEF Summable
<1> DEFINE S == {m \in 0..n : Total(f, m) = 0}
<1>2. 0 \in S
  <2>1. Summable(f, 0)
    BY DEF Summable
  <2> QED
    BY <2>1, TotalRec
<1>3. ASSUME NEW m \in 0..n, m \in S, m + 1 \in 0..n
      PROVE  m + 1 \in S
  <2>1. m + 1 \in 1..n
    BY <1>3
  <2>2. Total(f, m + 1) = Total(f, m) + f[m + 1]
    BY <1>1, <1>3, TotalRec
  <2> QED
    BY <1>3, <2>1, <2>2
<1>4. n \in S
  <2>1. n \in 0..n /\ 0 \in Nat
    OBVIOUS
  <2> HIDE DEF S
  <2> QED
    BY Zenon, <1>2, <1>3, <2>1, Climb
<1> QED
  BY <1>4

\* The sum of what differs from nothing at one index only.
LEMMA TotalPoint ==
  ASSUME NEW n \in Nat, NEW f, NEW p \in 1..n, f[p] \in Int,
         \A i \in 1..n : i # p => f[i] = 0
  PROVE  Total(f, n) = f[p]
<1>1. Summable(f, n)
  BY DEF Summable
<1> DEFINE S == {m \in 0..n : Total(f, m) = IF m < p THEN 0 ELSE f[p]}
<1>2. 0 \in S
  <2>1. Summable(f, 0)
    BY DEF Summable
  <2>2. 0 < p /\ 0 \in 0..n
    OBVIOUS
  <2> QED
    BY <2>1, <2>2, TotalRec
<1>3. ASSUME NEW m \in 0..n, m \in S, m + 1 \in 0..n
      PROVE  m + 1 \in S
  <2>1. m + 1 \in 1..n
    BY <1>3
  <2>2. Total(f, m + 1) = Total(f, m) + f[m + 1]
    BY <1>1, <1>3, TotalRec
  <2>3. CASE m + 1 = p
    BY <1>3, <2>1, <2>2, <2>3
  <2>4. CASE m + 1 # p
    <3>1. f[m + 1] = 0 /\ (m < p <=> m + 1 < p)
      BY <2>1, <2>4
    <3> QED
      BY <1>3, <2>2, <3>1
  <2> QED
    BY <2>3, <2>4
<1>4. n \in S
  <2>1. n \in 0..n /\ 0 \in Nat
    OBVIOUS
  <2> HIDE DEF S
  <2> QED
    BY Zenon, <1>2, <1>3, <2>1, Climb
<1> QED
  BY <1>4

\* A sum depends on its terms alone.
LEMMA TotalSame ==
  ASSUME NEW n \in Nat, NEW f, NEW g, Summable(f, n),
         \A i \in 1..n : g[i] = f[i]
  PROVE  Total(g, n) = Total(f, n)
<1> DEFINE z == [i \in 1..n |-> 0]
<1>1. Summable(z, n) /\ \A i \in 1..n : z[i] = 0
  BY DEF Summable
<1> HIDE DEF z
<1>2. Adds(g, f, 0, z, n)
  BY <1>1 DEF Summable, Adds
<1>3. Total(g, n) = Total(f, n) + 0 * Total(z, n)
  BY <1>1, <1>2, TotalLinear
<1>4. Total(f, n) \in Int /\ Total(z, n) \in Int
  BY <1>1, TotalRec
<1> QED
  BY <1>3, <1>4

\* The order of two sums does not matter.
LEMMA TotalExchange ==
  ASSUME NEW n \in Nat, NEW q \in Nat, NEW m,
         \A k \in 1..n : Summable(m[k], q)
  PROVE  /\ Summable([k \in 1..n |-> Total(m[k], q)], n)
         /\ Summable([c \in 1..q |-> Total([k \in 1..n |-> m[k][c]], n)], q)
         /\ Total([k \in 1..n |-> Total(m[k], q)], n)
              = Total([c \in 1..q |-> Total([k \in 1..n |-> m[k][c]], n)], q)
<1> DEFINE rows == [k \in 1..n |-> Total(m[k], q)]
           column(c) == [k \in 1..n |-> m[k][c]]
           upTo(r) == [c \in 1..q |-> Total(column(c), r)]
<1>1. Summable(rows, n)
  <2>1. \A k \in 1..n : Total(m[k], q) \in Int
    BY TotalRec
  <2> QED
    BY <2>1 DEF Summable
<1>2. \A c \in 1..q : Summable(column(c), n)
  BY DEF Summable
<1>3. \A r \in 0..n : Summable(upTo(r), q)
  <2>1. ASSUME NEW r \in 0..n, NEW c \in 1..q
        PROVE  Total(column(c), r) \in Int
    <3>1. Summable(column(c), r) /\ r \in Nat
      BY <1>2 DEF Summable
    <3> HIDE DEF column
    <3> QED
      BY <3>1, TotalRec
  <2> HIDE DEF column
  <2> QED
    BY <2>1 DEF Summable
<1> DEFINE S == {r \in 0..n : Total(rows, r) = Total(upTo(r), q)}
<1>4. 0 \in S
  <2>1. \A x : Summable(x, 0)
    BY DEF Summable
  <2>2. \A x : Total(x, 0) = 0
    BY <2>1, TotalRec
  <2>3. \A c \in 1..q : upTo(0)[c] = 0
    <3> HIDE DEF column
    <3> QED
      BY <2>2
  <2>4. Total(upTo(0), q) = 0
    <3> HIDE DEF upTo
    <3> QED
      BY <2>3, TotalZero
  <2> QED
    BY <2>2, <2>4
<1>5. ASSUME NEW r \in 0..n, r \in S, r + 1 \in 0..n
      PROVE  r + 1 \in S
  <2>1. r + 1 \in 1..n
    BY <1>5
  <2>2. Total(rows, r + 1) = Total(rows, r) + rows[r + 1]
    <3> HIDE DEF rows
    <3> QED
      BY <1>1, <1>5, TotalRec
  <2>3. \A c \in 1..q : upTo(r + 1)[c] = upTo(r)[c] + 1 * m[r + 1][c]
    <3>1. ASSUME NEW c \in 1..q
          PROVE  Total(column(c), r + 1) = Total(column(c), r) + 1 * m[r + 1][c]
      <4>1. column(c)[r + 1] = m[r + 1][c] /\ m[r + 1][c] \in Int
        BY <2>1 DEF Summable
      <4>2. Summable(column(c), n)
        BY <1>2
      <4> HIDE DEF column
      <4>3. Total(column(c), r + 1) = Total(column(c), r) + column(c)[r + 1]
        BY <1>5, <4>2, TotalRec
      <4> QED
        BY <4>1, <4>3
    <3> HIDE DEF column
    <3> QED
      BY <3>1
  <2>4. Summable(m[r + 1], q) /\ Summable(upTo(r), q) /\ r + 1 \in 0..n
    BY <1>3, <1>5, <2>1
  <2>5. rows[r + 1] = Total(m[r + 1], q) /\ Total(m[r + 1], q) \in Int
    BY <2>1, <2>4, TotalRec
  <2> DEFINE before == upTo(r)
             after == upTo(r + 1)
             more == m[r + 1]
  <2>6. Total(after, q) = Total(before, q) + 1 * Total(more, q)
    <3>1. Adds(after, before, 1, more, q)
      BY <2>3 DEF Adds
    <3>2. Summable(before, q) /\ Summable(more, q) /\ 1 \in Int
      BY <2>4
    <3> HIDE DEF before, after, more
    <3> QED
      BY <3>1, <3>2, TotalLinear
  <2> HIDE DEF rows, upTo
  <2> QED
    BY <1>5, <2>2, <2>5, <2>6
<1>6. n \in S
  <2>1. n \in 0..n /\ 0 \in Nat
    OBVIOUS
  <2> HIDE DEF S
  <2> QED
    BY Zenon, <1>4, <1>5, <2>1, Climb
<1>7. n \in 0..n
  OBVIOUS
<1> QED
  BY <1>1, <1>3, <1>6, <1>7

-----------------------------------------------------------------------------
(***************************************************************************)
(* Vectors and matrices.                                                   *)
(***************************************************************************)

Vector == [1..4 -> Int]

Matrix == [1..4 -> Vector]

\* The horizon, the bounds and the shape of the inputs of a plan.
Inputs == [1..Columns -> Int]

LEMMA Sizes ==
  /\ N \in Nat /\ N > 1 /\ Columns \in Nat /\ Columns = 2 * N
  /\ End \in Nat /\ End > 0 /\ NX = 4
  /\ VMin \in Int /\ VMax \in Int /\ Tolerance \in Nat
  /\ OmegaMax \in Int /\ AMax \in Int /\ AlphaMax \in Int
<1>1. N \in Nat /\ N > 1 /\ Tolerance \in Nat /\ End > 0
      /\ OmegaMax \in Int /\ AMax \in Int /\ AlphaMax \in Int
  BY SolveAssumption DEF End
<1>2. End \in Nat
  BY SolveAssumption, LenProperties DEF End
<1> QED
  BY <1>1, <1>2, FallbackAssumption DEF Columns, NX

\* The sum of four terms.
LEMMA TotalOfFour ==
  ASSUME NEW f, Summable(f, 4)
  PROVE  Total(f, 4) = f[1] + f[2] + f[3] + f[4] /\ Total(f, 4) \in Int
<1>1. Total(f, 0) = 0
  <2>1. Summable(f, 0)
    BY DEF Summable
  <2> QED
    BY <2>1, TotalRec
<1>2. \A m \in 0..4 : m + 1 \in 0..4 => Total(f, m + 1) = Total(f, m) + f[m + 1]
  BY TotalRec
<1>3. Total(f, 1) = Total(f, 0) + f[1]
  <2>1. 0 \in 0..4 /\ 0 + 1 = 1 /\ 1 \in 0..4
    OBVIOUS
  <2> QED
    BY Zenon, <1>2, <2>1
<1>4. Total(f, 2) = Total(f, 1) + f[2]
  <2>1. 1 \in 0..4 /\ 1 + 1 = 2 /\ 2 \in 0..4
    OBVIOUS
  <2> QED
    BY Zenon, <1>2, <2>1
<1>5. Total(f, 3) = Total(f, 2) + f[3]
  <2>1. 2 \in 0..4 /\ 2 + 1 = 3 /\ 3 \in 0..4
    OBVIOUS
  <2> QED
    BY Zenon, <1>2, <2>1
<1>6. Total(f, 4) = Total(f, 3) + f[4]
  <2>1. 3 \in 0..4 /\ 3 + 1 = 4 /\ 4 \in 0..4
    OBVIOUS
  <2> QED
    BY Zenon, <1>2, <2>1
<1>7. f[1] \in Int /\ f[2] \in Int /\ f[3] \in Int /\ f[4] \in Int
  BY DEF Summable
<1> QED
  BY <1>1, <1>3, <1>4, <1>5, <1>6, <1>7

LEMMA LenOfFunction ==
  ASSUME NEW n \in Nat, NEW u \in [1..n -> Int]
  PROVE  Len(u) = n /\ DOMAIN u = 1..n
<1>1. u \in Seq(Int) /\ DOMAIN u = 1..n
  OBVIOUS
<1> QED
  BY <1>1

\* The product of two vectors of inputs, of a row and a state.
LEMMA DotIsTotal ==
  ASSUME NEW n \in Nat, NEW u \in [1..n -> Int], NEW w
  PROVE  Dot(u, w) = Total([i \in 1..n |-> u[i] * w[i]], n)
BY LenOfFunction DEF Dot

Four(a, x) == a[1] * x[1] + a[2] * x[2] + a[3] * x[3] + a[4] * x[4]

LEMMA DotOfFour ==
  ASSUME NEW a \in Vector, NEW x \in Vector
  PROVE  Dot(a, x) = Four(a, x) /\ Dot(a, x) \in Int
<1> DEFINE f == [i \in 1..4 |-> a[i] * x[i]]
<1>1. Dot(a, x) = Total(f, 4)
  BY DotIsTotal DEF Vector
<1>2. \A i \in 1..4 : a[i] \in Int /\ x[i] \in Int
  BY DEF Vector
<1>3. \A i \in 1..4 : f[i] = a[i] * x[i] /\ f[i] \in Int
  BY <1>2
<1> HIDE DEF f
<1>4. Summable(f, 4)
  BY <1>3 DEF Summable
<1>5. Total(f, 4) = f[1] + f[2] + f[3] + f[4] /\ Total(f, 4) \in Int
  BY <1>4, TotalOfFour
<1> QED
  BY <1>1, <1>3, <1>5 DEF Four

LEMMA TimesType ==
  ASSUME NEW A \in Matrix, NEW x \in Vector
  PROVE  /\ Times(A, x) \in Vector
         /\ \A i \in 1..4 : Times(A, x)[i] = Four(A[i], x)
<1>1. \A i \in 1..4 : A[i] \in Vector
  BY DEF Matrix
<1>2. \A i \in 1..4 : Dot(A[i], x) = Four(A[i], x) /\ Dot(A[i], x) \in Int
  BY <1>1, DotOfFour
<1> QED
  BY <1>2 DEF Times, NX, Vector

\* A column of a product.
Column(M, c) == [l \in 1..4 |-> M[l][c]]

LEMMA ProductType ==
  ASSUME NEW A \in Matrix, NEW q \in Nat, NEW M \in [1..4 -> [1..q -> Int]]
  PROVE  /\ TimesMatrix(A, M, q) \in [1..4 -> [1..q -> Int]]
         /\ \A i \in 1..4, c \in 1..q :
              TimesMatrix(A, M, q)[i][c] = Four(A[i], Column(M, c))
<1>1. ASSUME NEW i \in 1..4, NEW c \in 1..q
      PROVE  /\ Total([l \in 1..4 |-> A[i][l] * M[l][c]], 4) = Four(A[i], Column(M, c))
             /\ Four(A[i], Column(M, c)) \in Int
  <2>1. A[i] \in Vector /\ Column(M, c) \in Vector
    BY DEF Matrix, Vector, Column
  <2>2. Dot(A[i], Column(M, c)) = Total([l \in 1..4 |-> A[i][l] * Column(M, c)[l]], 4)
    BY <2>1, DotIsTotal DEF Vector
  <2>3. [l \in 1..4 |-> A[i][l] * Column(M, c)[l]] = [l \in 1..4 |-> A[i][l] * M[l][c]]
    BY DEF Column
  <2>4. Dot(A[i], Column(M, c)) = Four(A[i], Column(M, c))
        /\ Dot(A[i], Column(M, c)) \in Int
    BY <2>1, DotOfFour
  <2> QED
    BY <2>2, <2>3, <2>4
<1> DEFINE T(i, c) == Total([l \in 1..4 |-> A[i][l] * M[l][c]], 4)
<1>2. TimesMatrix(A, M, q) = [i \in 1..4 |-> [c \in 1..q |-> T(i, c)]]
  BY DEF TimesMatrix, NX
<1>3. \A i \in 1..4, c \in 1..q : T(i, c) = Four(A[i], Column(M, c)) /\ T(i, c) \in Int
  BY <1>1
<1> HIDE DEF T
<1> QED
  BY <1>2, <1>3

-----------------------------------------------------------------------------
(***************************************************************************)
(* The prediction window.                                                  *)
(***************************************************************************)

LEMMA SampleType ==
  ASSUME NEW s \in Int
  PROVE  SampleAt(s).v \in Int /\ SampleAt(s).kappa \in Int
<1>1. Clamp(s, 1, End) \in 1..End
  BY Sizes DEF Clamp
<1>2. \A i \in 1..End : RefV[i] \in Int /\ RefKappa[i] \in Int
  BY SolveAssumption, ElementOfSeq DEF End
<1> QED
  BY <1>1, <1>2 DEF SampleAt

LEMMA SystemType ==
  ASSUME NEW s \in Int
  PROVE  SystemAt(s) \in Matrix
<1> DEFINE v_r == Greatest(SampleAt(s).v, 0)
           kappa == SampleAt(s).kappa
<1>1. v_r \in Int /\ kappa \in Int
  BY SampleType DEF Greatest
<1>2. SystemAt(s) = << <<1, v_r, 0, 0>>, <<-(kappa * kappa * v_r), 1, -2 * kappa, 2>>,
                       <<0, 0, 1, 0>>, <<0, 0, 0, 1>> >>
  BY DEF SystemAt
<1> HIDE DEF v_r, kappa
<1>3. -(kappa * kappa * v_r) \in Int /\ -2 * kappa \in Int
  BY <1>1
<1>4. \A a, b, c, d \in Int : <<a, b, c, d>> \in Vector
  BY DEF Vector
<1>5. /\ <<1, v_r, 0, 0>> \in Vector /\ <<0, 0, 1, 0>> \in Vector
      /\ <<-(kappa * kappa * v_r), 1, -2 * kappa, 2>> \in Vector
      /\ <<0, 0, 0, 1>> \in Vector
  BY <1>1, <1>3, <1>4
<1>6. \A a, b, c, d \in Vector : <<a, b, c, d>> \in Matrix
  BY DEF Matrix
<1> QED
  BY Zenon, <1>2, <1>5, <1>6

LEMMA PreviewType ==
  ASSUME NEW base \in Arcs
  PROVE  \A k \in 0..N : Preview(base)[k] \in Int
<1> DEFINE To(v) == IF v >= End THEN End ELSE v + Greatest(SampleAt(v).v, 0)
           Body(f) == [k \in 0..N |-> IF k = 0 THEN base ELSE To(f[k - 1])]
           next == [p \in ((0 + 1)..N) \X Int |-> To(p[2])]
<1>1. \A v \in Int : To(v) \in Int
  BY Sizes, SampleType DEF Greatest
<1>2. next \in StepsOn(0, N, Int) /\ \A k \in 1..N, v \in Int : next[<<k, v>>] = To(v)
  <2> HIDE DEF To
  <2> QED
    BY <1>1 DEF StepsOn
<1> HIDE DEF next
<1>3. base \in Int /\ 0 \in Nat /\ 0 <= N /\ N \in Nat
  BY Sizes DEF Arcs
<1>4. PICK f \in [0..N -> Int] : Follows(f, 0, N, base, next)
  BY Zenon, <1>2, <1>3, Defined
<1>5. f = Body(f)
  <2> HIDE DEF To
  <2>1. ASSUME NEW k \in 0..N
        PROVE  f[k] = IF k = 0 THEN base ELSE To(f[k - 1])
    <3>1. CASE k = 0
      BY <1>4, <3>1 DEF Follows
    <3>2. CASE k # 0
      <4>1. k \in 1..N /\ k - 1 \in 0..N
        BY <1>3, <3>2
      <4>2. f[k] = next[<<k, f[k - 1]>>]
        BY <1>4, <3>2 DEF Follows
      <4> QED
        BY <1>2, <3>2, <4>1, <4>2
    <3> QED
      BY <3>1, <3>2
  <2> QED
    BY <2>1
<1> DEFINE s == CHOOSE f_ : f_ = Body(f_)
<1>6. s = Body(s)
  BY Zenon, <1>5
<1>7. Preview(base) = s
  BY DEF Preview
<1> HIDE DEF s, To
<1> DEFINE S == {k \in 0..N : s[k] \in Int}
<1>8. 0 \in S
  BY <1>3, <1>6
<1>9. ASSUME NEW k \in 0..N, k \in S, k + 1 \in 0..N
      PROVE  k + 1 \in S
  <2>1. s[k + 1] = To(s[k])
    BY <1>6, <1>9
  <2> QED
    BY <1>1, <1>9, <2>1
<1>10. \A k \in 0..N : k \in S
  <2> HIDE DEF S
  <2> QED
    BY Zenon, <1>3, <1>8, <1>9, Climb
<1> QED
  BY <1>7, <1>10

LEMMA ReferenceStateType ==
  ASSUME NEW s \in Int
  PROVE  ReferenceState(s) \in Vector
<1> DEFINE v == SampleAt(s).v
           w == SampleAt(s).kappa * SampleAt(s).v
<1>1. v \in Int /\ w \in Int
  BY SampleType
<1>2. ReferenceState(s) = <<0, 0, v, w>>
  BY DEF ReferenceState
<1> HIDE DEF v, w
<1> QED
  BY <1>1, <1>2 DEF Vector

StepMatrix(base, k) == SystemAt(Preview(base)[k - 1])

LEMMA StepMatrixType ==
  ASSUME NEW base \in Arcs, NEW k \in 1..N
  PROVE  StepMatrix(base, k) \in Matrix
<1>1. k - 1 \in 0..N
  BY Sizes
<1> QED
  BY <1>1, PreviewType, SystemType DEF StepMatrix

StepInput(base, k) == InputAt(Preview(base)[k - 1])

LEMMA StepInputType ==
  ASSUME NEW base \in Arcs, NEW k \in 1..N, NEW i \in 1..4
  PROVE  /\ StepInput(base, k)[i] \in [1..2 -> Int]
         /\ StepInput(base, k)[i][1] \in Int /\ StepInput(base, k)[i][2] \in Int
<1>1. k - 1 \in 0..N
  BY Sizes
<1> DEFINE kappa == SampleAt(Preview(base)[k - 1]).kappa
<1>2. -kappa \in Int
  BY <1>1, PreviewType, SampleType
<1>3. StepInput(base, k) = << <<0, 0>>, <<-kappa, 1>>, <<1, 0>>, <<0, 1>> >>
  BY DEF StepInput, InputAt
<1> HIDE DEF kappa
<1>4. \A a, b \in Int : <<a, b>> \in [1..2 -> Int]
  OBVIOUS
<1>5. i = 1 \/ i = 2 \/ i = 3 \/ i = 4
  OBVIOUS
<1>6. StepInput(base, k)[i] \in [1..2 -> Int]
  BY <1>2, <1>3, <1>4, <1>5
<1> HIDE DEF StepInput
<1> QED
  BY <1>6

\* What the inputs of step k add to component i.
Fed(base, k, u, i) ==
    StepInput(base, k)[i][1] * u[2 * k - 1] + StepInput(base, k)[i][2] * u[2 * k]

LEMMA InputsOfStep ==
  ASSUME NEW k \in 1..N, NEW u \in Inputs
  PROVE  /\ 2 * k - 1 \in 1..Columns /\ 2 * k \in 1..Columns
         /\ u[2 * k - 1] \in Int /\ u[2 * k] \in Int
BY Sizes DEF Inputs

LEMMA DotOfTwo ==
  ASSUME NEW b \in [1..2 -> Int], NEW v \in Int, NEW w \in Int
  PROVE  Dot(b, <<v, w>>) = b[1] * v + b[2] * w
<1> DEFINE y == <<v, w>>
           f == [i \in 1..2 |-> b[i] * y[i]]
<1>1. y \in [1..2 -> Int] /\ y[1] = v /\ y[2] = w
  OBVIOUS
<1> HIDE DEF y
<1>2. Dot(b, y) = Total(f, 2)
  BY <1>1, DotIsTotal
<1>3. \A i \in 1..2 : f[i] = b[i] * y[i] /\ f[i] \in Int
  BY <1>1
<1> HIDE DEF f
<1>4. Summable(f, 2)
  BY <1>3 DEF Summable
<1>5. /\ Total(f, 0) = 0 /\ Total(f, 1) = Total(f, 0) + f[1]
      /\ Total(f, 2) = Total(f, 1) + f[2]
  <2>1. Summable(f, 0)
    BY DEF Summable
  <2>2. Total(f, 0) = 0
    BY <2>1, TotalRec
  <2> QED
    BY <1>4, <2>2, TotalRec
<1>6. Total(f, 2) = f[1] + f[2]
  BY <1>3, <1>5
<1> QED
  BY <1>1, <1>2, <1>3, <1>6 DEF y

\* The state after one step of the model.
Pushed(base, u, k, x) ==
    Plus(Times(StepMatrix(base, k), x),
         Times(StepInput(base, k), <<u[2 * k - 1], u[2 * k]>>))

LEMMA PushedType ==
  ASSUME NEW base \in Arcs, NEW u \in Inputs, NEW k \in 1..N, NEW x \in Vector
  PROVE  /\ Pushed(base, u, k, x) \in Vector
         /\ \A i \in 1..4 : Pushed(base, u, k, x)[i]
              = Four(StepMatrix(base, k)[i], x) + Fed(base, k, u, i)
<1> DEFINE A == StepMatrix(base, k)
           y == Times(A, x)
           t == Times(StepInput(base, k), <<u[2 * k - 1], u[2 * k]>>)
           z == Pushed(base, u, k, x)
<1>1. A \in Matrix
  BY StepMatrixType
<1>2. y \in Vector /\ \A i \in 1..4 : y[i] = Four(A[i], x)
  <2> HIDE DEF A
  <2> QED
    BY <1>1, TimesType
<1>3. \A i \in 1..4 : t[i] = Fed(base, k, u, i) /\ t[i] \in Int
  <2>1. ASSUME NEW i \in 1..4
        PROVE  t[i] = Fed(base, k, u, i) /\ Fed(base, k, u, i) \in Int
    <3>1. t[i] = Dot(StepInput(base, k)[i], <<u[2 * k - 1], u[2 * k]>>)
      BY DEF Times, NX
    <3>2. t[i] = Fed(base, k, u, i)
      BY <3>1, InputsOfStep, StepInputType, DotOfTwo DEF Fed
    <3>3. Fed(base, k, u, i) \in Int
      BY InputsOfStep, StepInputType DEF Fed
    <3> QED
      BY <3>2, <3>3
  <2> QED
    BY <2>1
<1>4. z = [i \in 1..4 |-> y[i] + t[i]]
  <2>1. z = Plus(y, t)
    BY DEF Pushed
  <2> HIDE DEF y, t, z
  <2> QED
    BY <1>2, <2>1 DEF Plus, Vector
<1> HIDE DEF A, y, t, z
<1>5. \A i \in 1..4 : z[i] = y[i] + t[i] /\ z[i] \in Int
  BY <1>2, <1>3, <1>4 DEF Vector
<1>6. z \in Vector
  BY <1>4, <1>5 DEF Vector
<1> QED
  BY <1>2, <1>3, <1>5, <1>6 DEF A, z

\* The model rolled forward.
LEMMA RolloutSteps ==
  ASSUME NEW base \in Arcs, NEW x0 \in Vector, NEW u \in Inputs
  PROVE  LET x == Rollout(base, x0, u) IN
         /\ x[0] = x0
         /\ \A k \in 0..N : x[k] \in Vector
         /\ \A k \in 1..N : x[k] = Pushed(base, u, k, x[k - 1])
<1> DEFINE To(k, v) == Pushed(base, u, k, v)
           Body(f) == [k \in 0..N |-> IF k = 0 THEN x0 ELSE To(k, f[k - 1])]
           next == [p \in ((0 + 1)..N) \X Vector |-> To(p[1], p[2])]
<1>1. \A k \in 1..N, v \in Vector : To(k, v) \in Vector
  BY PushedType
<1> DEFINE x == CHOOSE f_ : f_ = Body(f_)
<1>0. Rollout(base, x0, u) = x
  BY DEF Rollout, Pushed, StepMatrix, StepInput
<1> HIDE DEF To
<1>2. next \in StepsOn(0, N, Vector)
      /\ \A k \in 1..N, v \in Vector : next[<<k, v>>] = To(k, v)
  BY <1>1 DEF StepsOn
<1> HIDE DEF next
<1>3. 0 \in Nat /\ 0 <= N /\ N \in Nat
  BY Sizes
<1>4. PICK f \in [0..N -> Vector] : Follows(f, 0, N, x0, next)
  BY Zenon, <1>2, <1>3, Defined
<1>5. f = Body(f)
  <2>1. ASSUME NEW k \in 0..N
        PROVE  f[k] = IF k = 0 THEN x0 ELSE To(k, f[k - 1])
    <3>1. CASE k = 0
      BY <1>4, <3>1 DEF Follows
    <3>2. CASE k # 0
      <4>1. k \in 1..N /\ k - 1 \in 0..N
        BY <1>3, <3>2
      <4>2. f[k] = next[<<k, f[k - 1]>>]
        BY <1>4, <3>2 DEF Follows
      <4>3. f[k - 1] \in Vector
        BY <4>1
      <4>4. next[<<k, f[k - 1]>>] = To(k, f[k - 1])
        BY Zenon, <1>2, <4>1, <4>3
      <4> QED
        BY <3>2, <4>2, <4>4
    <3> QED
      BY <3>1, <3>2
  <2> QED
    BY <2>1
<1>6. x = Body(x)
  BY Zenon, <1>5
<1> HIDE DEF x
<1>7. x[0] = x0 /\ \A k \in 1..N : x[k] = To(k, x[k - 1])
  BY <1>3, <1>6
<1> DEFINE S == {k \in 0..N : x[k] \in Vector}
<1>8. 0 \in S
  BY <1>3, <1>7
<1>9. ASSUME NEW k \in 0..N, k \in S, k + 1 \in 0..N
      PROVE  k + 1 \in S
  <2>1. k + 1 \in 1..N /\ (k + 1) - 1 = k
    BY <1>9
  <2>2. x[k + 1] = To(k + 1, x[k])
    BY <1>7, <2>1
  <2> QED
    BY <1>1, <1>9, <2>1, <2>2
<1>10. \A k \in 0..N : k \in S
  <2> HIDE DEF S
  <2> QED
    BY Zenon, <1>3, <1>8, <1>9, Climb
<1> QED
  BY <1>0, <1>7, <1>10 DEF To

-----------------------------------------------------------------------------
(***************************************************************************)
(* The matrices of the condensed QP.                                       *)
(***************************************************************************)

LEMMA FSteps ==
  ASSUME NEW base \in Arcs
  PROVE  /\ \A k \in 1..N : F[base][k] \in Matrix
         /\ F[base][1] = StepMatrix(base, 1)
         /\ \A k \in 1..N : k # 1
              => F[base][k] = TimesMatrix(StepMatrix(base, k), F[base][k - 1], 4)
<1> DEFINE first == StepMatrix(base, 1)
           To(k, v) == TimesMatrix(StepMatrix(base, k), v, 4)
           Body(f) == [k \in 1..N |-> IF k = 1 THEN first ELSE To(k, f[k - 1])]
           next == [p \in ((1 + 1)..N) \X Matrix |-> To(p[1], p[2])]
<1>1. \A k \in 1..N, v \in Matrix : To(k, v) \in Matrix
  <2>1. ASSUME NEW k \in 1..N, NEW v \in Matrix
        PROVE  To(k, v) \in Matrix
    <3>1. StepMatrix(base, k) \in Matrix /\ 4 \in Nat
      BY StepMatrixType
    <3>2. v \in [1..4 -> [1..4 -> Int]]
      BY DEF Matrix, Vector
    <3>3. To(k, v) \in [1..4 -> [1..4 -> Int]]
      BY <3>1, <3>2, ProductType
    <3> QED
      BY <3>3 DEF Matrix, Vector
  <2> QED
    BY <2>1
<1>2. 1 \in Nat /\ 1 <= N /\ N \in Nat /\ 1 \in 1..N
  BY Sizes
<1>3. first \in Matrix
  BY <1>2, StepMatrixType
<1> DEFINE x == CHOOSE f_ : f_ = Body(f_)
<1>0. F[base] = x
  BY DEF F, StepMatrix, NX
<1> HIDE DEF To, first
<1>4. next \in StepsOn(1, N, Matrix)
      /\ \A k \in 2..N, v \in Matrix : next[<<k, v>>] = To(k, v)
  <2>1. \A k \in 2..N : k \in 1..N
    OBVIOUS
  <2> QED
    BY <1>1, <2>1 DEF StepsOn
<1> HIDE DEF next
<1>5. PICK f \in [1..N -> Matrix] : Follows(f, 1, N, first, next)
  BY Zenon, <1>2, <1>3, <1>4, Defined
<1>6. f = Body(f)
  <2>1. ASSUME NEW k \in 1..N
        PROVE  f[k] = IF k = 1 THEN first ELSE To(k, f[k - 1])
    <3>1. CASE k = 1
      BY <1>5, <3>1 DEF Follows
    <3>2. CASE k # 1
      <4>1. k \in 2..N /\ k - 1 \in 1..N
        BY <1>2, <3>2
      <4>2. f[k] = next[<<k, f[k - 1]>>]
        BY <1>5, <3>2 DEF Follows
      <4>3. f[k - 1] \in Matrix
        BY <4>1
      <4>4. next[<<k, f[k - 1]>>] = To(k, f[k - 1])
        BY Zenon, <1>4, <4>1, <4>3
      <4> QED
        BY <3>2, <4>2, <4>4
    <3> QED
      BY <3>1, <3>2
  <2> QED
    BY <2>1
<1>7. x = Body(x)
  BY Zenon, <1>6
<1> HIDE DEF x
<1>8. x[1] = first /\ \A k \in 1..N : k # 1 => x[k] = To(k, x[k - 1])
  BY <1>2, <1>7
<1> DEFINE S == {k \in 1..N : x[k] \in Matrix}
<1>9. 1 \in S
  BY <1>2, <1>3, <1>8
<1>10. ASSUME NEW k \in 1..N, k \in S, k + 1 \in 1..N
       PROVE  k + 1 \in S
  <2>1. k + 1 # 1 /\ (k + 1) - 1 = k
    BY <1>10
  <2>2. x[k + 1] = To(k + 1, x[k])
    BY <1>8, <1>10, <2>1
  <2> QED
    BY <1>1, <1>10, <2>1, <2>2
<1>11. \A k \in 1..N : k \in S
  <2> HIDE DEF S
  <2> QED
    BY Zenon, <1>2, <1>9, <1>10, Climb
<1> QED
  BY <1>0, <1>8, <1>11 DEF To, first

\* What the input of column c adds to component i in step k.
Entry(base, k, i, c) ==
    IF StepOf(c) = k THEN StepInput(base, k)[i][InputOf(c)] ELSE 0

LEMMA ColumnType ==
  ASSUME NEW c \in 1..Columns
  PROVE  StepOf(c) \in 1..N /\ InputOf(c) \in 1..2
BY Sizes DEF StepOf, InputOf

LEMMA EntryType ==
  ASSUME NEW base \in Arcs, NEW k \in 1..N, NEW i \in 1..4, NEW c \in 1..Columns
  PROVE  /\ StepInput(base, k)[i][InputOf(c)] \in Int
         /\ Entry(base, k, i, c) \in Int
<1>1. StepInput(base, k)[i][InputOf(c)] \in Int
  BY ColumnType, StepInputType
<1> QED
  BY <1>1 DEF Entry

LEMMA GSteps ==
  ASSUME NEW base \in Arcs
  PROVE  /\ \A k \in 1..N : G[base][k] \in [1..4 -> Inputs]
         /\ \A k \in 1..N, i \in 1..4, c \in 1..Columns :
              G[base][k][i][c] =
                IF StepOf(c) = k THEN StepInput(base, k)[i][InputOf(c)]
                ELSE IF k = 1 THEN 0
                ELSE Four(StepMatrix(base, k)[i], Column(G[base][k - 1], c))
<1> DEFINE V == [1..4 -> Inputs]
           Past(k, v) == IF k = 1 THEN NoEffect
                         ELSE TimesMatrix(StepMatrix(base, k), v, Columns)
           Filled(k, w) == [i \in 1..4 |-> [c \in 1..Columns |->
                              IF StepOf(c) = k THEN StepInput(base, k)[i][InputOf(c)]
                              ELSE w[i][c]]]
           To(k, v) == Filled(k, Past(k, v))
           Body(g) == [k \in 1..N |-> To(k, g[k - 1])]
           first == Filled(1, NoEffect)
           next == [p \in ((1 + 1)..N) \X V |-> To(p[1], p[2])]
<1>1. 1 \in Nat /\ 1 <= N /\ N \in Nat /\ 1 \in 1..N /\ Columns \in Nat
  BY Sizes
<1>2. NoEffect \in V /\ \A i \in 1..4, c \in 1..Columns : NoEffect[i][c] = 0
  BY DEF NoEffect, NX, Inputs
<1>3. \A k \in 1..N, v \in V :
        /\ Past(k, v) \in V
        /\ k # 1 => \A i \in 1..4, c \in 1..Columns :
             Past(k, v)[i][c] = Four(StepMatrix(base, k)[i], Column(v, c))
  <2>1. ASSUME NEW k \in 1..N, NEW v \in V, k # 1
        PROVE  /\ Past(k, v) \in V
               /\ \A i \in 1..4, c \in 1..Columns :
                    Past(k, v)[i][c] = Four(StepMatrix(base, k)[i], Column(v, c))
    <3>1. StepMatrix(base, k) \in Matrix
      BY StepMatrixType
    <3>2. v \in [1..4 -> [1..Columns -> Int]]
      BY DEF Inputs
    <3> DEFINE A == StepMatrix(base, k)
               T == TimesMatrix(A, v, Columns)
    <3>3. /\ T \in [1..4 -> [1..Columns -> Int]]
          /\ \A i \in 1..4, c \in 1..Columns : T[i][c] = Four(A[i], Column(v, c))
      <4> HIDE DEF A
      <4> QED
        BY <1>1, <3>1, <3>2, ProductType DEF A
    <3>4. Past(k, v) = T
      BY <2>1
    <3> HIDE DEF T, A, Past
    <3> QED
      BY <3>3, <3>4 DEF Inputs, A
  <2> QED
    BY <1>2, <2>1
<1>4. \A k \in 1..N, w \in V : Filled(k, w) \in V
  <2>1. ASSUME NEW k \in 1..N, NEW w \in V, NEW i \in 1..4, NEW c \in 1..Columns
        PROVE  (IF StepOf(c) = k THEN StepInput(base, k)[i][InputOf(c)] ELSE w[i][c]) \in Int
    BY EntryType DEF Inputs
  <2> QED
    BY <2>1 DEF Inputs
<1>5. \A k \in 1..N, v \in V : To(k, v) \in V
  <2> HIDE DEF Past, Filled, V
  <2> QED
    BY <1>3, <1>4
<1>6. first \in V /\ \A v : To(1, v) = first
  <2>1. \A v : Past(1, v) = NoEffect
    OBVIOUS
  <2>2. first \in V
    <3> HIDE DEF Filled, V
    <3> QED
      BY <1>1, <1>2, <1>4
  <2> HIDE DEF Past, Filled
  <2> QED
    BY <2>1, <2>2
<1> DEFINE x == CHOOSE g_ : g_ = Body(g_)
<1>0. G[base] = x
  BY DEF G, StepMatrix, StepInput, NX
<1> HIDE DEF Past, Filled, V
<1>7. next \in StepsOn(1, N, V)
      /\ \A k \in 2..N, v \in V : next[<<k, v>>] = To(k, v)
  <2>1. \A k \in 2..N : k \in 1..N
    OBVIOUS
  <2> HIDE DEF To
  <2> QED
    BY <1>5, <2>1 DEF StepsOn
<1> HIDE DEF next, To, first
<1>8. PICK f \in [1..N -> V] : Follows(f, 1, N, first, next)
  BY Zenon, <1>1, <1>6, <1>7, Defined
<1>9. f = Body(f)
  <2>1. ASSUME NEW k \in 1..N
        PROVE  f[k] = To(k, f[k - 1])
    <3>1. CASE k = 1
      BY <1>6, <1>8, <3>1 DEF Follows
    <3>2. CASE k # 1
      <4>1. k \in 2..N /\ k - 1 \in 1..N
        BY <1>1, <3>2
      <4>2. f[k] = next[<<k, f[k - 1]>>]
        BY <1>8, <3>2 DEF Follows
      <4>3. f[k - 1] \in V
        BY <4>1
      <4>4. next[<<k, f[k - 1]>>] = To(k, f[k - 1])
        BY Zenon, <1>7, <4>1, <4>3
      <4> QED
        BY <4>2, <4>4
    <3> QED
      BY <3>1, <3>2
  <2> QED
    BY <2>1
<1>10. x = Body(x)
  BY Zenon, <1>9
<1> HIDE DEF x
<1>11. \A k \in 1..N : x[k] = To(k, x[k - 1])
  BY <1>10
<1> DEFINE S == {k \in 1..N : x[k] \in V}
<1>12. 1 \in S
  BY <1>1, <1>6, <1>11
<1>13. ASSUME NEW k \in 1..N, k \in S, k + 1 \in 1..N
       PROVE  k + 1 \in S
  <2>1. (k + 1) - 1 = k
    OBVIOUS
  <2>2. x[k + 1] = To(k + 1, x[k])
    BY <1>11, <1>13, <2>1
  <2> QED
    BY <1>5, <1>13, <2>2
<1>14. \A k \in 1..N : k \in S
  <2> HIDE DEF S
  <2> QED
    BY Zenon, <1>1, <1>12, <1>13, Climb
<1>15. ASSUME NEW k \in 1..N, NEW i \in 1..4, NEW c \in 1..Columns
       PROVE  x[k][i][c] =
                IF StepOf(c) = k THEN StepInput(base, k)[i][InputOf(c)]
                ELSE IF k = 1 THEN 0
                ELSE Four(StepMatrix(base, k)[i], Column(x[k - 1], c))
  <2>1. x[k] = Filled(k, Past(k, x[k - 1]))
    BY <1>11 DEF To
  <2> DEFINE w == Past(k, x[k - 1])
  <2>2. x[k][i][c] = IF StepOf(c) = k THEN StepInput(base, k)[i][InputOf(c)] ELSE w[i][c]
    <3> HIDE DEF w
    <3> QED
      BY <2>1 DEF Filled, w
  <2>3. w[i][c] = IF k = 1 THEN 0
                  ELSE Four(StepMatrix(base, k)[i], Column(x[k - 1], c))
    <3>1. CASE k = 1
      <4>1. w = NoEffect
        BY <3>1 DEF Past
      <4> QED
        BY <1>2, <3>1, <4>1
    <3>2. CASE k # 1
      <4>1. k - 1 \in 1..N
        BY <1>1, <3>2
      <4>2. x[k - 1] \in V
        BY <1>14, <4>1
      <4> QED
        BY <1>3, <3>2, <4>2
    <3> QED
      BY <3>1, <3>2
  <2> QED
    BY <2>2, <2>3
<1> QED
  BY <1>0, <1>14, <1>15 DEF V

\* No state depends on an input after it.
LEMMA GBeyond ==
  ASSUME NEW base \in Arcs, NEW c \in 1..Columns
  PROVE  \A k \in 1..N : k < StepOf(c) => \A i \in 1..4 : G[base][k][i][c] = 0
<1> DEFINE S == {k \in 1..N : k < StepOf(c) => \A i \in 1..4 : G[base][k][i][c] = 0}
<1>0. 1 \in Nat /\ N \in Nat /\ 1 \in 1..N /\ StepOf(c) \in 1..N
  BY Sizes, ColumnType
<1>1. 1 \in S
  <2>1. 1 < StepOf(c) => StepOf(c) # 1
    BY <1>0
  <2> QED
    BY <1>0, <2>1, GSteps
<1>2. ASSUME NEW k \in 1..N, k \in S, k + 1 \in 1..N
      PROVE  k + 1 \in S
  <2>1. SUFFICES ASSUME k + 1 < StepOf(c), NEW i \in 1..4
                 PROVE  G[base][k + 1][i][c] = 0
    BY <1>2
  <2> DEFINE a == StepMatrix(base, k + 1)[i]
             y == Column(G[base][k], c)
  <2>2. k < StepOf(c) /\ k + 1 # StepOf(c) /\ k + 1 # 1 /\ (k + 1) - 1 = k
    BY <1>0, <2>1
  <2>3. G[base][k + 1][i][c] = Four(a, y)
    BY <1>2, <2>2, GSteps
  <2>4. \A l \in 1..4 : y[l] = 0
    BY <1>2, <2>2 DEF Column
  <2>5. a \in Vector
    BY <1>2, StepMatrixType DEF Matrix
  <2> HIDE DEF a, y
  <2>6. /\ y[1] = 0 /\ y[2] = 0 /\ y[3] = 0 /\ y[4] = 0
        /\ a[1] \in Int /\ a[2] \in Int /\ a[3] \in Int /\ a[4] \in Int
    BY <2>4, <2>5 DEF Vector
  <2> QED
    BY <2>3, <2>6 DEF Four
<1>3. \A k \in 1..N : k \in S
  <2> HIDE DEF S
  <2> QED
    BY Zenon, <1>0, <1>1, <1>2, Climb
<1> QED
  BY <1>3

\* The response to an input goes through the model like the state, and a new
\* input adds its own.
LEMMA GNext ==
  ASSUME NEW base \in Arcs, NEW k \in 1..N, NEW i \in 1..4, NEW c \in 1..Columns
  PROVE  /\ k = 1 => G[base][k][i][c] = Entry(base, k, i, c)
         /\ k # 1 => G[base][k][i][c] =
              Four(StepMatrix(base, k)[i], Column(G[base][k - 1], c)) + Entry(base, k, i, c)
<1> DEFINE e == StepInput(base, k)[i][InputOf(c)]
           a == StepMatrix(base, k)[i]
           y == Column(G[base][k - 1], c)
<1>1. G[base][k][i][c] = IF StepOf(c) = k THEN e ELSE IF k = 1 THEN 0 ELSE Four(a, y)
  BY GSteps
<1>2. e \in Int
  BY EntryType
<1>3. CASE k = 1
  BY <1>1, <1>3 DEF Entry
<1>4. CASE k # 1
  <2>1. k - 1 \in 1..N /\ k - 1 < k
    BY <1>4, Sizes
  <2>2. a \in Vector
    BY StepMatrixType DEF Matrix
  <2>3. y \in Vector
    <3>1. G[base][k - 1] \in [1..4 -> [1..Columns -> Int]]
      BY <2>1, GSteps DEF Inputs
    <3> QED
      BY <3>1 DEF Column, Vector
  <2>4. StepOf(c) = k => \A l \in 1..4 : y[l] = 0
    BY <2>1, GBeyond DEF Column
  <2>5. Entry(base, k, i, c) = IF StepOf(c) = k THEN e ELSE 0
    BY DEF Entry
  <2> HIDE DEF a, y, e
  <2>6. Four(a, y) \in Int
    BY <2>2, <2>3, DotOfFour
  <2>7. StepOf(c) = k => Four(a, y) = 0
    <3>1. a[1] \in Int /\ a[2] \in Int /\ a[3] \in Int /\ a[4] \in Int
      BY <2>2 DEF Vector
    <3> QED
      BY <2>4, <3>1 DEF Four
  <2>8. G[base][k][i][c] = Four(a, y) + Entry(base, k, i, c)
    BY <1>1, <1>2, <1>4, <2>5, <2>6, <2>7
  <2> QED
    BY <1>4, <2>8 DEF a, y
<1> QED
  BY <1>3, <1>4

-----------------------------------------------------------------------------
(***************************************************************************)
(* The states the QP predicts are those of the model.                      *)
(***************************************************************************)

LEMMA FourOfSum ==
  ASSUME NEW a \in Vector, NEW x \in Vector, NEW y \in Vector, NEW z,
         \A i \in 1..4 : z[i] = x[i] + y[i]
  PROVE  Four(a, z) = Four(a, x) + Four(a, y)
<1>1. \A i \in 1..4 : a[i] \in Int /\ x[i] \in Int /\ y[i] \in Int
  BY DEF Vector
<1>2. \A p, q, r \in Int : p * (q + r) = p * q + p * r
  OBVIOUS
<1>3. \A i \in 1..4 : a[i] * z[i] = a[i] * x[i] + a[i] * y[i]
  BY <1>1, <1>2
<1>4. \A i \in 1..4 : a[i] * x[i] \in Int /\ a[i] * y[i] \in Int
  BY <1>1
<1> QED
  BY <1>3, <1>4 DEF Four

Rows(M, u) == [i \in 1..4 |-> Dot(M[i], u)]

Combines(h, a, M, u, e, n) ==
    \A c \in 1..n : h[c] = Four(a, Column(M, c)) * u[c] + e[c]

Combined(h, a, M, u, e, n) == Total(h, n) = Four(a, Rows(M, u)) + Total(e, n)

\* A combination of four rows, applied to a vector, is the combination of what
\* the rows give.
LEMMA RowsCombine ==
  ASSUME NEW n \in Nat, NEW u \in [1..n -> Int], NEW M \in [1..4 -> [1..n -> Int]],
         NEW a \in Vector, NEW e, Summable(e, n), NEW h,
         Combines(h, a, M, u, e, n)
  PROVE  /\ \A i \in 1..4 : Dot(M[i], u) \in Int
         /\ Combined(h, a, M, u, e, n)
<1> DEFINE m(i) == [c \in 1..n |-> M[i][c] * u[c]]
           D(i) == Dot(M[i], u)
           a1 == a[1]
           a2 == a[2]
           a3 == a[3]
           a4 == a[4]
           m1 == m(1)
           m2 == m(2)
           m3 == m(3)
           m4 == m(4)
           t1 == [c \in 1..n |-> e[c] + a1 * m1[c]]
           t2 == [c \in 1..n |-> t1[c] + a2 * m2[c]]
           t3 == [c \in 1..n |-> t2[c] + a3 * m3[c]]
<1>1. a1 \in Int /\ a2 \in Int /\ a3 \in Int /\ a4 \in Int
  BY DEF Vector
<1>2. \A i \in 1..4 : M[i] \in [1..n -> Int]
  OBVIOUS
<1>3. \A i \in 1..4 : Summable(m(i), n)
  <2>1. ASSUME NEW i \in 1..4, NEW c \in 1..n
        PROVE  (m(i))[c] \in Int
    <3>1. M[i][c] \in Int /\ u[c] \in Int
      BY <1>2
    <3> QED
      BY <3>1
  <2> HIDE DEF m
  <2> QED
    BY <2>1 DEF Summable
<1>0. Summable(m1, n) /\ Summable(m2, n) /\ Summable(m3, n) /\ Summable(m4, n)
  <2> HIDE DEF m
  <2> QED
    BY <1>3
<1>4. \A i \in 1..4 : Total(m(i), n) = D(i)
  BY <1>2, DotIsTotal
<1>5. \A i \in 1..4 : D(i) \in Int
  <2>1. \A i \in 1..4 : Total(m(i), n) \in Int
    <3> HIDE DEF m
    <3> QED
      BY <1>3, TotalRec
  <2> QED
    BY <1>4, <2>1
<1>6. ASSUME NEW c \in 1..n
      PROVE  h[c] = t3[c] + a4 * m4[c]
  <2> DEFINE y1 == M[1][c]
             y2 == M[2][c]
             y3 == M[3][c]
             y4 == M[4][c]
             uc == u[c]
             ec == e[c]
  <2>1. y1 \in Int /\ y2 \in Int /\ y3 \in Int /\ y4 \in Int
    <3>1. \A i \in 1..4 : M[i][c] \in Int
      BY <1>2
    <3> QED
      BY <3>1
  <2>2. uc \in Int /\ ec \in Int
    BY DEF Summable
  <2>3. h[c] = (a1 * y1 + a2 * y2 + a3 * y3 + a4 * y4) * uc + ec
    BY DEF Four, Column, Combines
  <2>4. t3[c] = ((ec + a1 * (y1 * uc)) + a2 * (y2 * uc)) + a3 * (y3 * uc)
        /\ m4[c] = y4 * uc
    <3> HIDE DEF a1, a2, a3
    <3> QED
      OBVIOUS
  <2> HIDE DEF y1, y2, y3, y4, uc, ec, a1, a2, a3, a4, m4, t3
  <2>5. (a1 * y1 + a2 * y2 + a3 * y3 + a4 * y4) * uc + ec
         = (((ec + a1 * (y1 * uc)) + a2 * (y2 * uc)) + a3 * (y3 * uc)) + a4 * (y4 * uc)
    BY <1>1, <2>1, <2>2
  <2> QED
    BY <2>3, <2>4, <2>5
<1>7. Adds(t1, e, a1, m1, n) /\ Adds(t2, t1, a2, m2, n) /\ Adds(t3, t2, a3, m3, n)
      /\ Adds(h, t3, a4, m4, n)
  <2>1. Adds(h, t3, a4, m4, n)
    <3> HIDE DEF t3, a4, m4
    <3> QED
      BY <1>6 DEF Adds
  <2> HIDE DEF a1, a2, a3, m1, m2, m3
  <2> QED
    BY <2>1 DEF Adds
<1>d. /\ Total(m1, n) = D(1) /\ Total(m2, n) = D(2)
      /\ Total(m3, n) = D(3) /\ Total(m4, n) = D(4)
  <2> HIDE DEF m, D
  <2> QED
    BY <1>4
<1> HIDE DEF t1, t2, t3, m, m1, m2, m3, m4, a1, a2, a3, a4
<1>8. Summable(t1, n) /\ Total(t1, n) = Total(e, n) + a1 * Total(m1, n)
  BY <1>0, <1>1, <1>7, TotalLinear
<1>9. Summable(t2, n) /\ Total(t2, n) = Total(t1, n) + a2 * Total(m2, n)
  BY <1>0, <1>1, <1>7, <1>8, TotalLinear
<1>10. Summable(t3, n) /\ Total(t3, n) = Total(t2, n) + a3 * Total(m3, n)
  BY <1>0, <1>1, <1>7, <1>9, TotalLinear
<1>11. Total(h, n) = Total(t3, n) + a4 * Total(m4, n)
  BY <1>0, <1>1, <1>7, <1>10, TotalLinear
<1>12. Total(e, n) \in Int
  BY TotalRec
<1>13. D(1) \in Int /\ D(2) \in Int /\ D(3) \in Int /\ D(4) \in Int
  <2> HIDE DEF D
  <2> QED
    BY <1>5
<1>14. Four(a, [i \in 1..4 |-> D(i)]) = a1 * D(1) + a2 * D(2) + a3 * D(3) + a4 * D(4)
  <2> HIDE DEF D
  <2> QED
    BY DEF Four, a1, a2, a3, a4
<1> HIDE DEF D
<1>15. Total(h, n) = (a1 * D(1) + a2 * D(2) + a3 * D(3) + a4 * D(4)) + Total(e, n)
  <2>1. Total(h, n) = (((Total(e, n) + a1 * D(1)) + a2 * D(2)) + a3 * D(3)) + a4 * D(4)
    BY <1>d, <1>8, <1>9, <1>10, <1>11
  <2>2. a1 * D(1) \in Int /\ a2 * D(2) \in Int /\ a3 * D(3) \in Int /\ a4 * D(4) \in Int
    BY <1>1, <1>13
  <2> QED
    BY <1>12, <2>1, <2>2
<1> QED
  BY <1>5, <1>14, <1>15 DEF D, Rows, Combined

\* The input of step k, as what it adds to each component.
LEMMA EntrySum ==
  ASSUME NEW base \in Arcs, NEW k \in 1..N, NEW u \in Inputs, NEW i \in 1..4
  PROVE  LET e == [c \in 1..Columns |-> Entry(base, k, i, c) * u[c]] IN
         Summable(e, Columns) /\ Total(e, Columns) = Fed(base, k, u, i)
<1> DEFINE e == [c \in 1..Columns |-> Entry(base, k, i, c) * u[c]]
           B == StepInput(base, k)[i]
           p == 2 * k - 1
           q == 2 * k
           first == [c \in 1..Columns |-> IF c = p THEN B[1] * u[c] ELSE 0]
           second == [c \in 1..Columns |-> IF c = q THEN u[c] ELSE 0]
<1>0. Columns \in Nat /\ N \in Nat /\ Columns = 2 * N
  BY Sizes
<1>1. /\ p \in 1..Columns /\ q \in 1..Columns /\ p # q
      /\ u[p] \in Int /\ u[q] \in Int /\ B[1] \in Int /\ B[2] \in Int
  BY <1>0, InputsOfStep, StepInputType
<1>2. \A c \in 1..Columns : StepOf(c) = k <=> c = p \/ c = q
  BY <1>0 DEF StepOf
<1>3. InputOf(p) = 1 /\ InputOf(q) = 2
  BY DEF InputOf
<1>4. \A c \in 1..Columns : Entry(base, k, i, c)
        = IF c = p THEN B[1] ELSE IF c = q THEN B[2] ELSE 0
  <2> HIDE DEF p, q
  <2> QED
    BY <1>2, <1>3 DEF Entry
<1> HIDE DEF B, p, q
<1>5. \A c \in 1..Columns :
        /\ e[c] = IF c = p THEN B[1] * u[p] ELSE IF c = q THEN B[2] * u[q] ELSE 0
        /\ first[c] = IF c = p THEN B[1] * u[p] ELSE 0
        /\ second[c] = IF c = q THEN u[q] ELSE 0
  <2>1. \A c \in 1..Columns : u[c] \in Int
    BY DEF Inputs
  <2> QED
    BY <1>4, <2>1
<1> HIDE DEF e, first, second
<1>6. B[1] * u[p] \in Int /\ B[2] * u[q] \in Int
  BY <1>1
<1>7. Total(first, Columns) = B[1] * u[p]
  BY <1>0, <1>1, <1>5, <1>6, TotalPoint
<1>8. Total(second, Columns) = u[q]
  BY <1>0, <1>1, <1>5, TotalPoint
<1>9. Summable(first, Columns) /\ Summable(second, Columns)
  BY <1>1, <1>5, <1>6 DEF Summable
<1>10. Adds(e, first, B[2], second, Columns)
  BY <1>1, <1>5, <1>6 DEF Adds
<1>11. Summable(e, Columns)
       /\ Total(e, Columns) = Total(first, Columns) + B[2] * Total(second, Columns)
  BY <1>0, <1>1, <1>9, <1>10, TotalLinear
<1> QED
  BY <1>7, <1>8, <1>11 DEF Fed, e, B, p, q

\* The two parts of a predicted state: what it would be without inputs, and
\* what the inputs make of it.
Free(base, k, x0) == Times(F[base][k], x0)

Response(base, k, u) == Rows(G[base][k], u)

LEMMA FreeSteps ==
  ASSUME NEW base \in Arcs, NEW k \in 1..N, NEW x0 \in Vector
  PROVE  /\ Free(base, k, x0) \in Vector
         /\ \A i \in 1..4 : Free(base, k, x0)[i] = Dot(F[base][k][i], x0)
         /\ \A i \in 1..4 : Free(base, k, x0)[i] =
              Four(StepMatrix(base, k)[i],
                   IF k = 1 THEN x0 ELSE Free(base, k - 1, x0))
<1>1. F[base][k] \in Matrix
  BY FSteps
<1>2. Free(base, k, x0) \in Vector
      /\ \A i \in 1..4 : Free(base, k, x0)[i] = Four(F[base][k][i], x0)
  BY <1>1, TimesType DEF Free
<1>3. \A i \in 1..4 : Free(base, k, x0)[i] = Dot(F[base][k][i], x0)
  BY <1>2 DEF Free, Times, NX
<1>4. ASSUME NEW i \in 1..4
      PROVE  Free(base, k, x0)[i] =
               Four(StepMatrix(base, k)[i], IF k = 1 THEN x0 ELSE Free(base, k - 1, x0))
  <2>1. CASE k = 1
    <3>1. F[base][k] = StepMatrix(base, k)
      BY <2>1, FSteps
    <3> QED
      BY <1>2, <2>1, <3>1
  <2>2. CASE k # 1
    <3> DEFINE a == StepMatrix(base, k)[i]
               M == F[base][k - 1]
               zero == [c \in 1..4 |-> 0]
               h == [c \in 1..4 |-> F[base][k][i][c] * x0[c]]
    <3>1. k - 1 \in 1..N
      BY <2>2, Sizes
    <3>2. M \in Matrix /\ StepMatrix(base, k) \in Matrix
      BY <3>1, FSteps, StepMatrixType
    <3>3. F[base][k] = TimesMatrix(StepMatrix(base, k), M, 4)
      BY <2>2, FSteps
    <3>4. a \in Vector /\ M \in [1..4 -> [1..4 -> Int]] /\ x0 \in [1..4 -> Int]
      BY <3>2 DEF Matrix, Vector
    <3>5. \A c \in 1..4 : F[base][k][i][c] = Four(a, Column(M, c))
      <4> DEFINE A == StepMatrix(base, k)
                 T == TimesMatrix(A, M, 4)
      <4>1. A \in Matrix /\ 4 \in Nat /\ F[base][k] = T /\ a = A[i]
        BY <3>2, <3>3
      <4>2. \A j \in 1..4, c \in 1..4 : T[j][c] = Four(A[j], Column(M, c))
        <5> HIDE DEF A, M, a
        <5> QED
          BY <3>4, <4>1, ProductType
      <4> HIDE DEF A, M, T, a
      <4> QED
        BY <4>1, <4>2
    <3>6. \A c \in 1..4 : zero[c] = 0 /\ x0[c] \in Int /\ F[base][k][i][c] \in Int
      BY <1>1 DEF Matrix, Vector
    <3>7. Combines(h, a, M, x0, zero, 4)
      <4>1. ASSUME NEW c \in 1..4
            PROVE  h[c] = Four(a, Column(M, c)) * x0[c] + zero[c]
        <5>1. h[c] = F[base][k][i][c] * x0[c]
          OBVIOUS
        <5>2. F[base][k][i][c] * x0[c] \in Int
          BY <3>6
        <5> HIDE DEF h, zero
        <5> QED
          BY <3>5, <3>6, <5>1, <5>2
      <4> HIDE DEF h, zero, a, M
      <4> QED
        BY <4>1 DEF Combines
    <3>8. Dot(F[base][k][i], x0) = Total(h, 4)
      <4>1. F[base][k][i] \in [1..4 -> Int]
        BY <1>1 DEF Matrix, Vector
      <4> QED
        BY <4>1, DotIsTotal
    <3> HIDE DEF a, M, zero, h
    <3>9. Summable(zero, 4) /\ Total(zero, 4) = 0 /\ 4 \in Nat
      <4>1. \A c \in 1..4 : zero[c] = 0
        BY <3>6
      <4>2. 4 \in Nat
        OBVIOUS
      <4> QED
        BY <4>1, <4>2, TotalZero DEF Summable
    <3> DEFINE d == Rows(M, x0)
    <3>10. Total(h, 4) = Four(a, d) + Total(zero, 4)
      <4> DEFINE n == 4
      <4>1. /\ n \in Nat /\ x0 \in [1..n -> Int] /\ M \in [1..4 -> [1..n -> Int]]
            /\ a \in Vector /\ Summable(zero, n) /\ Combines(h, a, M, x0, zero, n)
        BY <3>4, <3>7, <3>9
      <4>2. Total(h, n) = Four(a, d) + Total(zero, n)
        <5>1. Combined(h, a, M, x0, zero, n)
          <6> HIDE DEF n
          <6> QED
            BY Zenon, <4>1, RowsCombine
        <5> QED
          BY <5>1 DEF Combined
      <4> QED
        BY <4>2
    <3>11. d = Free(base, k - 1, x0)
      BY DEF Free, Times, M, NX, Rows
    <3>12. Free(base, k - 1, x0) \in Vector
      BY <3>1, <3>2, TimesType DEF Free, M
    <3> HIDE DEF d
    <3>13. Four(a, d) \in Int
      BY <3>4, <3>11, <3>12, DotOfFour
    <3> QED
      BY <1>3, <2>2, <3>8, <3>9, <3>10, <3>11, <3>13 DEF a
  <2> QED
    BY <2>1, <2>2
<1> QED
  BY <1>2, <1>3, <1>4

LEMMA ResponseSteps ==
  ASSUME NEW base \in Arcs, NEW k \in 1..N, NEW u \in Inputs
  PROVE  /\ Response(base, k, u) \in Vector
         /\ \A i \in 1..4 : Response(base, k, u)[i] =
              (IF k = 1 THEN 0
               ELSE Four(StepMatrix(base, k)[i], Response(base, k - 1, u)))
              + Fed(base, k, u, i)
<1>0. Columns \in Nat
  BY Sizes
<1>1. ASSUME NEW i \in 1..4
      PROVE  /\ Response(base, k, u)[i] \in Int
             /\ Response(base, k, u)[i] =
                  (IF k = 1 THEN 0
                   ELSE Four(StepMatrix(base, k)[i], Response(base, k - 1, u)))
                  + Fed(base, k, u, i)
  <2> DEFINE h == [c \in 1..Columns |-> G[base][k][i][c] * u[c]]
             e == [c \in 1..Columns |-> Entry(base, k, i, c) * u[c]]
  <2>1. G[base][k][i] \in [1..Columns -> Int] /\ u \in [1..Columns -> Int]
    BY GSteps DEF Inputs
  <2>2. Response(base, k, u)[i] = Total(h, Columns)
    BY <1>0, <2>1, DotIsTotal DEF Response, Rows
  <2>3. Summable(e, Columns) /\ Total(e, Columns) = Fed(base, k, u, i)
    BY EntrySum
  <2>4. Summable(h, Columns)
    <3>1. \A c \in 1..Columns : G[base][k][i][c] \in Int /\ u[c] \in Int
      BY <2>1
    <3>2. \A c \in 1..Columns : h[c] \in Int
      BY <3>1
    <3> HIDE DEF h
    <3> QED
      BY <3>2 DEF Summable
  <2>5. Total(h, Columns) \in Int /\ Total(e, Columns) \in Int
    <3> HIDE DEF h, e
    <3> QED
      BY <1>0, <2>3, <2>4, TotalRec
  <2>6. CASE k = 1
    <3>1. \A c \in 1..Columns : h[c] = e[c]
      BY <2>6, GNext
    <3>2. Total(h, Columns) = Total(e, Columns)
      <4> HIDE DEF h, e
      <4> QED
        BY <1>0, <2>3, <3>1, TotalSame
    <3> HIDE DEF h, e
    <3> QED
      BY <2>2, <2>3, <2>5, <2>6, <3>2
  <2>7. CASE k # 1
    <3> DEFINE a == StepMatrix(base, k)[i]
               M == G[base][k - 1]
    <3>1. k - 1 \in 1..N
      BY <2>7, Sizes
    <3>2. a \in Vector
      BY StepMatrixType DEF Matrix
    <3>3. M \in [1..4 -> [1..Columns -> Int]]
      BY <3>1, GSteps DEF Inputs
    <3>4. ASSUME NEW c \in 1..Columns
          PROVE  h[c] = Four(a, Column(M, c)) * u[c] + e[c]
      <4> DEFINE p == Four(a, Column(M, c))
                 q == Entry(base, k, i, c)
                 r == u[c]
      <4>1. G[base][k][i][c] = p + q
        BY <2>7, GNext
      <4>2. p \in Int
        <5>1. Column(M, c) \in Vector
          <6> HIDE DEF M
          <6> QED
            BY <3>3 DEF Column, Vector
        <5> HIDE DEF a, M
        <5> QED
          BY <3>2, <5>1, DotOfFour
      <4>3. q \in Int
        BY EntryType
      <4>4. r \in Int
        BY <2>1
      <4>5. h[c] = (p + q) * r /\ e[c] = q * r
        BY <4>1
      <4> HIDE DEF p, q, r, h, e
      <4>6. h[c] = p * r + e[c]
        BY <4>2, <4>3, <4>4, <4>5
      <4> QED
        BY <4>6 DEF p, r
    <3>5. Total(h, Columns)
            = Four(a, Rows(M, u)) + Total(e, Columns)
      <4> HIDE DEF h, e, a, M
      <4>1. Combines(h, a, M, u, e, Columns)
        BY <3>4 DEF Combines
      <4> QED
        <5>1. Combined(h, a, M, u, e, Columns)
          BY Zenon, <1>0, <2>1, <2>3, <3>2, <3>3, <4>1, RowsCombine
        <5> QED
          BY <5>1 DEF Combined
    <3>6. Rows(M, u) = Response(base, k - 1, u)
      BY DEF Response
    <3> HIDE DEF h, e
    <3> QED
      BY <2>2, <2>3, <2>5, <2>7, <3>5, <3>6
  <2> QED
    BY <2>6, <2>7
<1>2. Response(base, k, u) = [i \in 1..4 |-> Response(base, k, u)[i]]
  BY DEF Response, Rows
<1> QED
  BY <1>1, <1>2 DEF Vector

\* Every state of the model is the sum of the two.
LEMMA RolloutSplits ==
  ASSUME NEW base \in Arcs, NEW x0 \in Vector, NEW u \in Inputs
  PROVE  \A k \in 1..N, i \in 1..4 :
           Rollout(base, x0, u)[k][i]
             = Free(base, k, x0)[i] + Response(base, k, u)[i]
<1> DEFINE x == Rollout(base, x0, u)
           fr(k) == Free(base, k, x0)
           re(k) == Response(base, k, u)
           S == {k \in 1..N : \A i \in 1..4 : x[k][i] = fr(k)[i] + re(k)[i]}
<1>0. 1 \in Nat /\ N \in Nat /\ 1 \in 1..N
  BY Sizes
<1>1. \A k \in 1..N : fr(k) \in Vector /\ re(k) \in Vector
  BY FreeSteps, ResponseSteps
<1>2. x[0] = x0 /\ \A k \in 0..N : x[k] \in Vector
  BY RolloutSteps
<1>3. ASSUME NEW k \in 1..N, NEW i \in 1..4
      PROVE  /\ x[k][i] = Four(StepMatrix(base, k)[i], x[k - 1]) + Fed(base, k, u, i)
             /\ Fed(base, k, u, i) \in Int
             /\ Four(StepMatrix(base, k)[i], x[k - 1]) \in Int
             /\ StepMatrix(base, k)[i] \in Vector
  <2>1. k - 1 \in 0..N
    BY <1>0
  <2>2. x[k - 1] \in Vector /\ x[k] = Pushed(base, u, k, x[k - 1])
    BY <1>2, <2>1, RolloutSteps
  <2>3. StepMatrix(base, k)[i] \in Vector
    BY StepMatrixType DEF Matrix
  <2>4. Fed(base, k, u, i) \in Int
    BY InputsOfStep, StepInputType DEF Fed
  <2> HIDE DEF x
  <2>5. x[k][i] = Four(StepMatrix(base, k)[i], x[k - 1]) + Fed(base, k, u, i)
    BY <2>2, PushedType
  <2>6. Four(StepMatrix(base, k)[i], x[k - 1]) \in Int
    BY <2>2, <2>3, DotOfFour
  <2> QED
    BY <2>3, <2>4, <2>5, <2>6
<1> HIDE DEF x, fr, re
<1>4. 1 \in S
  <2>1. ASSUME NEW i \in 1..4
        PROVE  x[1][i] = fr(1)[i] + re(1)[i]
    <3>1. x[1][i] = Four(StepMatrix(base, 1)[i], x0) + Fed(base, 1, u, i)
      BY <1>0, <1>2, <1>3
    <3>2. fr(1)[i] = Four(StepMatrix(base, 1)[i], x0)
      BY <1>0, FreeSteps DEF fr
    <3>3. re(1)[i] = 0 + Fed(base, 1, u, i)
      BY <1>0, ResponseSteps DEF re
    <3>4. Fed(base, 1, u, i) \in Int
      BY <1>0, <1>3
    <3> QED
      BY <3>1, <3>2, <3>3, <3>4
  <2> QED
    BY <1>0, <2>1
<1>5. ASSUME NEW k \in 1..N, k \in S, k + 1 \in 1..N
      PROVE  k + 1 \in S
  <2>1. ASSUME NEW i \in 1..4
        PROVE  x[k + 1][i] = fr(k + 1)[i] + re(k + 1)[i]
    <3> DEFINE a == StepMatrix(base, k + 1)[i]
               fed == Fed(base, k + 1, u, i)
    <3>0. k + 1 # 1 /\ (k + 1) - 1 = k
      BY <1>5
    <3>1. x[k + 1][i] = Four(a, x[k]) + fed /\ fed \in Int /\ a \in Vector
      BY <1>3, <1>5, <3>0
    <3>2. fr(k + 1)[i] = Four(a, fr(k))
      BY <1>5, <3>0, FreeSteps DEF fr
    <3>3. re(k + 1)[i] = Four(a, re(k)) + fed
      BY <1>5, <3>0, ResponseSteps DEF re
    <3>4. Four(a, x[k]) = Four(a, fr(k)) + Four(a, re(k))
      <4> HIDE DEF a
      <4> QED
        BY <1>1, <1>5, <3>1, FourOfSum
    <3> HIDE DEF a, fed
    <3>5. Four(a, fr(k)) \in Int /\ Four(a, re(k)) \in Int
      BY <1>1, <3>1, DotOfFour
    <3> QED
      BY <3>1, <3>2, <3>3, <3>4, <3>5
  <2> QED
    BY <1>5, <2>1
<1>6. \A k \in 1..N : k \in S
  <2> HIDE DEF S
  <2> QED
    BY Zenon, <1>0, <1>4, <1>5, Climb
<1> QED
  BY <1>6 DEF x, fr, re

-----------------------------------------------------------------------------
(***************************************************************************)
(* The rows of the QP.                                                     *)
(***************************************************************************)

\* By how much a state is out of the bounds on speed and turn rate.
Excess(y) ==
    Greatest(Greatest(VMin - y[3], y[3] - VMax), Magnitude(y[4]) - OmegaMax)

LEMMA ViolationOfStates ==
  ASSUME NEW x, \A k \in 1..N : x[k] \in Vector, NEW tol \in Nat
  PROVE  MaxViolation(x) <= tol <=> \A k \in 1..N : Excess(x[k]) <= tol
<1> DEFINE To(k, v) == Greatest(v, Excess(x[k]))
           Body(f) == [k \in 0..N |-> IF k = 0 THEN 0 ELSE To(k, f[k - 1])]
           next == [p \in ((0 + 1)..N) \X Int |-> To(p[1], p[2])]
           b == CHOOSE f_ : f_ = Body(f_)
<1>0. 0 \in Nat /\ 0 <= N /\ N \in Nat /\ 0 \in Int
  BY Sizes
<1>1. \A k \in 1..N : Excess(x[k]) \in Int
  <2>1. ASSUME NEW k \in 1..N
        PROVE  Excess(x[k]) \in Int
    <3> DEFINE v == x[k][3]
               w == x[k][4]
    <3>1. v \in Int /\ w \in Int
      BY DEF Vector
    <3>2. Excess(x[k]) = Greatest(Greatest(VMin - v, v - VMax), Magnitude(w) - OmegaMax)
      BY DEF Excess
    <3> HIDE DEF v, w
    <3> QED
      BY <3>1, <3>2, Sizes DEF Greatest, Magnitude
  <2> QED
    BY <2>1
<1>2. MaxViolation(x) = b[N]
  BY DEF MaxViolation, Excess
<1>3. \A k \in 1..N, v \in Int :
        To(k, v) \in Int /\ (To(k, v) <= tol <=> v <= tol /\ Excess(x[k]) <= tol)
  BY <1>1 DEF Greatest
<1> HIDE DEF To
<1>4. next \in StepsOn(0, N, Int) /\ \A k \in 1..N, v \in Int : next[<<k, v>>] = To(k, v)
  BY <1>3 DEF StepsOn
<1> HIDE DEF next
<1>5. PICK f \in [0..N -> Int] : Follows(f, 0, N, 0, next)
  BY Zenon, <1>0, <1>4, Defined
<1>6. f = Body(f)
  <2>1. ASSUME NEW k \in 0..N
        PROVE  f[k] = IF k = 0 THEN 0 ELSE To(k, f[k - 1])
    <3>1. CASE k = 0
      BY <1>5, <3>1 DEF Follows
    <3>2. CASE k # 0
      <4>1. k \in 1..N /\ k - 1 \in 0..N
        BY <1>0, <3>2
      <4>2. f[k] = next[<<k, f[k - 1]>>]
        BY <1>5, <3>2 DEF Follows
      <4> QED
        BY <1>4, <3>2, <4>1, <4>2
    <3> QED
      BY <3>1, <3>2
  <2> QED
    BY <2>1
<1>7. b = Body(b)
  BY Zenon, <1>6
<1> HIDE DEF b
<1>8. b[0] = 0 /\ \A k \in 1..N : b[k] = To(k, b[k - 1])
  BY <1>0, <1>7
<1> DEFINE S == {k \in 0..N : /\ b[k] \in Int
                              /\ b[k] <= tol <=> \A j \in 1..k : Excess(x[j]) <= tol}
<1>9. 0 \in S
  BY <1>0, <1>8
<1>10. ASSUME NEW k \in 0..N, k \in S, k + 1 \in 0..N
       PROVE  k + 1 \in S
  <2>1. k + 1 \in 1..N /\ (k + 1) - 1 = k
    BY <1>10
  <2>2. b[k + 1] = To(k + 1, b[k])
    BY <1>8, <2>1
  <2>3. b[k + 1] \in Int
        /\ (b[k + 1] <= tol <=> b[k] <= tol /\ Excess(x[k + 1]) <= tol)
    BY <1>3, <1>10, <2>1, <2>2
  <2>4. \A j : j \in 1..(k + 1) <=> j \in 1..k \/ j = k + 1
    BY <1>0
  <2> QED
    BY <1>10, <2>3, <2>4
<1>11. \A k \in 0..N : k \in S
  <2> HIDE DEF S
  <2> QED
    BY Zenon, <1>0, <1>9, <1>10, Climb
<1>12. N \in 0..N
  BY <1>0
<1> QED
  BY <1>2, <1>11, <1>12

InputsHold(u, tol) ==
    \A c \in 1..Columns :
        Magnitude(u[c]) <= tol + (IF InputOf(c) = 1 THEN AMax ELSE AlphaMax)

\* The rows of the QP hold where the states of the model, and the inputs, are
\* within their bounds.
LEMMA RowsMeanBounds ==
  ASSUME NEW base \in Arcs, NEW x0 \in Vector, NEW u \in Inputs, NEW tol \in Nat
  PROVE  RowsHold(base, x0, u, tol)
           <=> MaxViolation(Rollout(base, x0, u)) <= tol /\ InputsHold(u, tol)
<1> DEFINE x == Rollout(base, x0, u)
           Row(k) == LET v == Dot(G[base][k][3], u)
                         w == Dot(G[base][k][4], u)
                         v_free == Dot(F[base][k][3], x0)
                         w_free == Dot(F[base][k][4], x0)
                     IN  /\ v <= VMax - v_free + tol /\ -v <= -VMin + v_free + tol
                         /\ w <= OmegaMax - w_free + tol /\ -w <= OmegaMax + w_free + tol
           Input(c) == Magnitude(u[c])
                         <= (IF InputOf(c) = 1 THEN AMax ELSE AlphaMax) + tol
<1>1. RowsHold(base, x0, u, tol)
        <=> (\A k \in 1..N : Row(k)) /\ (\A c \in 1..Columns : Input(c))
  BY DEF RowsHold
<1>2. (\A c \in 1..Columns : Input(c)) <=> InputsHold(u, tol)
  BY Sizes DEF InputsHold
<1>3. ASSUME NEW k \in 1..N
      PROVE  Row(k) <=> Excess(x[k]) <= tol
  <2> DEFINE v == Dot(G[base][k][3], u)
             w == Dot(G[base][k][4], u)
             v_free == Dot(F[base][k][3], x0)
             w_free == Dot(F[base][k][4], x0)
             fr == Free(base, k, x0)
             re == Response(base, k, u)
  <2>1. fr \in Vector /\ re \in Vector
    BY FreeSteps, ResponseSteps
  <2>2. fr[3] = v_free /\ fr[4] = w_free
    BY FreeSteps
  <2>3. re[3] = v /\ re[4] = w
    BY DEF Response, Rows
  <2>4. x[k][3] = fr[3] + re[3] /\ x[k][4] = fr[4] + re[4]
    BY RolloutSplits
  <2>5. Row(k) <=> /\ v <= VMax - v_free + tol /\ -v <= -VMin + v_free + tol
                   /\ w <= OmegaMax - w_free + tol /\ -w <= OmegaMax + w_free + tol
    OBVIOUS
  <2> HIDE DEF Row, v, w, v_free, w_free, fr, re, x
  <2>6. v \in Int /\ w \in Int /\ v_free \in Int /\ w_free \in Int
    BY <2>1, <2>2, <2>3 DEF Vector
  <2> DEFINE p == x[k][3]
             q == x[k][4]
  <2>7. p = v_free + v /\ q = w_free + w
    BY <2>2, <2>3, <2>4
  <2>8. Excess(x[k]) = Greatest(Greatest(VMin - p, p - VMax), Magnitude(q) - OmegaMax)
    BY DEF Excess
  <2> HIDE DEF p, q
  <2> QED
    BY <2>5, <2>6, <2>7, <2>8, Sizes DEF Greatest, Magnitude
<1>4. MaxViolation(x) <= tol <=> \A k \in 1..N : Excess(x[k]) <= tol
  <2>1. \A k \in 1..N : x[k] \in Vector
    <3>1. \A k \in 1..N : k \in 0..N
      OBVIOUS
    <3> QED
      BY <3>1, RolloutSteps
  <2> HIDE DEF x
  <2> QED
    BY <2>1, ViolationOfStates
<1> HIDE DEF x, Row, Input
<1>5. (\A k \in 1..N : Row(k)) <=> MaxViolation(x) <= tol
  BY <1>3, <1>4
<1> QED
  BY <1>1, <1>2, <1>5 DEF x

-----------------------------------------------------------------------------
(***************************************************************************)
(* The objective of the QP.                                                *)
(***************************************************************************)

LEMMA WeightTypes ==
  /\ \A k \in 1..N : Weights(k) \in Vector
  /\ \A c \in 1..Columns : SDiag[InputOf(c)] \in Int
<1>1. QDiag \in Vector /\ QFDiag \in Vector
  <2>1. QDiag \in Seq(Int) /\ Len(QDiag) = 4 /\ QFDiag \in Seq(Int) /\ Len(QFDiag) = 4
    BY SolveAssumption
  <2> QED
    BY <2>1, LenProperties, ElementOfSeq DEF Vector
<1>2. SDiag[1] \in Int /\ SDiag[2] \in Int
  <2>1. SDiag \in Seq(Int) /\ Len(SDiag) = 2
    BY SolveAssumption
  <2> QED
    BY <2>1, ElementOfSeq
<1>3. \A c \in 1..Columns : InputOf(c) = 1 \/ InputOf(c) = 2
  BY ColumnType
<1> QED
  BY <1>1, <1>2, <1>3 DEF Weights

\* A sum over the steps, each a combination of the four rows of that step.
Stacked(b, M, c) == Total([k \in 1..N |-> Four(b[k], Column(M[k], c))], N)

Stackable(b, M) == \A k \in 1..N : b[k] \in Vector /\ M[k] \in [1..4 -> Inputs]

Columnwise(w, b, M) == \A c \in 1..Columns : w[c] = Stacked(b, M, c)

Contracted(w, b, M, u) ==
    /\ \A c \in 1..Columns : w[c] \in Int
    /\ Summable([c \in 1..Columns |-> w[c] * u[c]], Columns)
    /\ Summable([k \in 1..N |-> Four(b[k], Rows(M[k], u))], N)
    /\ Total([c \in 1..Columns |-> w[c] * u[c]], Columns)
         = Total([k \in 1..N |-> Four(b[k], Rows(M[k], u))], N)

\* A plan contracts the columns: what it makes of such sums is one such sum.
LEMMA Contract ==
  ASSUME NEW b, NEW M, NEW u \in Inputs, NEW w,
         Stackable(b, M), Columnwise(w, b, M)
  PROVE  Contracted(w, b, M, u)
<1> DEFINE m == [k \in 1..N |-> [c \in 1..Columns |-> Four(b[k], Column(M[k], c)) * u[c]]]
           zero == [c \in 1..Columns |-> 0]
           none == [k \in 1..N |-> 0]
           rows == [k \in 1..N |-> Total(m[k], Columns)]
           column(c) == [k \in 1..N |-> m[k][c]]
           columns == [c \in 1..Columns |-> Total(column(c), N)]
           parts(c) == [k \in 1..N |-> Four(b[k], Column(M[k], c))]
           left == [c \in 1..Columns |-> w[c] * u[c]]
           right == [k \in 1..N |-> Four(b[k], Rows(M[k], u))]
<1>0. N \in Nat /\ Columns \in Nat
  BY Sizes
<1>1. \A c \in 1..Columns : u[c] \in Int
  BY DEF Inputs
<1>2. ASSUME NEW k \in 1..N, NEW c \in 1..Columns
      PROVE  Four(b[k], Column(M[k], c)) \in Int
  <2>1. b[k] \in Vector /\ Column(M[k], c) \in Vector
    <3>1. b[k] \in Vector /\ M[k] \in [1..4 -> [1..Columns -> Int]]
      BY DEF Inputs, Stackable
    <3> HIDE DEF m, zero, none, rows, column, columns, parts, left, right
    <3> QED
      BY <3>1 DEF Column, Vector
  <2> QED
    BY <2>1, DotOfFour
<1>3. \A k \in 1..N, c \in 1..Columns :
        m[k][c] = Four(b[k], Column(M[k], c)) * u[c] /\ m[k][c] \in Int
  <2>1. ASSUME NEW k \in 1..N, NEW c \in 1..Columns
        PROVE  Four(b[k], Column(M[k], c)) * u[c] \in Int
    BY <1>1, <1>2
  <2> QED
    BY <2>1
<1>4. Summable(zero, Columns) /\ Total(zero, Columns) = 0
      /\ Summable(none, N) /\ Total(none, N) = 0
  <2>1. (\A c \in 1..Columns : zero[c] = 0) /\ (\A k \in 1..N : none[k] = 0)
    OBVIOUS
  <2> HIDE DEF zero, none
  <2> QED
    BY <1>0, <2>1, TotalZero DEF Summable
<1>5. \A k \in 1..N : Summable(m[k], Columns)
  <2> HIDE DEF m
  <2> QED
    BY <1>3 DEF Summable
<1>6. ASSUME NEW k \in 1..N
      PROVE  Total(m[k], Columns) = Four(b[k], Rows(M[k], u))
  <2> DEFINE h == m[k]
             a == b[k]
             A == M[k]
  <2>1. a \in Vector /\ A \in [1..4 -> [1..Columns -> Int]] /\ u \in [1..Columns -> Int]
    BY DEF Inputs, Stackable
  <2>2. Combines(h, a, A, u, zero, Columns)
    <3>1. ASSUME NEW c \in 1..Columns
          PROVE  h[c] = Four(a, Column(A, c)) * u[c] + zero[c]
      <4>1. h[c] = Four(a, Column(A, c)) * u[c] /\ h[c] \in Int
        <5> HIDE DEF m
        <5> QED
          BY <1>3
      <4>2. zero[c] = 0
        OBVIOUS
      <4> HIDE DEF h, a, A, zero
      <4> QED
        BY <4>1, <4>2
    <3> HIDE DEF h, a, A, zero
    <3> QED
      BY <3>1 DEF Combines
  <2> HIDE DEF h, a, A, zero
  <2>3. Combined(h, a, A, u, zero, Columns)
    BY Zenon, <1>0, <1>4, <2>1, <2>2, RowsCombine
  <2>4. Rows(A, u) \in Vector
    <3>1. \A i \in 1..4 : Dot(A[i], u) \in Int
      BY Zenon, <1>0, <1>4, <2>1, <2>2, RowsCombine
    <3> QED
      BY <3>1 DEF Rows, Vector
  <2>5. Four(a, Rows(A, u)) \in Int
    BY <2>1, <2>4, DotOfFour
  <2>6. Total(h, Columns) = Four(a, Rows(A, u))
    BY <1>4, <2>3, <2>5 DEF Combined
  <2> QED
    BY <2>6 DEF h, a, A
<1>7. /\ Summable(rows, N) /\ Summable(columns, Columns)
      /\ Total(rows, N) = Total(columns, Columns)
  <2> HIDE DEF m
  <2> QED
    BY <1>0, <1>5, TotalExchange
<1>8. rows = right
  <2> HIDE DEF m
  <2> QED
    BY <1>6
<1>9. ASSUME NEW c \in 1..Columns
      PROVE  w[c] \in Int /\ columns[c] = left[c] /\ left[c] \in Int
  <2> DEFINE p == parts(c)
             uc == u[c]
             h == column(c)
  <2>1. Summable(p, N)
    BY <1>2 DEF Summable
  <2>2. \A k \in 1..N : h[k] = uc * p[k] /\ h[k] \in Int
    <3>1. \A k \in 1..N : h[k] = Four(b[k], Column(M[k], c)) * u[c] /\ h[k] \in Int
      <4> HIDE DEF m
      <4> QED
        BY <1>3
    <3>2. \A k \in 1..N : p[k] = Four(b[k], Column(M[k], c)) /\ p[k] \in Int
      BY <1>2
    <3>3. uc \in Int
      BY <1>1
    <3> HIDE DEF h, p
    <3> QED
      BY <3>1, <3>2, <3>3
  <2>3. w[c] = Total(p, N) /\ w[c] \in Int
    <3>1. w[c] = Total(p, N)
      BY DEF Stacked, Columnwise
    <3> HIDE DEF p
    <3> QED
      BY <1>0, <2>1, <3>1, TotalRec
  <2>4. Adds(h, none, uc, p, N)
    <3>1. \A k \in 1..N : none[k] = 0
      OBVIOUS
    <3> HIDE DEF h, p, none, uc
    <3> QED
      BY <2>2, <3>1 DEF Adds
  <2>5. uc \in Int /\ columns[c] = Total(h, N) /\ left[c] = w[c] * uc
    BY <1>1
  <2> HIDE DEF h, p, none, uc, columns, left
  <2>6. Total(h, N) = Total(none, N) + uc * Total(p, N)
    BY <1>0, <1>4, <2>1, <2>4, <2>5, TotalLinear
  <2> QED
    BY <1>4, <2>3, <2>5, <2>6
<1>10. columns = left
  <2>1. \A c \in 1..Columns : columns[c] = left[c]
    BY <1>9
  <2>2. columns = [c \in 1..Columns |-> columns[c]] /\ left = [c \in 1..Columns |-> left[c]]
    OBVIOUS
  <2> HIDE DEF columns, left
  <2> QED
    BY <2>1, <2>2
<1> HIDE DEF columns, left, rows, right
<1>11. \A c \in 1..Columns : w[c] \in Int
  BY <1>9
<1>12. Summable(left, Columns) /\ Summable(right, N)
       /\ Total(left, Columns) = Total(right, N)
  BY <1>7, <1>8, <1>10
<1> QED
  BY <1>11, <1>12 DEF left, right, Contracted

\* Weights on a state, one for each component.
Scaled(k, y) == [i \in 1..4 |-> Weights(k)[i] * y[i]]

LEMMA ScaledType ==
  ASSUME NEW k \in 1..N, NEW y \in Vector
  PROVE  Scaled(k, y) \in Vector
<1>1. \A i \in 1..4 : Weights(k)[i] \in Int /\ y[i] \in Int
  BY WeightTypes DEF Vector
<1>2. \A i \in 1..4 : Weights(k)[i] * y[i] \in Int
  BY <1>1
<1> QED
  BY <1>2 DEF Scaled, Vector

\* G' Qbar times a stack, as a sum over the steps.
LEMMA WeighedIsStacked ==
  ASSUME NEW base \in Arcs, NEW c \in 1..Columns, NEW stack,
         \A k \in 1..N : stack[k] \in Vector
  PROVE  /\ Weighed(base, c, stack)
              = Stacked([k \in 1..N |-> Scaled(k, stack[k])], G[base], c)
         /\ Weighed(base, c, stack)
              = Total([k \in 1..N |->
                  Four(Scaled(k, Column(G[base][k], c)), stack[k])], N)
<1> DEFINE stage(k) == [i \in 1..4 |-> G[base][k][i][c] * Weights(k)[i] * stack[k][i]]
           b == [k \in 1..N |-> Scaled(k, stack[k])]
<1>1. Weighed(base, c, stack) = Total([k \in 1..N |-> Total(stage(k), 4)], N)
  BY DEF Weighed, NX
<1>2. ASSUME NEW k \in 1..N
      PROVE  /\ Total(stage(k), 4) = Four(b[k], Column(G[base][k], c))
             /\ Total(stage(k), 4) = Four(Scaled(k, Column(G[base][k], c)), stack[k])
  <2> DEFINE f == stage(k)
             y == stack[k]
             W == Weights(k)
             g == Column(G[base][k], c)
  <2>1. \A i \in 1..4 : y[i] \in Int /\ W[i] \in Int
    BY WeightTypes DEF Vector
  <2>2. g \in Vector
    <3>1. G[base][k] \in [1..4 -> [1..Columns -> Int]]
      BY GSteps DEF Inputs
    <3> QED
      BY <3>1 DEF Column, Vector
  <2>3. \A i \in 1..4 : f[i] = g[i] * W[i] * y[i]
    BY DEF Column
  <2>4. \A i \in 1..4 : Scaled(k, y)[i] = W[i] * y[i] /\ Scaled(k, g)[i] = W[i] * g[i]
    <3> HIDE DEF g, y
    <3> QED
      BY DEF Scaled
  <2> HIDE DEF f, y, W, g
  <2>5. \A i \in 1..4 : g[i] \in Int
    BY <2>2 DEF Vector
  <2>6. \A i \in 1..4 : /\ f[i] \in Int
                        /\ f[i] = Scaled(k, y)[i] * g[i]
                        /\ f[i] = Scaled(k, g)[i] * y[i]
    <3>1. \A p, q, r \in Int : p * q * r \in Int /\ p * q * r = (q * r) * p
                               /\ p * q * r = (q * p) * r
      OBVIOUS
    <3> QED
      BY <2>1, <2>3, <2>4, <2>5, <3>1
  <2>7. Total(f, 4) = f[1] + f[2] + f[3] + f[4]
    <3>1. Summable(f, 4)
      BY <2>6 DEF Summable
    <3> QED
      BY <3>1, TotalOfFour
  <2>8. /\ f[1] = Scaled(k, y)[1] * g[1] /\ f[2] = Scaled(k, y)[2] * g[2]
        /\ f[3] = Scaled(k, y)[3] * g[3] /\ f[4] = Scaled(k, y)[4] * g[4]
        /\ f[1] = Scaled(k, g)[1] * y[1] /\ f[2] = Scaled(k, g)[2] * y[2]
        /\ f[3] = Scaled(k, g)[3] * y[3] /\ f[4] = Scaled(k, g)[4] * y[4]
    BY <2>6
  <2>9. b[k] = Scaled(k, y)
    BY DEF y
  <2> QED
    BY <2>7, <2>8, <2>9 DEF Four, f, g, y
<1> HIDE DEF stage, b
<1>3. [k \in 1..N |-> Total(stage(k), 4)]
        = [k \in 1..N |-> Four(b[k], Column(G[base][k], c))]
  BY <1>2
<1>4. [k \in 1..N |-> Total(stage(k), 4)]
        = [k \in 1..N |-> Four(Scaled(k, Column(G[base][k], c)), stack[k])]
  BY <1>2
<1>5. Weighed(base, c, stack) = Stacked(b, G[base], c)
  BY <1>1, <1>3 DEF Stacked
<1>6. Weighed(base, c, stack)
        = Total([k \in 1..N |-> Four(Scaled(k, Column(G[base][k], c)), stack[k])], N)
  BY <1>1, <1>4
<1> QED
  BY <1>5, <1>6 DEF b

LEMMA ScaledSymmetric ==
  ASSUME NEW k \in 1..N, NEW x \in Vector, NEW y \in Vector
  PROVE  Four(Scaled(k, x), y) = Four(Scaled(k, y), x)
<1> DEFINE W == Weights(k)
<1>1. \A i \in 1..4 : W[i] \in Int /\ x[i] \in Int /\ y[i] \in Int
  BY WeightTypes DEF Vector
<1>2. \A i \in 1..4 : Scaled(k, x)[i] = W[i] * x[i] /\ Scaled(k, y)[i] = W[i] * y[i]
  BY DEF Scaled
<1> HIDE DEF W
<1>3. \A p, q, r \in Int : (p * q) * r = (p * r) * q
  OBVIOUS
<1>4. \A i \in 1..4 : Scaled(k, x)[i] * y[i] = Scaled(k, y)[i] * x[i]
  BY <1>1, <1>2, <1>3
<1> QED
  BY <1>4 DEF Four

\* The weighted square of a sum.
LEMMA ScaledSquare ==
  ASSUME NEW k \in 1..N, NEW x \in Vector, NEW y \in Vector, NEW z,
         \A i \in 1..4 : z[i] = x[i] + y[i]
  PROVE  Four(Scaled(k, z), z)
           = Four(Scaled(k, x), x) + Four(Scaled(k, y), y) + 2 * Four(Scaled(k, x), y)
<1> DEFINE W == Weights(k)
           a(i) == Scaled(k, x)[i] * x[i]
           b(i) == Scaled(k, y)[i] * y[i]
           c(i) == Scaled(k, x)[i] * y[i]
           d(i) == Scaled(k, z)[i] * z[i]
<1>1. \A i \in 1..4 : W[i] \in Int /\ x[i] \in Int /\ y[i] \in Int
  BY WeightTypes DEF Vector
<1>2. \A i \in 1..4 : /\ Scaled(k, x)[i] = W[i] * x[i]
                      /\ Scaled(k, y)[i] = W[i] * y[i]
                      /\ Scaled(k, z)[i] = W[i] * z[i]
  BY DEF Scaled
<1>3. \A w, p, q \in Int :
        /\ (w * (p + q)) * (p + q) = (w * p) * p + (w * q) * q + 2 * ((w * p) * q)
        /\ (w * p) * p \in Int /\ (w * q) * q \in Int /\ (w * p) * q \in Int
  <2>1. \A w, p, q \in Int :
          (w * (p + q)) * (p + q) = (w * p) * p + (w * q) * q + 2 * ((w * p) * q)
    OBVIOUS
  <2> QED
    BY <2>1
<1> HIDE DEF W
<1>4. \A i \in 1..4 : /\ d(i) = a(i) + b(i) + 2 * c(i)
                      /\ a(i) \in Int /\ b(i) \in Int /\ c(i) \in Int
  <2>1. ASSUME NEW i \in 1..4
        PROVE  /\ d(i) = a(i) + b(i) + 2 * c(i)
               /\ a(i) \in Int /\ b(i) \in Int /\ c(i) \in Int
    <3> DEFINE w == W[i]
               p == x[i]
               q == y[i]
    <3>1. w \in Int /\ p \in Int /\ q \in Int
      BY <1>1
    <3>2. /\ a(i) = (w * p) * p /\ b(i) = (w * q) * q /\ c(i) = (w * p) * q
          /\ d(i) = (w * (p + q)) * (p + q)
      BY <1>2
    <3> HIDE DEF w, p, q, a, b, c, d
    <3> QED
      BY <1>3, <3>1, <3>2
  <2> QED
    BY <2>1
<1>5. /\ Four(Scaled(k, x), x) = a(1) + a(2) + a(3) + a(4)
      /\ Four(Scaled(k, y), y) = b(1) + b(2) + b(3) + b(4)
      /\ Four(Scaled(k, x), y) = c(1) + c(2) + c(3) + c(4)
      /\ Four(Scaled(k, z), z) = d(1) + d(2) + d(3) + d(4)
  BY DEF Four
<1> HIDE DEF a, b, c, d
<1>6. 1 \in 1..4 /\ 2 \in 1..4 /\ 3 \in 1..4 /\ 4 \in 1..4
  OBVIOUS
<1> QED
  BY <1>4, <1>5, <1>6

\* How far the free states are from the reference.
Offs(base, x0) ==
    [k \in 1..N |-> [i \in 1..4 |->
        Free(base, k, x0)[i] - ReferenceState(Preview(base)[k])[i]]]

LEMMA OffsType ==
  ASSUME NEW base \in Arcs, NEW x0 \in Vector, NEW k \in 1..N
  PROVE  /\ Offs(base, x0)[k] \in Vector
         /\ ReferenceState(Preview(base)[k]) \in Vector
<1>1. k \in 0..N
  OBVIOUS
<1>2. ReferenceState(Preview(base)[k]) \in Vector
  BY <1>1, PreviewType, ReferenceStateType
<1>3. Free(base, k, x0) \in Vector
  BY FreeSteps
<1> DEFINE r == ReferenceState(Preview(base)[k])
           f == Free(base, k, x0)
<1>4. Offs(base, x0)[k] = [i \in 1..4 |-> f[i] - r[i]]
  BY DEF Offs
<1> HIDE DEF r, f
<1>5. [i \in 1..4 |-> f[i] - r[i]] \in Vector
  BY <1>2, <1>3 DEF Vector, r, f
<1> QED
  BY <1>2, <1>4, <1>5

\* The linear term of the objective.
LEMMA LinearTerm ==
  ASSUME NEW base \in Arcs, NEW x0 \in Vector, NEW u \in Inputs
  PROVE  LET terms == [k \in 1..N |->
                         Four(Scaled(k, Offs(base, x0)[k]), Response(base, k, u))]
         IN  Dot(Q(base, x0), u) = Total(terms, N) /\ Summable(terms, N)
<1> DEFINE q == Q(base, x0)
           off == Offs(base, x0)
           b == [k \in 1..N |-> Scaled(k, off[k])]
           M == G[base]
           terms == [k \in 1..N |-> Four(Scaled(k, off[k]), Response(base, k, u))]
<1>0. N \in Nat /\ Columns \in Nat
  BY Sizes
<1>1. \A k \in 1..N : off[k] \in Vector
  BY OffsType
<1>2. q = [c \in 1..Columns |-> Weighed(base, c, off)]
  BY DEF Q, Offs, Free, NX
<1> HIDE DEF q, off
<1>3. Columnwise(q, b, M)
  BY <1>1, <1>2, WeighedIsStacked DEF Columnwise
<1>4. Stackable(b, M)
  BY <1>1, ScaledType, GSteps DEF Stackable
<1> HIDE DEF b, M
<1>5. /\ \A c \in 1..Columns : q[c] \in Int
      /\ Summable([k \in 1..N |-> Four(b[k], Rows(M[k], u))], N)
      /\ Total([c \in 1..Columns |-> q[c] * u[c]], Columns)
           = Total([k \in 1..N |-> Four(b[k], Rows(M[k], u))], N)
  <2>1. Contracted(q, b, M, u)
    BY Zenon, <1>3, <1>4, Contract
  <2> QED
    BY <2>1 DEF Contracted
<1>6. [k \in 1..N |-> Four(b[k], Rows(M[k], u))] = terms
  BY DEF b, M, Response
<1>7. q \in [1..Columns -> Int]
  BY <1>2, <1>5
<1>8. Dot(q, u) = Total([c \in 1..Columns |-> q[c] * u[c]], Columns)
  BY <1>0, <1>7, DotIsTotal
<1> HIDE DEF terms
<1>9. Dot(q, u) = Total(terms, N) /\ Summable(terms, N)
  BY <1>5, <1>6, <1>8
<1> QED
  BY <1>9 DEF terms, q, off

\* What the plan costs in inputs.
Effort(u) == [c \in 1..Columns |-> SDiag[InputOf(c)] * u[c] * u[c]]

\* A row of the Hessian, applied to a plan.
LEMMA RowOfHessian ==
  ASSUME NEW base \in Arcs, NEW u \in Inputs, NEW c \in 1..Columns
  PROVE  LET b == [k \in 1..N |-> Scaled(k, Response(base, k, u))] IN
         /\ Stacked(b, G[base], c) \in Int
         /\ Dot(P[base][c], u) = Stacked(b, G[base], c) + SDiag[InputOf(c)] * u[c]
<1> DEFINE M == G[base]
           re(k) == Response(base, k, u)
           g(k) == Column(M[k], c)
           b == [k \in 1..N |-> Scaled(k, re(k))]
           bc == [k \in 1..N |-> Scaled(k, g(k))]
           stack(d) == [k \in 1..N |-> [i \in 1..4 |-> M[k][i][d]]]
           w == [d \in 1..Columns |-> Weighed(base, c, stack(d))]
           S == SDiag[InputOf(c)]
           uc == u[c]
           own == [d \in 1..Columns |-> IF d = c THEN S * uc ELSE 0]
           wu == [d \in 1..Columns |-> w[d] * u[d]]
           pu == [d \in 1..Columns |-> P[base][c][d] * u[d]]
<1>0. N \in Nat /\ Columns \in Nat
  BY Sizes
<1>1. \A d \in 1..Columns : u[d] \in Int
  BY DEF Inputs
<1>2. S \in Int /\ uc \in Int /\ S * uc \in Int
  BY <1>1, WeightTypes
<1>3. \A k \in 1..N : M[k] \in [1..4 -> Inputs]
  BY GSteps
<1>4. \A k \in 1..N, d \in 1..Columns : Column(M[k], d) \in Vector
  <2>1. ASSUME NEW k \in 1..N, NEW d \in 1..Columns
        PROVE  Column(M[k], d) \in Vector
    <3>1. M[k] \in [1..4 -> [1..Columns -> Int]]
      BY <1>3 DEF Inputs
    <3> HIDE DEF M
    <3> QED
      BY <3>1 DEF Column, Vector
  <2> QED
    BY <2>1
<1>5. \A k \in 1..N : re(k) \in Vector
  BY ResponseSteps
<1>6. \A k \in 1..N : Rows(M[k], u) = re(k)
  BY DEF Response
<1>7. \A d \in 1..Columns : w[d] = Stacked(bc, M, d)
  <2>1. ASSUME NEW d \in 1..Columns
        PROVE  w[d] = Stacked(bc, M, d)
    <3> DEFINE s == stack(d)
    <3>1. \A k \in 1..N : s[k] = Column(M[k], d)
      BY DEF Column
    <3>2. w[d] = Weighed(base, c, s)
      OBVIOUS
    <3> HIDE DEF s
    <3>3. \A k \in 1..N : s[k] \in Vector
      BY <1>4, <3>1
    <3>4. Weighed(base, c, s) = Total([k \in 1..N |-> Four(Scaled(k, g(k)), s[k])], N)
      BY <3>3, WeighedIsStacked
    <3>5. [k \in 1..N |-> Four(Scaled(k, g(k)), s[k])]
            = [k \in 1..N |-> Four(bc[k], Column(M[k], d))]
      <4> HIDE DEF M, g
      <4> QED
        BY <3>1
    <3> QED
      BY <3>2, <3>4, <3>5 DEF Stacked
  <2> QED
    BY <2>1
<1>8. \A k \in 1..N : bc[k] \in Vector
  BY <1>4, ScaledType
<1> HIDE DEF w
<1>9. /\ \A d \in 1..Columns : w[d] \in Int
      /\ Summable(wu, Columns)
      /\ Summable([k \in 1..N |-> Four(bc[k], Rows(M[k], u))], N)
      /\ Total(wu, Columns) = Total([k \in 1..N |-> Four(bc[k], Rows(M[k], u))], N)
  <2> HIDE DEF bc, M
  <2>1. Stackable(bc, M) /\ Columnwise(w, bc, M)
    BY <1>3, <1>7, <1>8 DEF Stackable, Columnwise
  <2>2. Contracted(w, bc, M, u)
    BY Zenon, <2>1, Contract
  <2> QED
    BY <2>2 DEF Contracted
<1>10. [k \in 1..N |-> Four(bc[k], Rows(M[k], u))]
         = [k \in 1..N |-> Four(b[k], Column(M[k], c))]
  <2>1. ASSUME NEW k \in 1..N
        PROVE  Four(bc[k], Rows(M[k], u)) = Four(b[k], Column(M[k], c))
    <3>1. Four(Scaled(k, g(k)), re(k)) = Four(Scaled(k, re(k)), g(k))
      BY <1>4, <1>5, ScaledSymmetric
    <3> QED
      BY <1>6, <3>1
  <2> HIDE DEF b, bc, M
  <2> QED
    BY <2>1
<1>11. Total(wu, Columns) = Stacked(b, M, c) /\ Total(wu, Columns) \in Int
  <2>1. Total(wu, Columns) = Stacked(b, M, c)
    BY <1>9, <1>10 DEF Stacked
  <2> HIDE DEF wu, b, M
  <2> QED
    BY <1>0, <1>9, <2>1, TotalRec
<1>12. \A d \in 1..Columns : P[base][c][d] = w[d] + (IF c = d THEN S ELSE 0)
  BY DEF P, w, NX
<1>13. Adds(pu, wu, 1, own, Columns)
  <2>1. ASSUME NEW d \in 1..Columns
        PROVE  pu[d] = wu[d] + 1 * own[d]
    <3> DEFINE v == w[d]
               ud == u[d]
    <3>1. v \in Int /\ ud \in Int /\ v * ud \in Int
      BY <1>1, <1>9
    <3>2. pu[d] = P[base][c][d] * ud /\ wu[d] = v * ud
          /\ own[d] = IF d = c THEN S * uc ELSE 0
      OBVIOUS
    <3> HIDE DEF S, pu, wu, own
    <3>3. CASE d = c
      <4>1. P[base][c][d] = v + S /\ ud = uc
        BY <1>12, <3>3
      <4> HIDE DEF v, ud, uc
      <4> QED
        BY <1>2, <3>1, <3>2, <3>3, <4>1
    <3>4. CASE d # c
      <4>1. P[base][c][d] = v + 0
        BY <1>12, <3>4
      <4> HIDE DEF v, ud, uc
      <4> QED
        BY <3>1, <3>2, <3>4, <4>1
    <3> QED
      BY <3>3, <3>4
  <2> HIDE DEF pu, wu, own
  <2> QED
    BY <2>1 DEF Adds
<1>14. Summable(own, Columns) /\ Total(own, Columns) = S * uc
  <2>1. own[c] = S * uc /\ \A d \in 1..Columns : d # c => own[d] = 0
    <3> HIDE DEF S, uc
    <3> QED
      OBVIOUS
  <2> HIDE DEF own, S, uc
  <2>2. Total(own, Columns) = own[c]
    BY <1>0, <1>2, <2>1, TotalPoint
  <2>3. Summable(own, Columns)
    BY <1>2, <2>1 DEF Summable
  <2> QED
    BY <2>1, <2>2, <2>3
<1>15. Total(pu, Columns) = Total(wu, Columns) + 1 * Total(own, Columns)
  <2>1. 1 \in Int
    OBVIOUS
  <2> HIDE DEF pu, wu, own
  <2> QED
    BY <1>0, <1>9, <1>13, <1>14, <2>1, TotalLinear
<1>16. Dot(P[base][c], u) = Total(pu, Columns)
  <2>1. P[base][c] = [d \in 1..Columns |-> P[base][c][d]]
    BY DEF P
  <2>2. \A d \in 1..Columns : P[base][c][d] \in Int
    <3> HIDE DEF S
    <3> QED
      BY <1>2, <1>9, <1>12
  <2>3. P[base][c] \in [1..Columns -> Int]
    <3> DEFINE row == P[base][c]
    <3>1. row = [d \in 1..Columns |-> row[d]] /\ \A d \in 1..Columns : row[d] \in Int
      BY <2>1, <2>2
    <3> HIDE DEF row
    <3>2. row \in [1..Columns -> Int]
      BY <3>1
    <3> QED
      BY <3>2 DEF row
  <2> QED
    BY <1>0, <2>3, DotIsTotal
<1> HIDE DEF wu, own, pu, b, M, S, uc
<1>17. Dot(P[base][c], u) = Stacked(b, M, c) + S * uc /\ Stacked(b, M, c) \in Int
  BY <1>2, <1>11, <1>14, <1>15, <1>16
<1> QED
  BY <1>17 DEF b, M, S, uc

\* The quadratic term of the objective.
LEMMA QuadraticTerm ==
  ASSUME NEW base \in Arcs, NEW u \in Inputs
  PROVE  LET terms == [k \in 1..N |->
                         Four(Scaled(k, Response(base, k, u)), Response(base, k, u))]
         IN  /\ Dot(u, [c \in 1..Columns |-> Dot(P[base][c], u)])
                  = Total(terms, N) + Total(Effort(u), Columns)
             /\ Summable(terms, N) /\ Summable(Effort(u), Columns)
<1> DEFINE M == G[base]
           re(k) == Response(base, k, u)
           b == [k \in 1..N |-> Scaled(k, re(k))]
           terms == [k \in 1..N |-> Four(Scaled(k, re(k)), re(k))]
           y == [c \in 1..Columns |-> Dot(P[base][c], u)]
           w == [c \in 1..Columns |-> Stacked(b, M, c)]
           wu == [c \in 1..Columns |-> w[c] * u[c]]
           uy == [c \in 1..Columns |-> u[c] * y[c]]
           effort == Effort(u)
<1>0. N \in Nat /\ Columns \in Nat
  BY Sizes
<1>1. \A c \in 1..Columns : u[c] \in Int /\ SDiag[InputOf(c)] \in Int
  BY WeightTypes DEF Inputs
<1>2. \A k \in 1..N : M[k] \in [1..4 -> Inputs] /\ b[k] \in Vector
  BY GSteps, ResponseSteps, ScaledType
<1>3. \A c \in 1..Columns : w[c] = Stacked(b, M, c)
  OBVIOUS
<1>4. \A c \in 1..Columns : w[c] \in Int /\ y[c] = w[c] + SDiag[InputOf(c)] * u[c]
  BY RowOfHessian
<1> HIDE DEF w, b, M
<1>5. /\ Summable(wu, Columns)
      /\ Summable([k \in 1..N |-> Four(b[k], Rows(M[k], u))], N)
      /\ Total(wu, Columns) = Total([k \in 1..N |-> Four(b[k], Rows(M[k], u))], N)
  <2>1. Stackable(b, M) /\ Columnwise(w, b, M)
    BY <1>2, <1>3 DEF Stackable, Columnwise
  <2>2. Contracted(w, b, M, u)
    BY Zenon, <2>1, Contract
  <2> QED
    BY <2>2 DEF Contracted
<1>6. [k \in 1..N |-> Four(b[k], Rows(M[k], u))] = terms
  BY DEF b, M, Response
<1>7. ASSUME NEW c \in 1..Columns
      PROVE  /\ uy[c] = wu[c] + 1 * effort[c]
             /\ effort[c] \in Int
  <2> DEFINE s == SDiag[InputOf(c)]
             uc == u[c]
             wc == w[c]
             yc == y[c]
  <2>1. s \in Int /\ uc \in Int /\ wc \in Int /\ yc = wc + s * uc
    BY <1>1, <1>4
  <2>2. uy[c] = uc * yc /\ wu[c] = wc * uc
    OBVIOUS
  <2>3. effort[c] = s * uc * uc
    BY DEF Effort
  <2> HIDE DEF s, uc, wc, yc, uy, wu, effort
  <2>4. uc * (wc + s * uc) = wc * uc + 1 * (s * uc * uc) /\ s * uc * uc \in Int
    BY <2>1
  <2> QED
    BY <2>1, <2>2, <2>3, <2>4
<1>8. Summable(effort, Columns)
  <2> HIDE DEF effort
  <2> QED
    BY <1>7 DEF Summable
<1>9. Total(uy, Columns) = Total(wu, Columns) + 1 * Total(effort, Columns)
  <2>1. 1 \in Int /\ Adds(uy, wu, 1, effort, Columns)
    <3> HIDE DEF uy, wu, effort
    <3> QED
      BY <1>7 DEF Adds
  <2> HIDE DEF uy, wu, effort
  <2> QED
    BY <1>0, <1>5, <1>8, <2>1, TotalLinear
<1>10. Dot(u, y) = Total(uy, Columns)
  <2>1. u \in [1..Columns -> Int]
    BY DEF Inputs
  <2> HIDE DEF y
  <2> QED
    BY <1>0, <2>1, DotIsTotal
<1>11. Total(effort, Columns) \in Int
  <2> HIDE DEF effort
  <2> QED
    BY <1>0, <1>8, TotalRec
<1> HIDE DEF y, uy, wu, terms, effort
<1>12. /\ Dot(u, y) = Total(terms, N) + Total(effort, Columns)
       /\ Summable(terms, N) /\ Summable(effort, Columns)
  <2>1. Total(wu, Columns) = Total(terms, N) /\ Summable(terms, N)
    BY Zenon, <1>5, <1>6
  <2>2. Total(terms, N) \in Int
    BY <1>0, <2>1, TotalRec
  <2> QED
    BY <1>8, <1>9, <1>10, <1>11, <2>1, <2>2
<1> QED
  BY <1>12 DEF y, terms, effort

\* The states of the model against their references.
Errs(base, x0, u) ==
    [k \in 1..N |-> [i \in 1..4 |->
        Rollout(base, x0, u)[k][i] - ReferenceState(Preview(base)[k])[i]]]

\* The cost of a plan along the model, as sums over the steps.
LEMMA CostOfPlan ==
  ASSUME NEW base \in Arcs, NEW x0 \in Vector, NEW u \in Inputs
  PROVE  LET y == Errs(base, x0, u) IN
         /\ Cost(base, x0, u)
              = Total([k \in 1..N |-> Four(Scaled(k, y[k]), y[k])], N)
                + Total(Effort(u), Columns)
         /\ \A k \in 1..N, i \in 1..4 :
              y[k][i] = Offs(base, x0)[k][i] + Response(base, k, u)[i]
         /\ \A k \in 1..N : y[k] \in Vector
<1> DEFINE x == Rollout(base, x0, u)
           r(k) == ReferenceState(Preview(base)[k])
           y == Errs(base, x0, u)
           Off(k, i) == x[k][i] - r(k)[i]
           stage(k) == [i \in 1..4 |-> Weights(k)[i] * Off(k, i) * Off(k, i)]
<1>1. Cost(base, x0, u) = Total([k \in 1..N |-> Total(stage(k), 4)], N)
                          + Total(Effort(u), Columns)
  BY DEF Cost, NX, Effort
<1>2. \A k \in 1..N, i \in 1..4 : y[k][i] = Off(k, i)
  BY DEF Errs
<1>3. ASSUME NEW k \in 1..N
      PROVE  /\ \A i \in 1..4 : y[k][i] = Offs(base, x0)[k][i] + Response(base, k, u)[i]
             /\ y[k] \in Vector
  <2> DEFINE f == Free(base, k, x0)
             re == Response(base, k, u)
             rk == r(k)
             yk == y[k]
             xk == x[k]
             o == Offs(base, x0)[k]
  <2>1. f \in Vector /\ re \in Vector /\ rk \in Vector
    BY FreeSteps, ResponseSteps, OffsType
  <2>2. \A i \in 1..4 : xk[i] = f[i] + re[i]
    BY RolloutSplits
  <2>3. \A i \in 1..4 : o[i] = f[i] - rk[i]
    BY DEF Offs
  <2>4. yk = [i \in 1..4 |-> xk[i] - rk[i]]
    BY DEF Errs
  <2> HIDE DEF f, re, rk, yk, xk, o
  <2>5. \A i \in 1..4 : f[i] \in Int /\ re[i] \in Int /\ rk[i] \in Int
    BY <2>1 DEF Vector
  <2>6. \A i \in 1..4 : yk[i] = o[i] + re[i] /\ yk[i] \in Int
    BY <2>2, <2>3, <2>4, <2>5
  <2>7. yk \in Vector
    BY <2>4, <2>6 DEF Vector
  <2> QED
    BY <2>6, <2>7 DEF yk, o, re
<1>4. ASSUME NEW k \in 1..N
      PROVE  Total(stage(k), 4) = Four(Scaled(k, y[k]), y[k])
  <2> DEFINE f == stage(k)
             yk == y[k]
             W == Weights(k)
  <2>1. \A i \in 1..4 : yk[i] \in Int /\ W[i] \in Int
    BY <1>3, WeightTypes DEF Vector
  <2>2. \A i \in 1..4 : f[i] = W[i] * yk[i] * yk[i]
    <3>1. \A i \in 1..4 : yk[i] = Off(k, i)
      BY <1>2
    <3> HIDE DEF yk, Off
    <3> QED
      BY <3>1
  <2>3. \A i \in 1..4 : Scaled(k, yk)[i] = W[i] * yk[i]
    <3> HIDE DEF yk
    <3> QED
      BY DEF Scaled
  <2> HIDE DEF f, yk, W
  <2>4. \A i \in 1..4 : f[i] = Scaled(k, yk)[i] * yk[i] /\ f[i] \in Int
    <3>1. \A p, q \in Int : p * q * q \in Int
      <4>1. \A p, q \in Int : p * q \in Int
        OBVIOUS
      <4> QED
        BY <4>1
    <3> QED
      BY <2>1, <2>2, <2>3, <3>1
  <2>5. Total(f, 4) = f[1] + f[2] + f[3] + f[4]
    <3>1. Summable(f, 4)
      BY <2>4 DEF Summable
    <3> QED
      BY <3>1, TotalOfFour
  <2>6. /\ f[1] = Scaled(k, yk)[1] * yk[1] /\ f[2] = Scaled(k, yk)[2] * yk[2]
        /\ f[3] = Scaled(k, yk)[3] * yk[3] /\ f[4] = Scaled(k, yk)[4] * yk[4]
    BY <2>4
  <2>7. Total(f, 4) = Four(Scaled(k, yk), yk)
    BY <2>5, <2>6 DEF Four
  <2> QED
    BY <2>7 DEF f, yk
<1> HIDE DEF stage, y
<1>5. [k \in 1..N |-> Total(stage(k), 4)] = [k \in 1..N |-> Four(Scaled(k, y[k]), y[k])]
  BY <1>4
<1>6. Cost(base, x0, u) = Total([k \in 1..N |-> Four(Scaled(k, y[k]), y[k])], N)
                          + Total(Effort(u), Columns)
  BY <1>1, <1>5
<1> QED
  BY <1>3, <1>6 DEF y

Idle == [c \in 1..Columns |-> 0]

LEMMA IdleResponds ==
  ASSUME NEW base \in Arcs, NEW k \in 1..N
  PROVE  /\ Idle \in Inputs
         /\ \A i \in 1..4 : Response(base, k, Idle)[i] = 0
         /\ Total(Effort(Idle), Columns) = 0
<1>0. Columns \in Nat /\ Idle \in Inputs /\ \A c \in 1..Columns : Idle[c] = 0
  BY Sizes DEF Idle, Inputs
<1>1. ASSUME NEW i \in 1..4
      PROVE  Response(base, k, Idle)[i] = 0
  <2> DEFINE g == G[base][k][i]
             h == [c \in 1..Columns |-> g[c] * Idle[c]]
  <2>1. g \in [1..Columns -> Int]
    BY GSteps DEF Inputs
  <2>2. Response(base, k, Idle)[i] = Dot(g, Idle)
    BY DEF Response, Rows
  <2> HIDE DEF g
  <2>3. Dot(g, Idle) = Total(h, Columns)
    BY <1>0, <2>1, DotIsTotal
  <2>4. \A c \in 1..Columns : h[c] = 0
    BY <1>0, <2>1
  <2> HIDE DEF h
  <2>5. Total(h, Columns) = 0
    BY <1>0, <2>4, TotalZero
  <2> QED
    BY <2>2, <2>3, <2>5
<1>2. Total(Effort(Idle), Columns) = 0
  <2> DEFINE e == Effort(Idle)
  <2>1. ASSUME NEW c \in 1..Columns
        PROVE  e[c] = 0
    <3> DEFINE s == SDiag[InputOf(c)]
    <3>1. s \in Int
      BY WeightTypes
    <3>2. e[c] = s * Idle[c] * Idle[c]
      BY DEF Effort
    <3> HIDE DEF s, e
    <3> QED
      BY <1>0, <3>1, <3>2
  <2> HIDE DEF e
  <2>2. Total(e, Columns) = 0
    BY <1>0, <2>1, TotalZero
  <2> QED
    BY <2>2 DEF e
<1> QED
  BY <1>0, <1>1, <1>2

\* The objective of the QP is the cost of the plan along the model, but for
\* what no plan can change.
LEMMA ObjectiveIsCost ==
  ASSUME NEW base \in Arcs, NEW x0 \in Vector, NEW u \in Inputs
  PROVE  Objective(base, x0, u) = Cost(base, x0, u) - Cost(base, x0, Idle)
<1> DEFINE off == Offs(base, x0)
           re(k) == Response(base, k, u)
           y == Errs(base, x0, u)
           z == Errs(base, x0, Idle)
           quad == [k \in 1..N |-> Four(Scaled(k, re(k)), re(k))]
           lin == [k \in 1..N |-> Four(Scaled(k, off[k]), re(k))]
           cost == [k \in 1..N |-> Four(Scaled(k, y[k]), y[k])]
           rest == [k \in 1..N |-> Four(Scaled(k, z[k]), z[k])]
           half == [k \in 1..N |-> rest[k] + 1 * quad[k]]
           E == Total(Effort(u), Columns)
<1>0. N \in Nat /\ Columns \in Nat /\ 1 \in 1..N /\ Idle \in Inputs
  <2>1. 1 \in 1..N
    BY Sizes
  <2> QED
    BY <2>1, Sizes, IdleResponds
<1>1. Objective(base, x0, u) = (Total(quad, N) + E) + 2 * Total(lin, N)
      /\ Summable(quad, N) /\ Summable(lin, N)
  BY LinearTerm, QuadraticTerm DEF Objective
<1>2. E \in Int
  <2>1. Summable(Effort(u), Columns)
    BY QuadraticTerm
  <2> QED
    BY <1>0, <2>1, TotalRec
<1>3. Cost(base, x0, u) = Total(cost, N) + E
  BY CostOfPlan
<1>4. Cost(base, x0, Idle) = Total(rest, N) + 0
  BY <1>0, CostOfPlan, IdleResponds
<1>5. ASSUME NEW k \in 1..N
      PROVE  /\ cost[k] = half[k] + 2 * lin[k]
             /\ rest[k] \in Int
  <2> DEFINE o == off[k]
             v == re(k)
             yk == y[k]
             zk == z[k]
  <2>1. o \in Vector /\ v \in Vector
    BY OffsType, ResponseSteps
  <2>2. \A i \in 1..4 : yk[i] = o[i] + v[i]
    BY CostOfPlan
  <2>3. zk = o
    <3>1. zk \in Vector /\ \A i \in 1..4 : zk[i] = o[i] + Response(base, k, Idle)[i]
      BY <1>0, CostOfPlan
    <3>2. \A i \in 1..4 : Response(base, k, Idle)[i] = 0
      BY IdleResponds
    <3> HIDE DEF zk, o
    <3> QED
      BY <2>1, <3>1, <3>2 DEF Vector
  <2>4. /\ cost[k] = Four(Scaled(k, yk), yk)
        /\ rest[k] = Four(Scaled(k, zk), zk)
        /\ half[k] = rest[k] + 1 * quad[k]
        /\ quad[k] = Four(Scaled(k, v), v)
        /\ lin[k] = Four(Scaled(k, o), v)
    <3> HIDE DEF off, re, y, z
    <3> QED
      OBVIOUS
  <2> HIDE DEF o, v, yk, zk, off, re, y, z, cost, rest, half, quad, lin
  <2>5. Four(Scaled(k, yk), yk)
          = Four(Scaled(k, o), o) + Four(Scaled(k, v), v) + 2 * Four(Scaled(k, o), v)
    BY <2>1, <2>2, ScaledSquare
  <2>6. Four(Scaled(k, o), o) \in Int /\ Four(Scaled(k, v), v) \in Int
        /\ Four(Scaled(k, o), v) \in Int
    BY <2>1, ScaledType, DotOfFour
  <2> QED
    BY <2>3, <2>4, <2>5, <2>6
<1>6. Summable(rest, N)
  <2> HIDE DEF rest
  <2> QED
    BY <1>5 DEF Summable
<1>7. Adds(half, rest, 1, quad, N)
  <2> HIDE DEF rest, quad
  <2> QED
    BY DEF Adds
<1>8. Adds(cost, half, 2, lin, N)
  <2> HIDE DEF cost, half, lin
  <2> QED
    BY <1>5 DEF Adds
<1> HIDE DEF quad, lin, cost, rest, half, E
<1>9. Summable(half, N) /\ Total(half, N) = Total(rest, N) + 1 * Total(quad, N)
  <2>1. 1 \in Int
    OBVIOUS
  <2> QED
    BY <1>0, <1>1, <1>6, <1>7, <2>1, TotalLinear
<1>10. Total(cost, N) = Total(half, N) + 2 * Total(lin, N)
  <2>1. 2 \in Int
    OBVIOUS
  <2> QED
    BY <1>0, <1>1, <1>8, <1>9, <2>1, TotalLinear
<1>11. Total(rest, N) \in Int /\ Total(quad, N) \in Int /\ Total(lin, N) \in Int
  BY <1>0, <1>1, <1>6, TotalRec
<1> QED
  BY <1>1, <1>2, <1>3, <1>4, <1>9, <1>10, <1>11

-----------------------------------------------------------------------------
(***************************************************************************)
(* The cycles of SolveSpec.                                                *)
(***************************************************************************)

\* Where the robot is, how fast, and what the last QP was about.
LoopOK ==
    /\ arc \in Arcs
    /\ vel \in Int \X Int
    /\ plan # NoPlan => /\ plan.base \in Arcs
                        /\ plan.x0 \in Vector
                        /\ plan.u \in Inputs

SolveInv == LadderInv /\ LoopOK

LEMMA PlansAreInputs == Plans \subseteq Inputs
<1>1. ASSUME NEW bs \in [1..N -> Blocks], NEW c \in 1..Columns
      PROVE  bs[StepOf(c)][InputOf(c)] \in Int
  <2>1. StepOf(c) \in 1..N /\ (InputOf(c) = 1 \/ InputOf(c) = 2)
    BY ColumnType
  <2>2. bs[StepOf(c)] \in Int \X Int
    BY <2>1, SolveAssumption
  <2> DEFINE p == bs[StepOf(c)]
  <2>3. p[1] \in Int /\ p[2] \in Int
    BY <2>2
  <2> HIDE DEF p
  <2>4. p[InputOf(c)] \in Int
    BY <2>1, <2>3
  <2> QED
    BY <2>4 DEF p
<1> QED
  BY <1>1 DEF Plans, Inputs

LEMMA StateOfTheQP ==
  ASSUME NEW e \in Int \X Int, NEW w \in Int \X Int
  PROVE  e \o w \in Vector
<1>1. PICK a \in Int, b \in Int : e = <<a, b>>
  OBVIOUS
<1>2. PICK c \in Int, d \in Int : w = <<c, d>>
  OBVIOUS
<1>3. <<a, b>> \in Seq(Int) /\ Len(<<a, b>>) = 2
      /\ <<c, d>> \in Seq(Int) /\ Len(<<c, d>>) = 2
  OBVIOUS
<1> DEFINE p == <<a, b>>
           q == <<c, d>>
           x == p \o q
<1>4. p \in Seq(Int) /\ Len(p) = 2 /\ q \in Seq(Int) /\ Len(q) = 2
  BY <1>3
<1> HIDE DEF p, q
<1>5. x \in Seq(Int) /\ Len(x) = Len(p) + Len(q)
  BY Zenon, <1>4, ConcatProperties
<1> HIDE DEF x
<1>6. x \in Vector
  <2>1. x \in Seq(Int) /\ Len(x) = 4
    BY <1>4, <1>5
  <2> QED
    BY <2>1, LenProperties, ElementOfSeq DEF Vector
<1> QED
  BY Zenon, <1>1, <1>2, <1>6 DEF x, p, q

\* What a step may do to the ladder.
Descends ==
    \/ failures' = 0
    \/ UNCHANGED ladderVars
    \/ \E cmd \in Commands : /\ asked' = cmd
                            /\ failures' = failures + 1
                            /\ answer'.v = Ladder(policy, cmd).last_v

LEMMA ApplyDescends ==
  ASSUME LadderInv, NEW cmd \in Commands, NEW health \in HealthStates,
         ApplyTo(cmd, health)
  PROVE  Descends
<1>1. asked' = cmd
  BY DEF ApplyTo
<1> QED
  BY <1>1, ApplyStep DEF Descends

\* A step of the loop keeps the ladder's invariant and its own.
LEMMA SolveStep ==
  ASSUME SolveInv, [SolveNext]_<<ladderVars, solveVars>>
  PROVE  SolveInv' /\ Descends
<1>1. ASSUME NEW error \in Errors, NEW u \in Plans, NEW status,
             NEW slow \in BOOLEAN, SolveCycle(error, u, status, slow)
      PROVE  SolveInv' /\ Descends
  <2> DEFINE x0 == error \o vel
             cmd == Candidate(x0, u, slow)
             out == [status |-> status, base |-> arc, x0 |-> x0, u |-> u]
             asks == [v |-> cmd.v, finite |-> TRUE,
                      overturn |-> Magnitude(cmd.omega) > OmegaMax]
  <2>1. arc \in Arcs /\ vel \in Int \X Int /\ LadderInv
    BY DEF SolveInv, LoopOK
  <2>2. u \in Inputs
    BY PlansAreInputs
  <2>3. x0 \in Vector
    BY <2>1, SolveAssumption, StateOfTheQP
  <2>4. cmd.v \in Int /\ cmd.omega \in Int
    <3>1. 1 \in 1..Columns /\ 4 \in 1..Columns
      BY Sizes
    <3>2. u[1] \in Int /\ u[4] \in Int
      BY <2>2, <3>1 DEF Inputs
    <3>3. VProbation \in Int
      BY SolveAssumption
    <3> HIDE DEF x0
    <3>4. x0[3] \in Int /\ x0[4] \in Int
      BY <2>3 DEF Vector
    <3> QED
      BY <3>2, <3>3, <3>4 DEF Candidate
  <2>5. plan' = out /\ arc' = Clamp(arc + answer'.v, 1, End)
        /\ \/ /\ ApplyTo(asks, "OK")
              /\ vel' = <<answer'.v, Clamp(cmd.omega, -OmegaMax, OmegaMax)>>
           \/ /\ ApplyTo(Zero, "QP_INFEASIBLE")
              /\ vel' = <<answer'.v, 0>>
    BY <1>1 DEF SolveCycle
  <2>6. asks \in Commands /\ Zero \in Commands
    <3> HIDE DEF cmd
    <3> QED
      BY <2>4 DEF Commands, Zero
  <2>7. "OK" \in HealthStates /\ "QP_INFEASIBLE" \in HealthStates
    BY DEF HealthStates
  <2> HIDE DEF x0, cmd, asks
  <2>8. LadderInv'
    BY <2>1, <2>5, <2>6, <2>7, ApplyStep
  <2>9. answer'.v \in Int
    BY <2>8 DEF LadderInv, LadderTypeOK, Answers
  <2>10. arc' \in Arcs
    BY <2>1, <2>5, <2>9, Sizes DEF Clamp, Arcs
  <2>11. vel' \in Int \X Int
    BY <2>4, <2>5, <2>9, Sizes DEF Clamp
  <2>12. plan'.base = arc /\ plan'.x0 = x0 /\ plan'.u = u
    BY <2>5
  <2>13. LoopOK'
    BY <2>1, <2>2, <2>3, <2>10, <2>11, <2>12 DEF LoopOK
  <2>14. Descends
    BY <2>1, <2>5, <2>6, <2>7, ApplyDescends
  <2> QED
    BY <2>8, <2>13, <2>14 DEF SolveInv
<1>2. CASE NonFiniteCycle
  <2>1. "NAN_OUTPUT" \in HealthStates /\ Zero \in Commands
    BY DEF HealthStates, Commands, Zero
  <2>2. /\ plan' = NoPlan /\ ApplyTo(Zero, "NAN_OUTPUT")
        /\ vel' = <<0, 0>> /\ arc' = arc
    BY <1>2 DEF NonFiniteCycle
  <2>3. LadderInv'
    BY <2>1, <2>2, ApplyStep DEF SolveInv
  <2>4. LoopOK'
    BY <2>2 DEF SolveInv, LoopOK
  <2>5. Descends
    BY <2>1, <2>2, ApplyDescends DEF SolveInv
  <2> QED
    BY <2>3, <2>4, <2>5 DEF SolveInv
<1>3. CASE NewReference
  <2>1. Reset /\ arc' = 1 /\ plan' = NoPlan /\ vel' = vel
    BY <1>3 DEF NewReference
  <2>2. LadderInv'
    BY <2>1, StepCases DEF SolveInv, Next
  <2>3. LoopOK'
    BY <2>1, Sizes DEF SolveInv, LoopOK, Arcs
  <2>4. Descends
    BY <2>1 DEF Reset, Descends
  <2> QED
    BY <2>2, <2>3, <2>4 DEF SolveInv
<1>4. CASE Next /\ UNCHANGED solveVars
  <2>1. LadderInv'
    BY <1>4, StepCases DEF SolveInv
  <2>2. LoopOK'
    BY <1>4 DEF solveVars, SolveInv, LoopOK
  <2>3. Descends
    BY <1>4, StepCases DEF SolveInv, Descends
  <2> QED
    BY <2>1, <2>2, <2>3 DEF SolveInv
<1>5. CASE UNCHANGED <<ladderVars, solveVars>>
  <2>1. LadderInv'
    BY <1>5, StepCases DEF SolveInv
  <2>2. LoopOK'
    BY <1>5 DEF solveVars, SolveInv, LoopOK
  <2>3. Descends
    BY <1>5, StepCases DEF SolveInv, Descends
  <2> QED
    BY <2>1, <2>2, <2>3 DEF SolveInv
<1> QED
  BY <1>1, <1>2, <1>3, <1>4, <1>5 DEF SolveNext

LEMMA SolveInitInv == SolveInit => SolveInv
<1> SUFFICES ASSUME SolveInit
             PROVE  SolveInv
  OBVIOUS
<1>1. Init /\ arc = 1 /\ vel = <<0, 0>> /\ plan = NoPlan
  BY DEF SolveInit
<1>2. LadderInv
  BY <1>1, LadderInitInv
<1>3. LoopOK
  BY <1>1, Sizes DEF LoopOK, Arcs
<1> QED
  BY <1>2, <1>3 DEF SolveInv

\* The loop keeps the ladder in order, and every QP it solves is one about a
\* place on the path, a state and a plan of the right shape.
THEOREM SolveInvariance == SolveSpec => []SolveInv
<1>1. SolveInv /\ [SolveNext]_<<ladderVars, solveVars>> => SolveInv'
  BY SolveStep
<1> QED
  BY <1>1, SolveInitInv, PTL DEF SolveSpec

\* The condensed QP means what the model does step by step: its rows, by any
\* margin, and its objective, for every horizon, path, weight, state and plan.
THEOREM CondensedSound == SolveSpec => []PlanIsItsRollout
<1>1. SolveInv => PlanIsItsRollout
  <2> SUFFICES ASSUME SolveInv, plan # NoPlan
               PROVE  PlanIsItsRollout
    BY DEF PlanIsItsRollout
  <2> DEFINE base == plan.base
             x0 == plan.x0
             u == plan.u
             x == Rollout(base, x0, u)
  <2>1. base \in Arcs /\ x0 \in Vector /\ u \in Inputs
    BY DEF SolveInv, LoopOK
  <2>2. \A tol \in 0..Tolerance :
          RowsHold(base, x0, u, tol) <=> MaxViolation(x) <= tol /\ InputsHold(u, tol)
    <3>1. \A tol \in 0..Tolerance : tol \in Nat
      BY Sizes
    <3> HIDE DEF base, x0, u
    <3> QED
      BY <2>1, <3>1, RowsMeanBounds
  <2>3. Objective(base, x0, u) = Cost(base, x0, u) - Cost(base, x0, Idle)
    <3> HIDE DEF base, x0, u
    <3> QED
      BY <2>1, ObjectiveIsCost
  <2> QED
    BY <2>2, <2>3 DEF PlanIsItsRollout, InputsHold, Idle
<1> QED
  BY <1>1, SolveInvariance, PTL

\* In the loop too, at most MaxHoldCycles failures in a row are answered with
\* a moving fallback.
THEOREM LoopBounded == SolveSpec => []HoldIsBounded
<1>1. SolveInv => HoldIsBounded
  BY DEF SolveInv, LadderInv
<1> QED
  BY <1>1, SolveInvariance, PTL

\* Consecutive failures of the loop shed one deceleration step each.
THEOREM LoopDecelerates == SolveSpec => NeverAcceleratesWhileFailing
<1>1. SolveInv /\ [SolveNext]_<<ladderVars, solveVars>>
        => [(failures > 0 /\ failures' = failures + 1)
              => answer'.v = Greatest(0, answer.v - DecelStep)]_ladderVars
  <2> SUFFICES ASSUME SolveInv, [SolveNext]_<<ladderVars, solveVars>>,
                      failures > 0, failures' = failures + 1
               PROVE  answer'.v = Greatest(0, answer.v - DecelStep)
    OBVIOUS
  <2>1. /\ policy \in FallbackStates /\ failures \in Nat
        /\ policy.active /\ answer.v = policy.last_v
    BY DEF SolveInv, LadderInv, LadderTypeOK, Engaged
  <2>2. failures' # 0 /\ ~UNCHANGED ladderVars
    BY <2>1 DEF ladderVars
  <2>3. PICK cmd \in Commands : answer'.v = Ladder(policy, cmd).last_v
    BY <2>2, SolveStep DEF Descends
  <2> QED
    BY <2>1, <2>3, LadderFields
<1> QED
  BY <1>1, SolveInvariance, PTL DEF SolveSpec, NeverAcceleratesWhileFailing

\* The first failure of the loop after anything else starts from the speed
\* asked for then.
THEOREM LoopForgets == SolveSpec => NoReuseAfterStop
<1>1. SolveInv /\ [SolveNext]_<<ladderVars, solveVars>>
        => [(failures = 0 /\ failures' = 1)
              => answer'.v <= Greatest(0, Magnitude(asked'.v) - DecelStep)]_ladderVars
  <2> SUFFICES ASSUME SolveInv, [SolveNext]_<<ladderVars, solveVars>>,
                      failures = 0, failures' = 1
               PROVE  answer'.v <= Greatest(0, Magnitude(asked'.v) - DecelStep)
    OBVIOUS
  <2>1. policy \in FallbackStates /\ ~policy.active
    BY DEF SolveInv, LadderInv, LadderTypeOK, Engaged
  <2>2. failures' # 0 /\ ~UNCHANGED ladderVars
    BY DEF ladderVars
  <2>3. PICK cmd \in Commands :
          asked' = cmd /\ answer'.v = Ladder(policy, cmd).last_v
    BY <2>2, SolveStep DEF Descends
  <2> QED
    BY <2>1, <2>3, LadderFields
<1> QED
  BY <1>1, SolveInvariance, PTL DEF SolveSpec, NoReuseAfterStop
=============================================================================
