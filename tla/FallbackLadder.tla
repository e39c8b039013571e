---------------------------- MODULE FallbackLadder ----------------------------
(***************************************************************************)
(* FallbackPolicy as an object: any sequence of apply and reset calls, with *)
(* any command and any health.  MpcCore uses it only with the healths OK   *)
(* and QP_INFEASIBLE; the ladder promises more than that use needs.        *)
(***************************************************************************)
EXTENDS FallbackPolicy

CONSTANT Speeds   \* speeds a caller may ask for

ASSUME LadderAssumption == Speeds \subseteq Int

VARIABLES
    policy,   \* the object: active_, degrade_cycles_, last_v_
    asked,    \* the command of the last apply
    answer,   \* what the last apply answered
    failures  \* history: degraded applies since the last that was not, or
              \* since the ladder last ran out

ladderVars == <<policy, asked, answer, failures>>

Answers == [v : Int, health : HealthStates, stage : 0..3]

Init ==
    /\ policy = ResetFallback
    /\ asked = Zero
    /\ answer = [v |-> 0, health |-> "OK", stage |-> 0]
    /\ failures = 0

Reset ==
    /\ policy' = ResetFallback
    /\ failures' = 0
    /\ UNCHANGED <<asked, answer>>

ApplyTo(cmd, health) ==
    LET out == Apply(policy, cmd, health) IN
    /\ policy' = out.state
    /\ asked' = cmd
    /\ answer' = [v |-> out.v, health |-> out.health, stage |-> out.stage]
    /\ failures' = IF health \in QpDegrade /\ cmd.finite
                   THEN IF out.health = "EMERGENCY_STOP" THEN 0 ELSE failures + 1
                   ELSE 0

\* The healths a caller passes in: not the answers SAFETY_CLAMPED and
\* NAN_OUTPUT, which apply alone gives.
Next ==
    \/ Reset
    \/ \E v \in Speeds, finite, overturn \in BOOLEAN,
          health \in HealthStates \ {"SAFETY_CLAMPED", "NAN_OUTPUT"} :
            ApplyTo([v |-> v, finite |-> finite, overturn |-> overturn], health)

Spec == Init /\ [][Next]_ladderVars

-----------------------------------------------------------------------------

\* Type invariant.
LadderTypeOK ==
    /\ policy \in FallbackStates
    /\ asked \in Commands
    /\ answer \in Answers
    /\ failures \in Nat

\* The ladder is bounded: at most MaxHoldCycles failures in a row are answered
\* with a moving fallback, the next one is an emergency stop, whatever healthy
\* cycles, critical stops and resets came before.
HoldIsBounded == failures <= MaxHoldCycles

Greatest(a, b) == IF a >= b THEN a ELSE b

\* Going down the ladder never speeds the robot up: while failures follow one
\* another the speed falls by a deceleration step each time, until standstill.
NeverAcceleratesWhileFailing ==
    [][(failures > 0 /\ failures' = failures + 1)
        => answer'.v = Greatest(0, answer.v - DecelStep)]_ladderVars

\* A critical stop is not remembered: the first failure after any cycle that
\* was not degraded starts from the speed asked for then, and not from one
\* that was commanded before the stop.
NoReuseAfterStop ==
    [][(failures = 0 /\ failures' = 1)
        => answer'.v <= Greatest(0, Magnitude(asked'.v) - DecelStep)]_ladderVars
=============================================================================
