---------------------------- MODULE FallbackPolicy ----------------------------
(***************************************************************************)
(* The fallback ladder every command passes through, as operators on its   *)
(* state.  Speeds are integers in one unit; DecelStep is                   *)
(* stop_deceleration * Ts.  The C++ policy never starts the ladder below   *)
(* 1e-6, which is Crawl, any positive speed that one deceleration step     *)
(* takes to zero; the Python policy starts from the candidate's speed, or, *)
(* should that be zero, from the one in the diagnostics, which every       *)
(* caller leaves at zero: there Crawl is 0.                                *)
(*                                                                         *)
(* A command carries, beside its speed, whether both its components are    *)
(* finite and whether its turn rate lies outside the actuator bounds: the  *)
(* ladder tells nothing else of omega apart.                               *)
(***************************************************************************)
EXTENDS Integers

CONSTANTS
    VMin, VMax,     \* actuator bounds on the speed
    DecelStep,      \* speed shed by one step of the ladder
    Crawl,          \* floor of the speed the ladder starts from
    MaxHoldCycles   \* degraded cycles before EMERGENCY_STOP

ASSUME FallbackAssumption ==
    /\ VMin \in Int /\ VMax \in Int /\ VMin <= 0 /\ 0 <= VMax
    /\ DecelStep \in Nat /\ Crawl \in Nat /\ Crawl <= DecelStep
    /\ MaxHoldCycles \in Nat

HealthStates ==
    {"OK", "NO_REFERENCE", "STALE_REFERENCE", "TF_INVALID", "STATE_STALE",
     "QP_TIMEOUT", "QP_INFEASIBLE", "NAN_OUTPUT", "SAFETY_CLAMPED",
     "FALLBACK_ACTIVE", "EMERGENCY_STOP"}

Critical ==
    {"NO_REFERENCE", "STALE_REFERENCE", "TF_INVALID", "STATE_STALE",
     "NAN_OUTPUT", "EMERGENCY_STOP"}

QpDegrade == {"QP_TIMEOUT", "QP_INFEASIBLE", "FALLBACK_ACTIVE"}

FallbackStates == [active : BOOLEAN, degrade_cycles : Nat, last_v : Nat]

ResetFallback == [active |-> FALSE, degrade_cycles |-> 0, last_v |-> 0]

Commands == [v : Int, finite : BOOLEAN, overturn : BOOLEAN]

Zero == [v |-> 0, finite |-> TRUE, overturn |-> FALSE]

Clamp(v, lo, hi) == IF v < lo THEN lo ELSE IF v > hi THEN hi ELSE v

Magnitude(v) == IF v < 0 THEN -v ELSE v

\* One multiplication by max(0, 1 - DecelStep / last_v).
Decelerated(v) == IF v <= DecelStep THEN 0 ELSE v - DecelStep

\* The state of the ladder after a degraded cycle, before the verdict on it:
\* the first one latches the speed it starts from.
Ladder(f, cmd) ==
    LET start == IF f.active THEN f.last_v
                 ELSE IF Magnitude(cmd.v) > Crawl THEN Magnitude(cmd.v)
                 ELSE Crawl
    IN  [active |-> TRUE,
         degrade_cycles |-> IF f.active THEN f.degrade_cycles + 1 ELSE 1,
         last_v |-> Decelerated(start)]

\* Mutant of Exhausted: the ladder gives up one cycle late.
ExhaustedLate(f) == f.degrade_cycles > MaxHoldCycles + 1

Exhausted(f) == f.degrade_cycles > MaxHoldCycles

\* apply(), one rung each: what it leaves in the policy, and the answer.
Outcome(state, v, health, stage) ==
    [state |-> state, v |-> v, health |-> health, stage |-> stage]

\* Mutant of StopNow: the ladder stays engaged across a critical stop.
StopKeepingLadder(f, health) == Outcome(f, 0, health, 3)

StopNow(f, health) ==
    Outcome([f EXCEPT !.active = FALSE, !.degrade_cycles = 0], 0, health, 3)

Degrade(f, cmd) ==
    LET g == Ladder(f, cmd) IN
    IF Exhausted(g)
    THEN Outcome([g EXCEPT !.active = FALSE], 0, "EMERGENCY_STOP", 3)
    ELSE Outcome(g, g.last_v, "FALLBACK_ACTIVE", 2)

Pass(f, cmd, health) ==
    LET v == Clamp(cmd.v, VMin, VMax)
        clamped == v # cmd.v \/ cmd.overturn
    IN  Outcome([f EXCEPT !.active = FALSE], v,
                IF clamped /\ health = "OK" THEN "SAFETY_CLAMPED" ELSE health,
                IF clamped THEN 1 ELSE 0)

Apply(f, cmd, health) ==
    IF ~cmd.finite THEN StopNow(f, "NAN_OUTPUT")
    ELSE IF health \in Critical THEN StopNow(f, health)
    ELSE IF health \in QpDegrade THEN Degrade(f, cmd)
    ELSE Pass(f, cmd, health)
=============================================================================
