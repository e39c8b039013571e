--------------------------- MODULE ProjectionGate ---------------------------
(***************************************************************************)
(* The physical-displacement reachability gate of the controller (A5.1).   *)
(* A raw projection onto the path is believed only as far as the robot has *)
(* really moved: the displacement of each cycle is banked in a budget, and *)
(* a candidate arc is accepted when it lies at most Margin + budget ahead  *)
(* of the last accepted arc.                                               *)
(*                                                                         *)
(* Lengths are integers in one unit (5 mm gives the code's 0.02, 0.30 and  *)
(* 1.5 * 0.05 + 0.015 the values 4, 60 and 18).  The pose kept by the gate *)
(* (last_x, last_y) is abstracted to "there is one": the caller supplies   *)
(* `moved', the displacement since that pose projected on the path tangent *)
(* at the accepted arc, of either sign.                                    *)
(***************************************************************************)
EXTENDS Integers

CONSTANTS
    Margin,        \* margin_m: noise floor of one decision
    AllowanceCap,  \* cap_m: the most that may be banked
    StepCap        \* stepCap(): v_max * Ts + odom_step_noise_m

ASSUME GateAssumption ==
    /\ Margin \in Nat
    /\ AllowanceCap \in Nat
    /\ StepCap \in Nat

Lesser(a, b)  == IF a <= b THEN a ELSE b
Greater(a, b) == IF a >= b THEN a ELSE b

Gates == [accepted_arc : Nat, budget : 0..AllowanceCap, has_last_pose : BOOLEAN]

\* reset(arc): a new anchor spends the budget and forgets the last pose.
ResetGate(arc) == [accepted_arc |-> arc, budget |-> 0, has_last_pose |-> FALSE]

PhysicalDs(g, moved) ==
    IF g.has_last_pose THEN Lesser(Greater(moved, 0), StepCap) ELSE 0

\* Mutant of Banked: the noise margin of each cycle is banked as well.
BankedWithMargin(g, moved) ==
    Lesser(g.budget + PhysicalDs(g, moved) + Margin, AllowanceCap)

\* Mutant of Banked: the cap on the bank is lost.
BankedUncapped(g, moved) == g.budget + PhysicalDs(g, moved)

\* The budget the decision is taken with: banked before deciding, capped.
Banked(g, moved) == Lesser(g.budget + PhysicalDs(g, moved), AllowanceCap)

\* Mutant of Accepts: a displacement exactly at the limit is rejected.
AcceptsBelow(g, moved, raw) == raw - g.accepted_arc < Margin + Banked(g, moved)

Accepts(g, moved, raw) == raw - g.accepted_arc <= Margin + Banked(g, moved)

\* Mutant of SpentBudget: an accepted step leaves its allowance in the bank.
BudgetKept(g, moved, raw) == Banked(g, moved)

SpentBudget(g, moved, raw) ==
    IF Accepts(g, moved, raw) THEN 0 ELSE Banked(g, moved)

\* The baseline only moves forward, and only to an accepted candidate.
AcceptedArc(g, moved, raw) ==
    IF Accepts(g, moved, raw) THEN Greater(g.accepted_arc, raw)
                              ELSE g.accepted_arc

\* step(x, y, raw_arc, tangent): one gate cycle.
GateStep(g, moved, raw) ==
    [accepted_arc  |-> AcceptedArc(g, moved, raw),
     budget        |-> SpentBudget(g, moved, raw),
     has_last_pose |-> TRUE]
=============================================================================
