------------------------------ MODULE SolvePhase ------------------------------
(***************************************************************************)
(* The second half of compute_cycle, on its own: the prediction window     *)
(* along the reference, the condensed QP over it, the answer of the        *)
(* solver, the command taken from the plan and its way through the         *)
(* fallback ladder, in closed loop with a perfect plant.                   *)
(*                                                                         *)
(* Ts is one unit of time and every quantity an integer; the two errors    *)
(* are in half units.  Of the exponential series of the discretisation the *)
(* first terms are kept in which the reference counts: I + A of the system *)
(* matrix, B + A B / 2 of the input matrix.  In the rows of v and omega,   *)
(* the only constrained ones, they are exact.  A QP is solved to some plan *)
(* within its rows; that it is the cheapest one is left out, and so are    *)
(* the iterations and their warm start.                                    *)
(***************************************************************************)
EXTENDS FallbackLadder, Sequences

CONSTANTS
    N,                    \* horizon
    OmegaMax, AMax, AlphaMax, VProbation,
    QDiag, QFDiag, SDiag, \* weights
    RefV, RefKappa,       \* speed and curvature of the path at arcs 1, 2, ...
    Errors,               \* pairs e_y, e_psi the Frenet projection may find
    Blocks,               \* inputs <<a, alpha>> of one step a plan may hold
    Tolerance             \* violation at which a plan is still approximate

\* __post_init__ of the parameters.
ValidParams ==
    /\ N >= 1 /\ VMin <= VMax /\ OmegaMax > 0 /\ AMax > 0 /\ AlphaMax > 0
    /\ \A w \in {QDiag, QFDiag, SDiag} : \A i \in DOMAIN w : w[i] >= 0

\* The command needs a second block: with the horizon of 1 that the parameters
\* admit, the cycle ends in an IndexError.
ASSUME SolveAssumption ==
    /\ ValidParams /\ N \in Nat /\ N > 1
    /\ {OmegaMax, AMax, AlphaMax} \subseteq Nat
    /\ QDiag \in Seq(Int) /\ QFDiag \in Seq(Int) /\ SDiag \in Seq(Int)
    /\ Len(QDiag) = 4 /\ Len(QFDiag) = 4 /\ Len(SDiag) = 2
    /\ RefV \in Seq(Int) /\ RefKappa \in Seq(Int)
    /\ Len(RefV) = Len(RefKappa) /\ Len(RefV) > 0
    /\ Errors \subseteq Int \X Int /\ Blocks \subseteq Int \X Int
    /\ VProbation \in Nat /\ Tolerance \in Nat

VARIABLES
    user,   \* whose ladder it is: the controller's, or that of any other caller
    arc,    \* the accepted arc
    vel,    \* speed and turn rate of the robot
    plan    \* the last QP: where it was built, its state x0 and its answer

solveVars == <<user, arc, vel, plan>>

NoPlan == [status |-> "none"]

-----------------------------------------------------------------------------
\* Vectors and matrices over the states e_y, e_psi, v, omega.

NX == 4

Total(f, n) ==
    LET sum[i \in 0..n] == IF i = 0 THEN 0 ELSE sum[i - 1] + f[i] IN sum[n]

Dot(u, w) == Total([i \in DOMAIN u |-> u[i] * w[i]], Len(u))

Times(A, x) == [i \in 1..NX |-> Dot(A[i], x)]

TimesMatrix(A, M, columns) ==
    [i \in 1..NX |->
        [j \in 1..columns |-> Total([l \in 1..NX |-> A[i][l] * M[l][j]], NX)]]

Plus(x, y) == [i \in DOMAIN x |-> x[i] + y[i]]

-----------------------------------------------------------------------------
\* The prediction window.

End == Len(RefV)

\* sample_by_s, at the arcs of the samples.
SampleAt(s) ==
    LET i == Clamp(s, 1, End) IN [v |-> RefV[i], kappa |-> RefKappa[i]]

\* A_c about a reference speed and curvature, discretised.
SystemAt(s) ==
    LET v_r == Greatest(SampleAt(s).v, 0)
        kappa == SampleAt(s).kappa
    IN  << <<1, v_r, 0, 0>>,
           <<-(kappa * kappa * v_r), 1, -2 * kappa, 2>>,
           <<0, 0, 1, 0>>,
           <<0, 0, 0, 1>> >>

\* B_c, discretised: an input also turns the robot within its step, against a
\* reference that turns with the speed.
InputAt(s) == << <<0, 0>>, <<-SampleAt(s).kappa, 1>>, <<1, 0>>, <<0, 1>> >>

\* The preview advances at the reference speed; beyond the end it stays there.
Preview(base) ==
    LET s[k \in 0..N] ==
          IF k = 0 THEN base
          ELSE IF s[k - 1] >= End THEN End
          ELSE s[k - 1] + Greatest(SampleAt(s[k - 1]).v, 0)
    IN  s

ReferenceState(s) ==
    <<0, 0, SampleAt(s).v, SampleAt(s).kappa * SampleAt(s).v>>

\* integrate_state: the model rolled forward, one input block a step.
Rollout(base, x0, u) ==
    LET s == Preview(base)
        x[k \in 0..N] ==
          IF k = 0 THEN x0
          ELSE Plus(Times(SystemAt(s[k - 1]), x[k - 1]),
                    Times(InputAt(s[k - 1]), <<u[2 * k - 1], u[2 * k]>>))
    IN  x

-----------------------------------------------------------------------------
\* The condensed QP.  Its matrices do not depend on the state.

Arcs == 1..End

Columns == 2 * N

StepOf(c) == (c + 1) \div 2

InputOf(c) == IF c % 2 = 1 THEN 1 ELSE 2

F == [base \in Arcs |->
        LET A(k) == SystemAt(Preview(base)[k - 1])
            f[k \in 1..N] ==
              IF k = 1 THEN A(1) ELSE TimesMatrix(A(k), f[k - 1], NX)
        IN  f]

NoEffect == [i \in 1..NX |-> [c \in 1..Columns |-> 0]]

\* Mutant of G: each block takes the input matrix of the step before.
GOneStepEarly ==
    [base \in Arcs |->
        LET A(k) == SystemAt(Preview(base)[k - 1])
            B(k) == InputAt(Preview(base)[Greatest(k - 2, 0)])
            g[k \in 1..N] ==
              LET past == IF k = 1 THEN NoEffect
                          ELSE TimesMatrix(A(k), g[k - 1], Columns)
              IN  [i \in 1..NX |-> [c \in 1..Columns |->
                      IF StepOf(c) = k THEN B(k)[i][InputOf(c)]
                      ELSE past[i][c]]]
        IN  g]

G == [base \in Arcs |->
        LET A(k) == SystemAt(Preview(base)[k - 1])
            B(k) == InputAt(Preview(base)[k - 1])
            g[k \in 1..N] ==
              LET past == IF k = 1 THEN NoEffect
                          ELSE TimesMatrix(A(k), g[k - 1], Columns)
              IN  [i \in 1..NX |-> [c \in 1..Columns |->
                      IF StepOf(c) = k THEN B(k)[i][InputOf(c)]
                      ELSE past[i][c]]]
        IN  g]

Weights(k) == IF k = N THEN QFDiag ELSE QDiag

\* G' Qbar times a stack of states.
Weighed(base, c, stack) ==
    LET Stage(k) == [i \in 1..NX |->
                       G[base][k][i][c] * Weights(k)[i] * stack[k][i]]
    IN  Total([k \in 1..N |-> Total(Stage(k), NX)], N)

P == [base \in Arcs |->
        [c \in 1..Columns |-> [d \in 1..Columns |->
            Weighed(base, c,
                    [k \in 1..N |-> [i \in 1..NX |-> G[base][k][i][d]]])
            + (IF c = d THEN SDiag[InputOf(c)] ELSE 0)]]]

Q(base, x0) ==
    LET free == [k \in 1..N |->
                   [i \in 1..NX |-> Times(F[base][k], x0)[i]
                                    - ReferenceState(Preview(base)[k])[i]]]
    IN  [c \in 1..Columns |-> Weighed(base, c, free)]

\* How far a plan is beyond the rows of C: the speed and the turn rate of each
\* predicted state, and each input.
RowsHold(base, x0, u, tol) ==
    /\ \A k \in 1..N :
          LET v == Dot(G[base][k][3], u)
              w == Dot(G[base][k][4], u)
              v_free == Dot(F[base][k][3], x0)
              w_free == Dot(F[base][k][4], x0)
          IN  /\ v <= VMax - v_free + tol /\ -v <= -VMin + v_free + tol
              /\ w <= OmegaMax - w_free + tol /\ -w <= OmegaMax + w_free + tol
    /\ \A c \in 1..Columns :
          Magnitude(u[c]) <= (IF InputOf(c) = 1 THEN AMax ELSE AlphaMax) + tol

\* Twice the objective of the QP.
Objective(base, x0, u) ==
    Dot(u, [c \in 1..Columns |-> Dot(P[base][c], u)]) + 2 * Dot(Q(base, x0), u)

\* _max_violation of the predicted speeds and turn rates.
MaxViolation(x) ==
    LET beyond[k \in 0..N] ==
          IF k = 0 THEN 0
          ELSE Greatest(beyond[k - 1],
                 Greatest(Greatest(VMin - x[k][3], x[k][3] - VMax),
                          Magnitude(x[k][4]) - OmegaMax))
    IN  beyond[N]

-----------------------------------------------------------------------------
\* The solver, and the rest of the cycle.

Plans ==
    {[c \in 1..Columns |-> bs[StepOf(c)][InputOf(c)]] : bs \in [1..N -> Blocks]}

\* solve: a plan within the rows, one that nearly is, or a failure, which still
\* carries the last iterate.
Statuses(base, x0, u) ==
    {"FAILED"}
    \cup (IF RowsHold(base, x0, u, 0) THEN {"SOLVED"} ELSE {})
    \cup (IF RowsHold(base, x0, u, Tolerance) THEN {"APPROXIMATE"} ELSE {})

Ok(result) == result.status \in {"SOLVED", "APPROXIMATE"}

\* The command: the speed after the first input block, and the turn rate with
\* the second one's acceleration; slow cycles are capped.
Candidate(x0, u, slow) ==
    LET v == x0[3] + u[1] IN
    [v |-> IF slow THEN (IF v < VProbation THEN v ELSE VProbation) ELSE v,
     omega |-> x0[4] + u[4]]

\* A cycle that solved its QP, or failed to, with a finite cost.
SolveCycle(error, u, status, slow) ==
    LET x0 == error \o vel
        cmd == Candidate(x0, u, slow)
        out == [status |-> status, base |-> arc, x0 |-> x0, u |-> u]
    IN  /\ plan' = out
        /\ IF Ok(out)
           THEN /\ ApplyTo([v |-> cmd.v, finite |-> TRUE,
                            overturn |-> Magnitude(cmd.omega) > OmegaMax], "OK")
                /\ vel' = <<answer'.v, Clamp(cmd.omega, -OmegaMax, OmegaMax)>>
           ELSE /\ ApplyTo(Zero, "QP_INFEASIBLE")
                /\ vel' = <<answer'.v, 0>>
        /\ arc' = Clamp(arc + answer'.v, 1, End)
        /\ UNCHANGED user

\* A state that is not finite makes the cost so, and the solver refuses it.
NonFiniteCycle ==
    /\ plan' = NoPlan
    /\ ApplyTo(Zero, "NAN_OUTPUT")
    /\ vel' = <<0, 0>>
    /\ UNCHANGED <<user, arc>>

\* set_reference; the robot goes on from the start of the path.
NewReference ==
    /\ Reset
    /\ arc' = 1 /\ plan' = NoPlan
    /\ UNCHANGED <<user, vel>>

SolveInit ==
    /\ Init
    /\ user \in {"controller", "other"}
    /\ arc = 1 /\ vel = <<0, 0>> /\ plan = NoPlan

SolveNext ==
    \/ /\ user = "controller"
       /\ \/ \E error \in Errors, u \in Plans :
             \E status \in Statuses(arc, error \o vel, u), slow \in BOOLEAN :
                SolveCycle(error, u, status, slow)
          \/ NonFiniteCycle
          \/ NewReference
    \/ user = "other" /\ Next /\ UNCHANGED solveVars

SolveSpec == SolveInit /\ [][SolveNext]_<<ladderVars, solveVars>>

-----------------------------------------------------------------------------

\* What a plan costs along the model: the tracking error of each predicted
\* state against its reference, and the inputs.
Cost(base, x0, u) ==
    LET x == Rollout(base, x0, u)
        Off(k, i) == x[k][i] - ReferenceState(Preview(base)[k])[i]
        Stage(k) ==
            Total([i \in 1..NX |-> Weights(k)[i] * Off(k, i) * Off(k, i)], NX)
        Effort == [c \in 1..Columns |-> SDiag[InputOf(c)] * u[c] * u[c]]
    IN  Total([k \in 1..N |-> Stage(k)], N) + Total(Effort, Columns)

\* The condensed QP means what the model does step by step, for every plan the
\* solver returns, also a failed one: its rows hold exactly when no predicted
\* speed or turn rate and no input is out of bounds, and its objective is the
\* cost of the plan but for what no plan can change.
PlanIsItsRollout ==
    plan # NoPlan =>
        LET x == Rollout(plan.base, plan.x0, plan.u)
            idle == [c \in 1..Columns |-> 0]
            InBounds(tol) == \A c \in 1..Columns :
                Magnitude(plan.u[c])
                    <= tol + (IF InputOf(c) = 1 THEN AMax ELSE AlphaMax)
        IN  /\ \A tol \in 0..Tolerance :
                  RowsHold(plan.base, plan.x0, plan.u, tol)
                    <=> MaxViolation(x) <= tol /\ InBounds(tol)
            /\ Objective(plan.base, plan.x0, plan.u)
                 = Cost(plan.base, plan.x0, plan.u)
                     - Cost(plan.base, plan.x0, idle)
=============================================================================
