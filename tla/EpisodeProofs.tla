---------------------------- MODULE EpisodeProofs ----------------------------
(***************************************************************************)
(* Theorems about Episode, for every value of its constants.               *)
(***************************************************************************)
EXTENDS Episode, MpcCoreProofs

-----------------------------------------------------------------------------
(***************************************************************************)
(* What one iteration leaves alone and what it adds to the books.          *)
(***************************************************************************)

\* The constants are numbers.
LEMMA EpisodeConstants ==
    /\ MaxStep \in Nat /\ MaxStep <= StepCap /\ StepCap <= AllowanceCap
    /\ StepCap \in Nat /\ AllowanceCap \in Nat /\ Margin \in Nat
    /\ CompleteMargin \in Nat /\ MaxSteps \in Nat
    /\ ProgressWindow \in Nat /\ ProgressWindow > 0
    /\ ProgressMinGain \in Nat \ {0}
<1>1. StepCap \in Nat /\ AllowanceCap \in Nat /\ Margin \in Nat
  BY GateAssumption
<1>2. MaxStep \in 0..StepCap /\ StepCap <= AllowanceCap
  BY EpisodeAssumption
<1>3. /\ CompleteMargin \in Nat /\ MaxSteps \in Nat
      /\ ProgressWindow \in Nat \ {0} /\ ProgressMinGain \in Nat \ {0}
  BY EpisodeAssumption
<1>4. QED BY <1>1, <1>2, <1>3

\* What an iteration may show the audit: the robot's displacement, and an arc
\* of the path.
Shown(moved, raw) == moved \in Int /\ raw \in Arcs

\* The history of an iteration: the seed stays, and the motion is the one seen.
Noted(moved, raw) ==
    /\ truth' \in Truths
    /\ truth'.seed = truth.seed
    /\ truth'.motion = MotionSeen(moved, raw)

\* An iteration that reaches the end of the loop body, or one that stops it, or
\* the end of the loop.
LEMMA IterationCases ==
    ASSUME EpisodeTypeOK, EpisodeNext
    PROVE  \/ \E moved, raw, near, diverged :
                /\ Shown(moved, raw)
                /\ Running
                /\ Audit(moved, raw, near, diverged)
                /\ Noted(moved, raw)
           \/ /\ UNCHANGED <<cell, books, step, stall_checked_at, stall_mark>>
              /\ done_reason' \in DoneReasons \ {"", "COMPLETED"}
              /\ truth' \in Truths
              /\ truth'.seed = truth.seed /\ truth'.motion = truth.motion
<1>1. \A moved, raw : Shown(moved, raw) => MotionSeen(moved, raw) \in Nat
  <2> SUFFICES ASSUME NEW moved \in Int, NEW raw \in Arcs
               PROVE  MotionSeen(moved, raw) \in Nat
    BY DEF Shown
  <2>1. truth.motion \in Nat /\ PathLength + AllowanceCap \in Nat /\ Margin \in Nat
    BY ArcsAreNaturals, GateAssumption DEF EpisodeTypeOK, Truths
  <2>2. Greater(moved, 0) \in Nat
    BY DEF Greater
  <2>3. QED
    BY <2>1, <2>2 DEF MotionSeen, Lesser
<1>2. ASSUME NEW d \in 0..MaxStep, NEW diverged \in BOOLEAN, TrueStep(d, diverged)
      PROVE  /\ Shown(d, truth.pos + d) /\ Running
             /\ Audit(d, truth.pos + d, TRUE, diverged)
             /\ Noted(d, truth.pos + d)
  <2>1. Shown(d, truth.pos + d)
    BY <1>2, EpisodeAssumption DEF TrueStep, Shown
  <2>2. MotionSeen(d, truth.pos + d) \in Nat
    BY <1>1, <2>1
  <2>3. Noted(d, truth.pos + d)
    BY <1>2, <2>1, <2>2 DEF TrueStep, Noted, Shown, EpisodeTypeOK, Truths
  <2>4. QED
    BY <1>2, <2>1, <2>3 DEF TrueStep
<1>3. ASSUME NEW moved \in Displacements, NEW raw \in Sightings,
             NEW near \in BOOLEAN, NEW diverged \in BOOLEAN,
             WrongStep(moved, raw, near, diverged)
      PROVE  /\ Shown(moved, raw) /\ Running
             /\ Audit(moved, raw, near, diverged)
             /\ Noted(moved, raw)
  <2>1. Shown(moved, raw)
    BY EpisodeAssumption, MpcCoreAssumption DEF Shown
  <2>2. MotionSeen(moved, raw) \in Nat /\ 0 \in Arcs
    BY <1>1, <2>1, ArcsAreNaturals
  <2>3. Noted(moved, raw)
    BY <1>3, <2>2 DEF WrongStep, Astray, Noted, EpisodeTypeOK, Truths
  <2>4. QED
    BY <1>3, <2>1, <2>3 DEF WrongStep
<1>4. CASE RefusedStep
  <2>1. truth' \in Truths /\ truth'.seed = truth.seed /\ truth'.motion = truth.motion
    BY <1>4, ArcsAreNaturals DEF RefusedStep, EpisodeTypeOK, Truths
  <2>2. QED
    BY <1>4, <2>1 DEF RefusedStep, DoneReasons
<1>5. CASE Timeout
  BY <1>5 DEF Timeout, DoneReasons, EpisodeTypeOK
<1>6. QED
  BY <1>2, <1>3, <1>4, <1>5 DEF EpisodeNext

-----------------------------------------------------------------------------
(***************************************************************************)
(* The audit's books.                                                      *)
(***************************************************************************)

\* The audit's gate never leaves the path, and the watermark is what it trusts.
LedgerOnPath ==
    /\ ledger.accepted_arc \in Arcs
    /\ Honest => watermark <= ledger.accepted_arc

\* What an iteration preserves of the books.  That they balance is needed to
\* know that progress alone never exceeds the path, beyond which the motion is
\* not counted.
BooksInv ==
    /\ EpisodeTypeOK
    /\ LedgerOnPath
    /\ BooksBalance
    /\ ProgressWithinMotion
    /\ CompletedAtTheEnd

\* The episode starts with blank books and a ledger primed with its seed.
LEMMA BooksInit == EpisodeInit => BooksInv
<1> SUFFICES ASSUME EpisodeInit PROVE BooksInv
  OBVIOUS
<1>1. PICK seed \in Arcs, believed \in BOOLEAN :
        /\ truth = [trueSoFar |-> believed, pos |-> IF believed THEN seed ELSE 0,
                    noted |-> IF believed THEN seed ELSE 0,
                    seed |-> seed, motion |-> seed + Margin]
        /\ ledger = GateStep(ResetGate(seed), 0, seed)
  BY DEF EpisodeInit
<1>2. /\ seed \in Nat /\ 0 \in Arcs /\ Margin \in Nat
  BY ArcsAreNaturals, GateAssumption
<1>3. /\ truth \in Truths /\ truth.seed = seed /\ truth.motion = seed + Margin
  BY <1>1, <1>2 DEF Truths
<1>4. /\ ledger \in Gates /\ ledger.accepted_arc = seed /\ ledger.budget = 0
  <2>1. /\ ResetGate(seed) \in Gates
        /\ ResetGate(seed).accepted_arc = seed /\ ResetGate(seed).budget = 0
    BY <1>2, AnchoredAtType
  <2>2. ledger.accepted_arc = seed /\ ledger \in Gates
    BY <1>1, <1>2, <2>1, GateStepType, AcceptedArcIsOneOfTwo
  <2>3. ledger.budget = 0
    BY <1>1, <1>2, <2>1, GateAssumption
       DEF GateStep, SpentBudget, Accepts, Banked, PhysicalDs, ResetGate,
           Lesser, Greater
  <2>4. QED BY <2>2, <2>3
<1>5. /\ progress = 0 /\ skipped = 0 /\ jumps = 0 /\ watermark = 0
      /\ done_reason = "" /\ in_jump = FALSE
      /\ step = 0 /\ stall_checked_at = 0 /\ stall_mark = 0
  BY DEF EpisodeInit, BlankBooks
<1>6. cell \in Cells
  BY DEF EpisodeInit, RunCell, cell, Cells
<1>7. EpisodeTypeOK
  <2>1. 0 \in 0..MaxSteps /\ "" \in DoneReasons
    BY EpisodeAssumption DEF DoneReasons
  <2>2. ledger.accepted_arc \in Arcs
    BY <1>4
  <2>3. QED
    BY <1>3, <1>4, <1>5, <1>6, <2>1, <2>2 DEF EpisodeTypeOK
<1>8. LedgerOnPath
  <2>1. watermark = 0 /\ ledger.accepted_arc = seed
    BY <1>4, <1>5
  <2>2. QED
    BY <1>2, <2>1 DEF LedgerOnPath
<1>9. BooksBalance /\ ProgressWithinMotion
  <2>1. /\ progress = 0 /\ skipped = 0
        /\ ledger.accepted_arc = seed /\ ledger.budget = 0
        /\ truth.seed = seed /\ truth.motion = seed + Margin
    BY <1>3, <1>4, <1>5
  <2>2. QED
    BY <1>2, <2>1 DEF BooksBalance, ProgressWithinMotion
<1>10. CompletedAtTheEnd
  BY <1>5 DEF CompletedAtTheEnd
<1>11. QED
  BY <1>7, <1>8, <1>9, <1>10 DEF BooksInv

\* What booking one projection does to ledger, progress and skipped span.
LEMMA BookedSound ==
    ASSUME ledger \in Gates, NEW moved \in Int, NEW raw \in Nat, NEW near,
           Booked(moved, raw, near),
           progress \in Nat, skipped \in Nat, jumps \in Nat
    PROVE  /\ ledger' \in Gates
           /\ ledger'.accepted_arc \in {ledger.accepted_arc, raw}
           /\ progress' \in Nat /\ skipped' \in Nat /\ jumps' \in Nat
           /\ in_jump' \in BOOLEAN
           /\ (progress' - progress) + (skipped' - skipped)
                = ledger'.accepted_arc - ledger.accepted_arc
           /\ progress' + ledger'.budget
                <= progress + ledger.budget + Greater(moved, 0)
                   + (IF Accepts(ledger, moved, raw) THEN Margin ELSE 0)
           /\ ledger.accepted_arc <= ledger'.accepted_arc
<1> DEFINE accepted == Accepts(ledger, moved, raw)
           delta == raw - ledger.accepted_arc
           stepped == GateStep(ledger, moved, raw)
           bank == Banked(ledger, moved)
<1>1. /\ ledger.accepted_arc \in Nat /\ ledger.budget \in Nat
      /\ Margin \in Nat /\ bank \in 0..AllowanceCap /\ AllowanceCap \in Nat
      /\ bank <= ledger.budget + Greater(moved, 0)
      /\ accepted <=> delta <= Margin + bank
  BY GateAssumption DEF Gates, Accepts, Banked, PhysicalDs, Lesser, Greater
<1>2. /\ stepped \in Gates
      /\ accepted => /\ stepped.accepted_arc = Greater(ledger.accepted_arc, raw)
                     /\ stepped.budget = 0
      /\ ~accepted => /\ stepped.accepted_arc = ledger.accepted_arc
                      /\ stepped.budget = bank
  BY GateStepType DEF GateStep, AcceptedArc, SpentBudget
<1>3. Greater(moved, 0) \in Nat /\ Greater(ledger.accepted_arc, raw) \in Nat
  BY <1>1 DEF Greater
<1>4. /\ ledger' = IF accepted \/ ~near THEN stepped ELSE Rebaseline(stepped, raw)
      /\ in_jump' = ~accepted
      /\ jumps' = IF accepted \/ in_jump THEN jumps ELSE jumps + 1
      /\ skipped' = IF accepted \/ ~near THEN skipped ELSE skipped + delta
      /\ progress' = IF accepted /\ delta > 0 THEN progress + delta ELSE progress
  BY DEF Booked
<1>5. jumps' \in Nat /\ in_jump' \in BOOLEAN
  BY <1>4 DEF Accepts
<1> HIDE DEF accepted, stepped, bank
<1>6. CASE accepted
  BY <1>1, <1>2, <1>3, <1>4, <1>5, <1>6 DEF Greater, accepted
<1>7. CASE ~accepted /\ ~near
  BY <1>1, <1>2, <1>3, <1>4, <1>5, <1>7 DEF accepted
<1>8. CASE ~accepted /\ near
  <2>1. raw > ledger.accepted_arc
    BY <1>1, <1>8
  <2>2. /\ ledger' = Rebaseline(stepped, raw)
        /\ stepped.accepted_arc = ledger.accepted_arc
        /\ skipped' = skipped + delta /\ progress' = progress
    BY <1>2, <1>4, <1>8
  <2>3. ledger' \in Gates /\ ledger'.accepted_arc = raw /\ ledger'.budget = 0
    <3>1. Greater(stepped.accepted_arc, raw) = raw
      BY <1>1, <2>1, <2>2 DEF Greater
    <3>2. ledger' = [stepped EXCEPT !.accepted_arc = raw, !.budget = 0]
      BY <2>2, <3>1, Zenon DEF Rebaseline
    <3>3. 0 \in 0..AllowanceCap
      BY <1>1
    <3>4. QED BY <1>2, <3>2, <3>3 DEF Gates
  <2>4. QED
    BY <1>1, <1>3, <1>5, <1>8, <2>1, <2>2, <2>3 DEF accepted
<1>9. QED
  BY <1>6, <1>7, <1>8

\* The reason an iteration ends with, if it does.
LEMMA VerdictType ==
    ASSUME NEW r, NEW raw, NEW diverged
    PROVE  Verdict(r, raw, diverged) \in DoneReasons
BY DEF Verdict, EmergencyReason, DoneReasons

\* An iteration keeps the books in order.
LEMMA AuditKeepsBooks ==
    ASSUME BooksInv, NEW moved, NEW raw, NEW near, NEW diverged,
           Shown(moved, raw), Running, Audit(moved, raw, near, diverged),
           Noted(moved, raw)
    PROVE  BooksInv'
<1> DEFINE margin == IF Accepts(ledger, moved, raw) THEN Margin ELSE 0
<1>1. /\ moved \in Int /\ raw \in Arcs /\ raw \in Nat /\ raw <= PathLength
      /\ PathLength \in Nat /\ AllowanceCap \in Nat /\ margin \in Nat
      /\ Greater(moved, 0) \in Nat
  BY ArcsAreNaturals, GateAssumption DEF Shown, Greater
<1>2. /\ EpisodeTypeOK /\ BooksBalance /\ ProgressWithinMotion /\ LedgerOnPath
  BY DEF BooksInv
<1>3. /\ ledger \in Gates /\ ledger.accepted_arc \in Nat /\ ledger.budget \in Nat
      /\ progress \in Nat /\ skipped \in Nat /\ jumps \in Nat
      /\ in_jump \in BOOLEAN /\ watermark \in Nat
      /\ truth.seed \in Nat /\ truth.motion \in Nat
      /\ step \in 0..MaxSteps /\ stall_checked_at \in Nat /\ stall_mark \in Nat
  <2>1. ledger.accepted_arc \in Nat /\ ledger.budget \in Nat
    BY <1>2, GateAssumption DEF EpisodeTypeOK, Gates
  <2>2. truth.seed \in Nat /\ truth.motion \in Nat
    BY <1>2, ArcsAreNaturals DEF EpisodeTypeOK, Truths
  <2>3. QED
    BY <1>2, <2>1, <2>2 DEF EpisodeTypeOK
<1>4. /\ ledger' \in Gates /\ ledger'.accepted_arc \in Arcs
      /\ progress' \in Nat /\ skipped' \in Nat /\ jumps' \in Nat
      /\ in_jump' \in BOOLEAN
      /\ (progress' - progress) + (skipped' - skipped)
           = ledger'.accepted_arc - ledger.accepted_arc
      /\ progress' + ledger'.budget
           <= progress + ledger.budget + Greater(moved, 0) + margin
      /\ ledger.accepted_arc <= ledger'.accepted_arc
  <2>1. CASE audit_mode = "raw"
    <3>1. UNCHANGED <<ledger, in_jump, jumps, skipped, progress>>
      BY <2>1 DEF Audit, Unbooked
    <3>2. QED
      BY <1>1, <1>2, <1>3, <3>1 DEF LedgerOnPath
  <2>2. CASE audit_mode # "raw"
    <3>1. Booked(moved, raw, near)
      BY <2>2 DEF Audit
    <3>2. QED
      BY <1>1, <1>2, <1>3, <3>1, BookedSound DEF LedgerOnPath
  <2>3. QED BY <2>1, <2>2
<1>5. /\ cell' = cell /\ audit_mode' = audit_mode
      /\ watermark' = Greater(watermark, Ruler(raw))
      /\ done_reason' = Verdict(res', raw, diverged)
      /\ step' = step + 1
      /\ \/ stall_mark' = watermark' /\ stall_checked_at' = step
         \/ UNCHANGED <<stall_mark, stall_checked_at>>
  BY DEF Audit, cell
<1>6. /\ ledger'.accepted_arc \in Nat /\ ledger'.accepted_arc <= PathLength
      /\ ledger'.budget \in 0..AllowanceCap
  BY <1>4, ArcsAreNaturals DEF Gates
<1>7. /\ watermark' \in Nat
      /\ Honest => Honest' /\ watermark' <= ledger'.accepted_arc
      /\ Honest' => Honest
  BY <1>1, <1>2, <1>3, <1>4, <1>5, <1>6
     DEF Honest, Ruler, Greater, LedgerOnPath
<1>8. /\ truth' \in Truths /\ truth'.seed = truth.seed
      /\ truth'.motion = Lesser(truth.motion + Greater(moved, 0) + margin,
                                PathLength + AllowanceCap)
  BY DEF Noted, MotionSeen
<1>9. EpisodeTypeOK'
  <2>1. step' \in 0..MaxSteps
    <3>1. step \in 0..MaxSteps /\ step < MaxSteps /\ step' = step + 1
      BY <1>3, <1>5 DEF Running
    <3>2. MaxSteps \in Nat
      BY EpisodeAssumption
    <3>3. QED BY <3>1, <3>2
  <2>2. done_reason' \in DoneReasons
    BY <1>5, VerdictType
  <2>3. cell' \in Cells
    BY <1>2, <1>5 DEF EpisodeTypeOK
  <2>4. stall_checked_at' \in Nat /\ stall_mark' \in Nat
    BY <1>3, <1>5, <1>7
  <2>5. QED
    BY <1>4, <1>7, <1>8, <2>1, <2>2, <2>3, <2>4 DEF EpisodeTypeOK
<1>10. BooksBalance'
  BY <1>2, <1>3, <1>4, <1>6, <1>8 DEF BooksBalance
<1>11. ProgressWithinMotion'
  <2>1. truth.seed + progress' <= ledger'.accepted_arc
    BY <1>3, <1>4, <1>6, <1>8, <1>10 DEF BooksBalance
  <2> HIDE DEF margin
  <2>2. truth.seed + progress' + ledger'.budget <= PathLength + AllowanceCap
    BY <1>1, <1>3, <1>4, <1>6, <2>1
  <2>3. truth.seed + progress' + ledger'.budget
          <= truth.motion + Greater(moved, 0) + margin
    BY <1>1, <1>2, <1>3, <1>4, <1>6 DEF ProgressWithinMotion
  <2>4. QED
    BY <1>8, <2>2, <2>3 DEF ProgressWithinMotion, Lesser
<1>12. LedgerOnPath'
  BY <1>4, <1>7 DEF LedgerOnPath
<1>13. CompletedAtTheEnd'
  <2> SUFFICES ASSUME done_reason' = "COMPLETED", Honest'
               PROVE  ledger'.accepted_arc >= PathLength - CompleteMargin
    BY DEF CompletedAtTheEnd
  <2>1. watermark' >= PathLength - CompleteMargin
    BY <1>5 DEF Verdict, EmergencyReason, Completes
  <2>2. QED
    BY <1>1, <1>6, <1>7, <2>1, EpisodeAssumption
<1>14. QED
  BY <1>9, <1>10, <1>11, <1>12, <1>13 DEF BooksInv

\* Every step keeps the books in order.
LEMMA BooksNext == BooksInv /\ [EpisodeNext]_episodeVars => BooksInv'
<1> SUFFICES ASSUME BooksInv, [EpisodeNext]_episodeVars PROVE BooksInv'
  OBVIOUS
<1>1. CASE UNCHANGED episodeVars
  BY <1>1 DEF episodeVars, books, cell, BooksInv, EpisodeTypeOK, LedgerOnPath,
              BooksBalance, ProgressWithinMotion, CompletedAtTheEnd, Honest
<1>2. CASE EpisodeNext
  <2>1. ASSUME NEW moved, NEW raw, NEW near, NEW diverged,
               Shown(moved, raw), Running,
               Audit(moved, raw, near, diverged), Noted(moved, raw)
        PROVE  BooksInv'
    BY <2>1, AuditKeepsBooks
  <2>2. ASSUME UNCHANGED <<cell, books, step, stall_checked_at, stall_mark>>,
               done_reason' \in DoneReasons \ {"", "COMPLETED"},
               truth' \in Truths,
               truth'.seed = truth.seed, truth'.motion = truth.motion
        PROVE  BooksInv'
    BY <2>2 DEF books, cell, BooksInv, EpisodeTypeOK, LedgerOnPath,
                BooksBalance, ProgressWithinMotion, CompletedAtTheEnd, Honest
  <2>3. QED
    BY <1>2, <2>1, <2>2, IterationCases DEF BooksInv
<1>3. QED BY <1>1, <1>2

\* The books of every episode are in order, whatever the projections were.
THEOREM BooksInvariance == EpisodeSpec => []BooksInv
BY BooksInit, BooksNext, PTL DEF EpisodeSpec

\* What was booked as progress and as skipped adds up to the way from the seed
\* to the arc the ledger trusts.
THEOREM BooksSound == EpisodeSpec => []BooksBalance
<1>1. BooksInv => BooksBalance
  BY DEF BooksInv
<1>2. QED BY <1>1, BooksInvariance, PTL

\* Progress is never made up by projections: the motion the audit has seen, and
\* a margin per accepted step, cover it.
THEOREM ProgressSound == EpisodeSpec => []ProgressWithinMotion
<1>1. BooksInv => ProgressWithinMotion
  BY DEF BooksInv
<1>2. QED BY <1>1, BooksInvariance, PTL

\* An episode audited with the ledger is completed only by an accepted arc near
\* the end of the path, also under the controller from before the gate.
THEOREM CompletionSound == EpisodeSpec => []CompletedAtTheEnd
<1>1. BooksInv => CompletedAtTheEnd
  BY DEF BooksInv
<1>2. QED BY <1>1, BooksInvariance, PTL

-----------------------------------------------------------------------------
(***************************************************************************)
(* While every projection is right.                                        *)
(***************************************************************************)

\* The gate of the controller stands where it saw the robot one step before,
\* with nothing in the bank, and the ledger stands where the robot is.
TrueInv ==
    truth.trueSoFar =>
        /\ truth.noted <= truth.pos /\ truth.pos <= truth.noted + MaxStep
        /\ reject_run = 0 /\ reacq.mode = "NORMAL"
        /\ jumps = 0 /\ skipped = 0
        /\ Honest => ledger.accepted_arc = truth.pos /\ ledger.has_last_pose
        /\ gate_initialized =>
              gate = [accepted_arc |-> truth.noted, budget |-> 0,
                      has_last_pose |-> TRUE]

\* A gate that saw the last pose accepts what an honest step of the robot moves
\* it to, and banks none of it.
LEMMA HonestStepAccepted ==
    ASSUME NEW g \in Gates, g.has_last_pose, NEW d \in 0..MaxStep
    PROVE  /\ Accepts(g, d, g.accepted_arc + d)
           /\ GateStep(g, d, g.accepted_arc + d)
                = [accepted_arc |-> g.accepted_arc + d, budget |-> 0,
                   has_last_pose |-> TRUE]
<1>1. /\ StepCap \in Nat /\ AllowanceCap \in Nat /\ Margin \in Nat
      /\ d \in Nat /\ d <= StepCap /\ StepCap <= AllowanceCap
  BY EpisodeConstants
<1>2. g.accepted_arc \in Nat /\ g.budget \in Nat
  BY <1>1 DEF Gates
<1>3. Banked(g, d) >= d
  BY <1>1, <1>2 DEF Banked, PhysicalDs, Lesser, Greater
<1>4. Accepts(g, d, g.accepted_arc + d)
  <2>1. Banked(g, d) \in Nat
    BY <1>1, <1>2 DEF Banked, PhysicalDs, Lesser, Greater
  <2>2. QED
    BY <1>1, <1>2, <1>3, <2>1 DEF Accepts
<1>5. Greater(g.accepted_arc, g.accepted_arc + d) = g.accepted_arc + d
  BY <1>1, <1>2 DEF Greater
<1>6. QED
  BY <1>4, <1>5 DEF GateStep, AcceptedArc, SpentBudget

\* The gate of a new anchor, in the Python core.
LEMMA PythonAnchor ==
    ASSUME NEW arc
    PROVE  AnchoredGate(arc) = [accepted_arc |-> arc, budget |-> 0,
                                has_last_pose |-> TRUE]
<1>1. Port = "python"
  BY EpisodeAssumption
<1>2. AnchoredGate(arc) = [ResetGate(arc) EXCEPT !.has_last_pose = TRUE]
  BY <1>1, Zenon DEF AnchoredGate
<1>3. QED
  BY <1>2 DEF ResetGate

\* A right projection is anchored or accepted by the controller, and nothing
\* else happens to it.
LEMMA TrueCycle ==
    ASSUME BooksInv, TrueInv, truth.trueSoFar,
           Sees(truth.pos, truth.pos - truth.noted)
    PROVE  /\ reject_run' = 0 /\ reacq'.mode = "NORMAL"
           /\ gate' = [accepted_arc |-> truth.pos, budget |-> 0,
                       has_last_pose |-> TRUE]
<1> DEFINE pos == truth.pos
           d == truth.pos - truth.noted
<1>1. /\ truth.pos \in Nat /\ truth.noted \in Nat
      /\ d \in 0..MaxStep /\ truth.noted + d = pos
  <2>1. truth.pos \in Nat /\ truth.noted \in Nat
    BY ArcsAreNaturals DEF BooksInv, EpisodeTypeOK, Truths
  <2>2. truth.noted <= truth.pos /\ truth.pos <= truth.noted + MaxStep
    BY DEF TrueInv
  <2>3. MaxStep \in Nat
    BY EpisodeConstants
  <2>4. QED BY <2>1, <2>2, <2>3
<1>2. reject_run = 0 /\ reacq.mode = "NORMAL"
  BY DEF TrueInv
<1>3. ASSUME NEW qp, AnchorCycle(pos, qp)
      PROVE  reject_run' = 0 /\ reacq'.mode = "NORMAL" /\ gate' = AnchoredGate(pos)
  BY <1>2, <1>3 DEF AnchorCycle, TickProbation
<1>4. ASSUME NEW qp, TrackCycle(d, pos, qp)
      PROVE  /\ reject_run' = 0 /\ reacq'.mode = "NORMAL"
             /\ gate' = AnchoredGate(pos)
  <2>1. gate = [accepted_arc |-> truth.noted, budget |-> 0, has_last_pose |-> TRUE]
    BY <1>4 DEF TrackCycle, TrueInv
  <2>2. gate \in Gates /\ gate.accepted_arc = truth.noted /\ gate.has_last_pose
    BY <1>1, <2>1, GateAssumption DEF Gates
  <2>3. pos = gate.accepted_arc + d
    BY <1>1, <2>2
  <2>4. /\ Accepts(gate, d, pos)
        /\ GateStep(gate, d, pos) = AnchoredGate(pos)
    BY <1>1, <2>2, <2>3, HonestStepAccepted, PythonAnchor
  <2>5. ~Backward(pos)
    BY <1>1, <2>2, MpcCoreAssumption DEF Backward
  <2>6. Believed(d, pos) /\ GateAfter(d, pos) = AnchoredGate(pos)
    BY <2>4, <2>5 DEF Believed, GateAfter
  <2>7. reject_run' = 0 /\ gate' = AnchoredGate(pos)
    BY <1>4, <2>6 DEF TrackCycle, RejectRun
  <2>8. ~LosesTrust(reject_run')
    BY <2>7, ReacquireAssumption DEF LosesTrust
  <2>9. reacq' = TickProbation(reacq)
    BY <1>4, <2>8 DEF TrackCycle
  <2>10. QED
    BY <1>2, <2>7, <2>9 DEF TickProbation
<1>5. ASSUME NEW qp, GlobalCycle(pos, qp)
      PROVE  reject_run' = 0 /\ reacq'.mode = "NORMAL" /\ gate' = AnchoredGate(pos)
  BY <1>2, <1>5 DEF GlobalCycle
<1>6. /\ ~LostCycle
      /\ \A seg, refused : ~SeekingCycle(seg, refused)
      /\ \A seg : ~CommitCycle(pos, seg)
  BY <1>2 DEF LostCycle, SeekingCycle, CommitCycle
<1>7. \E qp : AnchorCycle(pos, qp) \/ TrackCycle(d, pos, qp) \/ GlobalCycle(pos, qp)
  BY <1>6 DEF Sees
<1>8. QED
  BY <1>3, <1>4, <1>5, <1>7, PythonAnchor

\* Nothing has been rejected when the episode starts.
LEMMA TrueInit == EpisodeInit => TrueInv
<1> SUFFICES ASSUME EpisodeInit PROVE TrueInv
  OBVIOUS
<1>1. PICK seed \in Arcs, believed \in BOOLEAN :
        /\ truth = [trueSoFar |-> believed, pos |-> IF believed THEN seed ELSE 0,
                    noted |-> IF believed THEN seed ELSE 0,
                    seed |-> seed, motion |-> seed + Margin]
        /\ ledger = GateStep(ResetGate(seed), 0, seed)
  BY DEF EpisodeInit
<1>2. seed \in Nat /\ MaxStep \in Nat
  BY ArcsAreNaturals, EpisodeConstants
<1>3. truth.trueSoFar => truth.pos = seed /\ truth.noted = seed
  BY <1>1
<1>4. ledger.accepted_arc = seed /\ ledger.has_last_pose
  <2>1. ResetGate(seed) \in Gates /\ ResetGate(seed).accepted_arc = seed
    BY <1>2, AnchoredAtType
  <2>2. ledger.accepted_arc = seed
    BY <1>1, <1>2, <2>1, AcceptedArcIsOneOfTwo
  <2>3. QED
    BY <1>1, <2>2 DEF GateStep
<1>5. /\ reject_run = 0 /\ reacq.mode = "NORMAL" /\ ~gate_initialized
      /\ jumps = 0 /\ skipped = 0
  BY DEF EpisodeInit, Init, FreshReacquire, BlankBooks
<1>6. QED
  BY <1>2, <1>3, <1>4, <1>5 DEF TrueInv

\* An honest iteration leaves both gates where they belong; any other ends the
\* premise.
LEMMA TrueNext ==
    BooksInv /\ TrueInv /\ [EpisodeNext]_episodeVars => TrueInv'
<1> SUFFICES ASSUME BooksInv, TrueInv, [EpisodeNext]_episodeVars PROVE TrueInv'
  OBVIOUS
<1>1. CASE UNCHANGED episodeVars
  BY <1>1 DEF episodeVars, books, cell, vars, core, TrueInv, Honest
<1>2. ASSUME NEW d \in 0..MaxStep, NEW diverged \in BOOLEAN, TrueStep(d, diverged)
      PROVE  TrueInv'
  <2>1. /\ truth.trueSoFar /\ truth.pos + d \in Arcs
        /\ Sees(truth.pos, truth.pos - truth.noted)
        /\ Audit(d, truth.pos + d, TRUE, diverged)
    BY <1>2 DEF TrueStep
  <2>2. /\ reject_run' = 0 /\ reacq'.mode = "NORMAL"
        /\ gate' = [accepted_arc |-> truth.pos, budget |-> 0,
                    has_last_pose |-> TRUE]
    BY <2>1, TrueCycle
  <2>3. truth \in Truths /\ reacq.mode = "NORMAL"
    BY <2>1 DEF BooksInv, EpisodeTypeOK, TrueInv
  <2>4. truth'.pos = truth.pos + d /\ truth'.noted = truth.pos
    BY <1>2, <2>3 DEF TrueStep, Truths
  <2>5. /\ truth.pos \in Nat /\ d \in Nat /\ d <= MaxStep /\ MaxStep \in Nat
    <3>1. truth.pos \in Nat
      BY <2>3, ArcsAreNaturals DEF Truths
    <3>2. QED BY <3>1, EpisodeConstants
  <2>6. /\ jumps = 0 /\ skipped = 0 /\ audit_mode' = audit_mode
    BY <2>1 DEF TrueInv, Audit, cell
  <2>7. CASE audit_mode = "raw"
    <3>1. jumps' = jumps /\ skipped' = skipped
      BY <2>1, <2>7 DEF Audit, Unbooked
    <3>2. ~Honest'
      BY <2>6, <2>7 DEF Honest
    <3>3. QED
      BY <2>2, <2>4, <2>5, <2>6, <3>1, <3>2 DEF TrueInv
  <2>8. CASE audit_mode # "raw"
    <3>1. Honest
      BY <2>8 DEF BooksInv, EpisodeTypeOK, cell, Cells, Honest
    <3>2. /\ ledger \in Gates /\ ledger.has_last_pose
          /\ ledger.accepted_arc = truth.pos
      BY <2>1, <3>1 DEF BooksInv, EpisodeTypeOK, TrueInv
    <3>3. Booked(d, truth.pos + d, TRUE)
      BY <2>1, <2>8 DEF Audit
    <3>4. /\ Accepts(ledger, d, truth.pos + d)
          /\ GateStep(ledger, d, truth.pos + d)
               = [accepted_arc |-> truth.pos + d, budget |-> 0,
                  has_last_pose |-> TRUE]
      BY <3>2, HonestStepAccepted
    <3>5. /\ ledger' = GateStep(ledger, d, truth.pos + d)
          /\ jumps' = jumps /\ skipped' = skipped
      BY <3>3, <3>4 DEF Booked
    <3>6. ledger'.accepted_arc = truth.pos + d /\ ledger'.has_last_pose
      BY <3>4, <3>5
    <3>7. QED
      BY <2>2, <2>4, <2>5, <2>6, <3>5, <3>6 DEF TrueInv
  <2>9. QED BY <2>7, <2>8
<1>3. ASSUME NEW moved, NEW raw, NEW near, NEW diverged,
             WrongStep(moved, raw, near, diverged)
      PROVE  TrueInv'
  <2>1. ~truth'.trueSoFar
    BY <1>3 DEF WrongStep, Astray, BooksInv, EpisodeTypeOK, Truths
  <2>2. QED BY <2>1 DEF TrueInv
<1>4. CASE RefusedStep
  <2>1. ~truth'.trueSoFar
    BY <1>4 DEF RefusedStep, BooksInv, EpisodeTypeOK, Truths
  <2>2. QED BY <2>1 DEF TrueInv
<1>5. CASE Timeout
  BY <1>5 DEF Timeout, books, cell, vars, core, TrueInv, Honest
<1>6. QED
  BY <1>1, <1>2, <1>3, <1>4, <1>5 DEF EpisodeNext

\* As long as every projection is right, neither gate rejects one, whatever the
\* robot's speed up to its limit.
THEOREM TruthSound == EpisodeSpec => []TruthNeverRejected
<1>1. BooksInv /\ TrueInv => TruthNeverRejected
  BY DEF TrueInv, TruthNeverRejected
<1>2. EpisodeInit => BooksInv /\ TrueInv
  BY BooksInit, TrueInit
<1>3. BooksInv /\ TrueInv /\ [EpisodeNext]_episodeVars => BooksInv' /\ TrueInv'
  BY BooksNext, TrueNext
<1>4. QED
  BY <1>1, <1>2, <1>3, PTL DEF EpisodeSpec

-----------------------------------------------------------------------------
(***************************************************************************)
(* Stalls.                                                                 *)
(***************************************************************************)

\* A product grows with its factor.
LEMMA ProductGrows ==
    ASSUME NEW g \in Nat, NEW a \in Nat, NEW b \in Nat, a <= b
    PROVE  g * a <= g * b
OBVIOUS

LEMMA ProductStep ==
    ASSUME NEW g \in Nat, NEW a \in Nat
    PROVE  g * a \in Nat /\ g * (a + 1) = g * a + g
OBVIOUS

\* The quotient of two naturals, by its bounds.
LEMMA QuotientBounds ==
    ASSUME NEW a \in Nat, NEW g \in Nat \ {0}
    PROVE  /\ (a \div g) \in Nat
           /\ g * (a \div g) <= a /\ a < g * (a \div g) + g
OBVIOUS

\* The quotient grows with the dividend, and by one with every divisor.
LEMMA QuotientGrows ==
    ASSUME NEW a \in Nat, NEW b \in Nat, NEW g \in Nat \ {0}, a <= b
    PROVE  /\ a \div g <= b \div g
           /\ a + g <= b => a \div g + 1 <= b \div g
<1> DEFINE p == a \div g
           q == b \div g
<1>1. p \in Nat /\ g * p <= a /\ a < g * p + g
  BY QuotientBounds
<1>2. q \in Nat /\ g * q <= b /\ b < g * q + g
  BY QuotientBounds
<1>3. g * p \in Nat /\ g * q \in Nat
  BY <1>1, <1>2
<1> HIDE DEF p, q
<1>4. p <= q
  <2>1. CASE q + 1 <= p
    <3>1. g * (q + 1) <= g * p
      BY <1>1, <1>2, <2>1, ProductGrows
    <3>2. g * (q + 1) = g * q + g
      BY <1>2
    <3>3. QED
      BY <1>1, <1>2, <1>3, <3>1, <3>2
  <2>2. QED BY <1>1, <1>2, <2>1
<1>5. ASSUME a + g <= b PROVE p + 1 <= q
  <2>1. CASE q <= p
    <3>1. g * q <= g * p
      BY <1>1, <1>2, <2>1, ProductGrows
    <3>2. QED
      BY <1>1, <1>2, <1>3, <1>5, <3>1
  <2>2. QED BY <1>1, <1>2, <2>1
<1>6. QED BY <1>4, <1>5 DEF p, q

GoesOn == done_reason = ""

\* While the episode goes on, the present window is not over, and each window
\* before it has gained ProgressMinGain.
StallInv ==
    GoesOn =>
        /\ step <= stall_checked_at + ProgressWindow
        /\ stall_mark <= watermark
        /\ stall_checked_at <= ProgressWindow * (stall_mark \div ProgressMinGain)

LEMMA StallInit == EpisodeInit => StallInv
<1> SUFFICES ASSUME EpisodeInit PROVE StallInv
  OBVIOUS
<1>1. step = 0 /\ stall_checked_at = 0 /\ stall_mark = 0 /\ watermark = 0
  BY DEF EpisodeInit, BlankBooks
<1>2. ProgressWindow \in Nat /\ ProgressMinGain \in Nat \ {0}
  BY EpisodeConstants
<1>3. 0 \div ProgressMinGain \in Nat
  BY <1>2, QuotientBounds
<1>4. 0 <= ProgressWindow * (0 \div ProgressMinGain)
  BY <1>2, <1>3
<1>5. 0 <= ProgressWindow * (stall_mark \div ProgressMinGain)
  BY <1>1, <1>4
<1>6. step <= stall_checked_at + ProgressWindow /\ stall_mark <= watermark
  BY <1>1, <1>2
<1>7. QED
  BY <1>1, <1>5, <1>6 DEF StallInv

\* A gain that does not fall short is there in full.
LEMMA GainIsReached ==
    ASSUME NEW a \in Nat, NEW b \in Nat, NEW c \in Nat, ~(a - b < c)
    PROVE  b + c <= a
  OBVIOUS

\* An iteration that goes on either stays in its window or opens the next one
\* with its gain.
LEMMA AuditKeepsWindow ==
    ASSUME BooksInv, BooksInv', StallInv, NEW moved, NEW raw, NEW near, NEW diverged,
           Running, Audit(moved, raw, near, diverged)
    PROVE  StallInv'
<1> SUFFICES ASSUME GoesOn'
             PROVE  /\ step' <= stall_checked_at' + ProgressWindow
                    /\ stall_mark' <= watermark'
                    /\ stall_checked_at'
                         <= ProgressWindow * (stall_mark' \div ProgressMinGain)
  BY DEF StallInv
<1> DEFINE p == stall_mark \div ProgressMinGain
           q == watermark' \div ProgressMinGain
<1>1. /\ step \in Nat /\ stall_checked_at \in Nat /\ stall_mark \in Nat
      /\ watermark \in Nat /\ watermark' \in Nat
  <2>1. EpisodeTypeOK /\ EpisodeTypeOK'
    BY DEF BooksInv
  <2>2. step \in 0..MaxSteps
    BY <2>1 DEF EpisodeTypeOK
  <2>3. QED
    BY <2>1, <2>2 DEF EpisodeTypeOK
<1>2. ProgressWindow \in Nat /\ ProgressMinGain \in Nat \ {0}
  BY EpisodeConstants
<1>3. /\ step <= stall_checked_at + ProgressWindow
      /\ stall_mark <= watermark
      /\ stall_checked_at <= ProgressWindow * p
  BY DEF StallInv, Running, GoesOn
<1>4. p \in Nat
  BY <1>1, <1>2, QuotientBounds
<1>5. ProgressWindow * p \in Nat
  BY <1>2, <1>4, ProductStep
<1>6. step' = step + 1 /\ ~Stalls
  <2>1. step' = step + 1 /\ done_reason' = Verdict(res', raw, diverged)
    BY DEF Audit
  <2>2. ~Stalls
    BY <2>1 DEF Verdict, EmergencyReason, GoesOn
  <2>3. QED BY <2>1, <2>2
<1>7. watermark <= watermark'
  <2>1. watermark' = Greater(watermark, Ruler(raw))
    BY DEF Audit
  <2>2. CASE watermark >= Ruler(raw)
    <3>1. watermark' = watermark
      BY <2>1, <2>2, Zenon DEF Greater
    <3>2. QED BY <1>1, <3>1
  <2>3. CASE ~(watermark >= Ruler(raw))
    <3>1. watermark' = Ruler(raw)
      BY <2>1, <2>3, Zenon DEF Greater
    <3>2. QED BY <1>1, <2>3, <3>1
  <2>4. QED BY <2>2, <2>3
<1> HIDE DEF p
<1>8. CASE ~StallChecked
  <2>1. stall_mark' = stall_mark /\ stall_checked_at' = stall_checked_at
    BY <1>8 DEF Audit, GoesOn
  <2>2. step < stall_checked_at + ProgressWindow
    BY <1>1, <1>2, <1>8 DEF StallChecked
  <2>3. stall_checked_at' <= ProgressWindow * (stall_mark' \div ProgressMinGain)
    BY <1>3, <2>1 DEF p
  <2>4. QED
    BY <1>1, <1>2, <1>3, <1>6, <1>7, <2>1, <2>2, <2>3
<1>9. CASE StallChecked
  <2>1. stall_mark' = watermark' /\ stall_checked_at' = step
    BY <1>9 DEF Audit, GoesOn
  <2>2. stall_mark + ProgressMinGain <= watermark'
    <3>1. ~(watermark' - stall_mark < ProgressMinGain)
      BY <1>6, <1>9, Zenon DEF Stalls
    <3>2. ProgressMinGain \in Nat
      BY <1>2
    <3>3. QED BY <1>1, <3>1, <3>2, GainIsReached
  <2>3. stall_mark <= watermark'
    BY <1>1, <1>3, <1>7
  <2>4. q \in Nat /\ p + 1 <= q
    BY <1>1, <1>2, <2>2, <2>3, QuotientBounds, QuotientGrows DEF p
  <2> HIDE DEF q
  <2>5. ProgressWindow * (p + 1) <= ProgressWindow * q
    BY <1>2, <1>4, <2>4, ProductGrows
  <2>6. /\ ProgressWindow * (p + 1) = ProgressWindow * p + ProgressWindow
        /\ ProgressWindow * q \in Nat
    BY <1>2, <1>4, <2>4, ProductStep
  <2>7. step <= ProgressWindow * q
    BY <1>1, <1>2, <1>3, <1>5, <2>5, <2>6
  <2>8. step' <= stall_checked_at' + ProgressWindow
    BY <1>1, <1>6, <2>1, EpisodeConstants
  <2>9. QED
    BY <1>1, <2>1, <2>7, <2>8 DEF q
<1>10. QED BY <1>8, <1>9

LEMMA StallNext ==
    BooksInv /\ BooksInv' /\ StallInv /\ [EpisodeNext]_episodeVars => StallInv'
<1> SUFFICES ASSUME BooksInv, BooksInv', StallInv, [EpisodeNext]_episodeVars
             PROVE  StallInv'
  OBVIOUS
<1>1. CASE UNCHANGED episodeVars
  BY <1>1 DEF episodeVars, books, StallInv, GoesOn
<1>2. CASE EpisodeNext
  <2>1. ASSUME ~GoesOn' PROVE StallInv'
    BY <2>1 DEF StallInv
  <2>2. \/ \E moved, raw, near, diverged :
             Running /\ Audit(moved, raw, near, diverged)
        \/ ~GoesOn'
    BY <1>2, IterationCases DEF BooksInv, GoesOn
  <2>3. QED
    BY <2>1, <2>2, AuditKeepsWindow
<1>3. QED BY <1>1, <1>2

\* An episode that goes on makes progress: one window of steps at most for each
\* ProgressMinGain of the watermark, and one to begin with.
THEOREM StallSound == EpisodeSpec => []LongRunsMakeProgress
<1>1. BooksInv /\ StallInv => LongRunsMakeProgress
  <2> SUFFICES ASSUME BooksInv, StallInv, GoesOn
               PROVE  step <= ProgressWindow
                                * ((watermark \div ProgressMinGain) + 1)
    BY DEF LongRunsMakeProgress, GoesOn
  <2> DEFINE p == stall_mark \div ProgressMinGain
             q == watermark \div ProgressMinGain
  <2>1. /\ step \in Nat /\ stall_checked_at \in Nat /\ stall_mark \in Nat
        /\ watermark \in Nat
    <3>1. EpisodeTypeOK
      BY DEF BooksInv
    <3>2. step \in 0..MaxSteps
      BY <3>1 DEF EpisodeTypeOK
    <3>3. QED
      BY <3>1, <3>2 DEF EpisodeTypeOK
  <2>2. ProgressWindow \in Nat /\ ProgressMinGain \in Nat \ {0}
    BY EpisodeConstants
  <2>3. /\ step <= stall_checked_at + ProgressWindow
        /\ stall_checked_at <= ProgressWindow * p
        /\ stall_mark <= watermark
    BY DEF StallInv
  <2>4. p \in Nat /\ q \in Nat /\ p <= q
    BY <2>1, <2>2, <2>3, QuotientBounds, QuotientGrows
  <2> HIDE DEF p, q
  <2>5. ProgressWindow * p <= ProgressWindow * q
    BY <2>2, <2>4, ProductGrows
  <2>6. /\ ProgressWindow * (q + 1) = ProgressWindow * q + ProgressWindow
        /\ ProgressWindow * p \in Nat /\ ProgressWindow * q \in Nat
    BY <2>2, <2>4, ProductStep
  <2>7. step <= ProgressWindow * (q + 1)
    BY <2>1, <2>2, <2>3, <2>5, <2>6
  <2>8. QED BY <2>7 DEF q
<1>2. EpisodeInit => BooksInv /\ StallInv
  BY BooksInit, StallInit
<1>3. BooksInv /\ StallInv /\ [EpisodeNext]_episodeVars => BooksInv' /\ StallInv'
  BY BooksNext, StallNext
<1>4. QED
  BY <1>1, <1>2, <1>3, PTL DEF EpisodeSpec
=============================================================================
