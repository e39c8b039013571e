--------------------------- MODULE PolicyRunsProofs ---------------------------
(***************************************************************************)
(* Theorems about the learning environment and those who run episodes in   *)
(* it, for every value of the constants.                                   *)
(***************************************************************************)
EXTENDS PolicyRuns, SequenceTheorems, TLAPS

-----------------------------------------------------------------------------
(***************************************************************************)
(* Operators.                                                              *)
(***************************************************************************)

LEMMA EnvConstants ==
    /\ Margin \in Nat /\ AllowanceCap \in Nat /\ StepCap \in Nat
    /\ VMin \in Int /\ VMax \in Int /\ RateV \in Nat
    /\ Delays \subseteq Nat /\ CompleteMargin \in Nat
    /\ Budget \in Nat /\ MaxEpisodes \in Nat
BY GateAssumption, EnvAssumption, RunsAssumption

\* There is a longest delay.
LEMMA LongestDelay == Longest \in Nat /\ \A k \in Delays : k <= Longest
<1>1. \E n \in Delays : \A k \in Delays : k <= n
  BY EnvAssumption
<1>2. Longest \in Delays /\ \A k \in Delays : k <= Longest
  BY <1>1 DEF Longest
<1>3. QED BY <1>2, EnvConstants

\* Every track has a length.
LEMMA TrackLengths ==
    ASSUME NEW n \in 1..Len(Tracks)
    PROVE  Tracks[n] \in Nat
BY EnvAssumption

LEMMA WithinType ==
    ASSUME NEW n \in Int, NEW lo \in Int, NEW hi \in Int
    PROVE  Within(n, lo, hi) \in Int
BY DEF Within

LEMMA SeenType ==
    ASSUME NEW p \in Int, NEW l \in Nat
    PROVE  Seen(p, l) \in Nat
BY DEF Seen, Within

LEMMA CommandType ==
    ASSUME NEW base \in Int, NEW residual \in Int, prev_cmd \in Int
    PROVE  Command(base, residual) \in Int
<1>1. base + residual \in Int
  OBVIOUS
<1>2. \A raw \in Int : Projected(raw) \in Int
  <2> TAKE raw \in Int
  <2> DEFINE clipped == Within(raw, VMin, VMax)
             change == Within(clipped - prev_cmd, -RateV, RateV)
  <2>1. clipped \in Int
    BY WithinType, EnvConstants
  <2> HIDE DEF clipped
  <2>2. clipped - prev_cmd \in Int /\ -RateV \in Int /\ RateV \in Int
    BY <2>1, EnvConstants
  <2>3. change \in Int
    BY <2>2, WithinType
  <2> HIDE DEF change
  <2>4. prev_cmd + change \in Int
    BY <2>3
  <2>5. Within(prev_cmd + change, VMin, VMax) \in Int
    BY <2>4, WithinType, EnvConstants
  <2>6. QED BY <2>5 DEF Projected, clipped, change
<1>3. QED BY <1>1, <1>2 DEF Command

\* One gate cycle moves accepted arc plus bank forward by no more than the
\* displacement it was shown, plus the margin when it accepts.
LEMMA LedgerStep ==
    ASSUME NEW g \in Gates, NEW moved \in Int, NEW raw \in Nat
    PROVE  /\ GateStep(g, moved, raw) \in Gates
           /\ g.accepted_arc <= GateStep(g, moved, raw).accepted_arc
           /\ GateStep(g, moved, raw).accepted_arc + GateStep(g, moved, raw).budget
                <= g.accepted_arc + g.budget + PhysicalDs(g, moved)
                   + (IF Accepts(g, moved, raw) THEN Margin ELSE 0)
           /\ PhysicalDs(g, moved) \in Nat
<1>1. /\ g.accepted_arc \in Nat /\ g.budget \in 0..AllowanceCap
  BY DEF Gates
<1>2. PhysicalDs(g, moved) \in Nat
  BY EnvConstants DEF PhysicalDs, Lesser, Greater
<1>3. /\ Banked(g, moved) \in 0..AllowanceCap
      /\ Banked(g, moved) <= g.budget + PhysicalDs(g, moved)
  BY <1>1, <1>2, EnvConstants DEF Banked, Lesser
<1>4. QED
  BY <1>1, <1>2, <1>3, EnvConstants
     DEF GateStep, AcceptedArc, SpentBudget, Accepts, Greater, Gates

\* A ledger is opened at its seed, with nothing in the bank.
LEMMA LedgerOpened ==
    ASSUME NEW seed \in Nat
    PROVE  /\ Ledger(seed) \in Gates
           /\ Ledger(seed).accepted_arc = seed
           /\ Ledger(seed).budget = 0
<1>1. ResetGate(seed) \in Gates
  BY EnvConstants DEF ResetGate, Gates
<1>2. Banked(ResetGate(seed), 0) = 0
  BY EnvConstants DEF ResetGate, Banked, PhysicalDs, Lesser
<1>3. Accepts(ResetGate(seed), 0, seed)
  BY <1>2, EnvConstants DEF Accepts, ResetGate
<1>4. Ledger(seed) \in Gates
  <2>1. GateStep(ResetGate(seed), 0, seed) \in Gates
    BY <1>1, LedgerStep
  <2>2. QED BY <2>1 DEF Ledger
<1>5. /\ Ledger(seed).accepted_arc = seed
      /\ Ledger(seed).budget = 0
  BY <1>3, Zenon DEF Ledger, GateStep, AcceptedArc, SpentBudget, Greater, ResetGate
<1>6. QED BY <1>4, <1>5

\* An episode is completed only with an arc near the end.
LEMMA CompletedNearEnd ==
    ASSUME NEW astray, NEW health,
           Termination(astray, health) = "completed"
    PROVE  gate'.accepted_arc >= Length - CompleteMargin
BY Zenon DEF Termination, Complete, NoReason

LEMMA TerminationType ==
    ASSUME NEW astray, NEW health
    PROVE  Termination(astray, health) \in Reasons
BY Zenon DEF Termination, Reasons

-----------------------------------------------------------------------------
(***************************************************************************)
(* Two sequences that end alike.                                           *)
(***************************************************************************)

EndsAlike(q, s) ==
    /\ Len(q) <= Len(s)
    /\ \A k \in 0..(Len(q) - 1) : q[Len(q) - k] = s[Len(s) - k]

\* They still do with one more element each.
LEMMA AppendAlike ==
    ASSUME NEW q \in Seq(Int), NEW s \in Seq(Int), NEW e \in Int, EndsAlike(q, s)
    PROVE  EndsAlike(Append(q, e), Append(s, e))
<1> DEFINE q1 == Append(q, e)
           s1 == Append(s, e)
<1>1. /\ Len(q) \in Nat /\ Len(s) \in Nat
      /\ Len(q1) = Len(q) + 1 /\ Len(s1) = Len(s) + 1
      /\ q1[Len(q) + 1] = e /\ s1[Len(s) + 1] = e
      /\ \A i \in 1..Len(q) : q1[i] = q[i]
      /\ \A i \in 1..Len(s) : s1[i] = s[i]
  BY AppendProperties, LenProperties
<1> HIDE DEF q1, s1
<1>2. Len(q) <= Len(s)
  BY DEF EndsAlike
<1>3. ASSUME NEW k \in 0..(Len(q1) - 1)
      PROVE  q1[Len(q1) - k] = s1[Len(s1) - k]
  <2>1. CASE k = 0
    BY <1>1, <2>1
  <2>2. CASE k # 0
    <3>1. k - 1 \in 0..(Len(q) - 1)
      BY <1>1, <2>2
    <3>2. q[Len(q) - (k - 1)] = s[Len(s) - (k - 1)]
      BY <3>1 DEF EndsAlike
    <3>3. /\ Len(q) - (k - 1) \in 1..Len(q) /\ Len(s) - (k - 1) \in 1..Len(s)
          /\ Len(q1) - k = Len(q) - (k - 1) /\ Len(s1) - k = Len(s) - (k - 1)
      BY <1>1, <1>2, <3>1
    <3>4. QED BY <1>1, <3>2, <3>3
  <2>3. QED BY <2>1, <2>2
<1>4. Len(q1) <= Len(s1)
  BY <1>1, <1>2
<1>5. QED BY <1>3, <1>4 DEF EndsAlike, q1, s1

\* Dropping the first element of a sequence leaves its end.
LEMMA TailKeepsEnd ==
    ASSUME NEW s \in Seq(Int), s # <<>>
    PROVE  /\ Tail(s) \in Seq(Int) /\ Len(Tail(s)) = Len(s) - 1
           /\ \A k \in 0..(Len(s) - 2) : Tail(s)[Len(Tail(s)) - k] = s[Len(s) - k]
<1>1. /\ Tail(s) \in Seq(Int) /\ Len(Tail(s)) = Len(s) - 1
      /\ \A i \in 1..(Len(s) - 1) : Tail(s)[i] = s[i + 1]
      /\ Len(s) \in Nat
  BY HeadTailProperties, LenProperties
<1>2. ASSUME NEW k \in 0..(Len(s) - 2)
      PROVE  Tail(s)[Len(Tail(s)) - k] = s[Len(s) - k]
  <2>1. Len(s) - 1 - k \in 1..(Len(s) - 1)
    BY <1>1
  <2>2. Tail(s)[Len(s) - 1 - k] = s[(Len(s) - 1 - k) + 1]
    BY <1>1, <2>1
  <2>3. (Len(s) - 1 - k) + 1 = Len(s) - k
    BY <1>1
  <2>4. QED BY <1>1, <2>2, <2>3
<1>3. QED BY <1>1, <1>2

\* The shorter of the two may lose its first element, and the longer may while
\* it stays as long as the shorter.
LEMMA TailsAlike ==
    ASSUME NEW q \in Seq(Int), NEW s \in Seq(Int), EndsAlike(q, s)
    PROVE  /\ q # <<>> => EndsAlike(Tail(q), s)
           /\ Len(q) < Len(s) => EndsAlike(q, Tail(s))
<1>1. Len(q) \in Nat /\ Len(s) \in Nat /\ Len(q) <= Len(s)
  BY LenProperties DEF EndsAlike
<1>2. ASSUME q # <<>> PROVE EndsAlike(Tail(q), s)
  <2>1. /\ Len(Tail(q)) = Len(q) - 1
        /\ \A k \in 0..(Len(q) - 2) : Tail(q)[Len(Tail(q)) - k] = q[Len(q) - k]
    BY <1>2, TailKeepsEnd
  <2>2. ASSUME NEW k \in 0..(Len(Tail(q)) - 1)
        PROVE  Tail(q)[Len(Tail(q)) - k] = s[Len(s) - k]
    <3>1. k \in 0..(Len(q) - 2) /\ k \in 0..(Len(q) - 1)
      BY <1>1, <2>1
    <3>2. Tail(q)[Len(Tail(q)) - k] = q[Len(q) - k]
      BY <2>1, <3>1
    <3>3. q[Len(q) - k] = s[Len(s) - k]
      BY <3>1 DEF EndsAlike
    <3>4. QED BY <3>2, <3>3
  <2>3. Len(Tail(q)) <= Len(s)
    BY <1>1, <2>1
  <2>4. QED BY <2>2, <2>3 DEF EndsAlike
<1>3. ASSUME Len(q) < Len(s) PROVE EndsAlike(q, Tail(s))
  <2>1. s # <<>>
    BY <1>1, <1>3, EmptySeq
  <2>2. /\ Len(Tail(s)) = Len(s) - 1
        /\ \A k \in 0..(Len(s) - 2) : Tail(s)[Len(Tail(s)) - k] = s[Len(s) - k]
    BY <2>1, TailKeepsEnd
  <2>3. ASSUME NEW k \in 0..(Len(q) - 1)
        PROVE  q[Len(q) - k] = Tail(s)[Len(Tail(s)) - k]
    <3>1. k \in 0..(Len(s) - 2)
      BY <1>1, <1>3
    <3>2. Tail(s)[Len(Tail(s)) - k] = s[Len(s) - k]
      BY <2>2, <3>1
    <3>3. q[Len(q) - k] = s[Len(s) - k]
      BY <2>3 DEF EndsAlike
    <3>4. QED BY <3>2, <3>3
  <2>4. Len(q) <= Len(Tail(s))
    BY <1>1, <1>3, <2>2
  <2>5. QED BY <2>3, <2>4 DEF EndsAlike
<1>4. QED BY <1>2, <1>3

\* A queue that drops its first element when it is longer than bound.
LEMMA KeptLength ==
    ASSUME NEW n \in Nat, NEW bound \in Nat, NEW s \in Seq(Int), s # <<>>,
           Len(s) = 1 + Lesser(n, bound),
           NEW kept, kept = IF Len(s) > bound THEN Tail(s) ELSE s
    PROVE  kept \in Seq(Int) /\ Len(kept) = Lesser(n + 1, bound)
<1>1. Tail(s) \in Seq(Int) /\ Len(Tail(s)) = Len(s) - 1
  BY TailKeepsEnd
<1>2. CASE Len(s) > bound
  BY <1>1, <1>2 DEF Lesser
<1>3. CASE ~(Len(s) > bound)
  BY <1>3 DEF Lesser
<1>4. QED BY <1>2, <1>3

-----------------------------------------------------------------------------
(***************************************************************************)
(* The inductive invariant.                                                *)
(***************************************************************************)

HistOK ==
    /\ hist \in [issued : Seq(Int), wheels : Int, paid : Nat, pos : Int,
                 far : Int, honest : BOOLEAN, motion : Nat]
    /\ Len(hist.issued) = Lesser(step_count, Longest + 2)

\* The last entry of the arc history is the ledger's arc; no more was paid than
\* that arc, and it and the bank are accounted for by motion.
PaidUpToLedger ==
    /\ step_count > 0 => arc_hist[step_count] = gate.accepted_arc
    /\ hist.paid <= IF step_count = 0 THEN 0 ELSE gate.accepted_arc
    /\ gate.accepted_arc + gate.budget <= hist.motion
    /\ Completed => gate.accepted_arc >= Length - CompleteMargin

\* The queue holds the commands issued last.
QueueOfIssued == EndsAlike(delay_buf, hist.issued) /\ OneStepLate

EnvInv == EnvTypeOK /\ HistOK /\ PaidUpToLedger /\ QueueOfIssued

RunsInv ==
    /\ EnvInv
    /\ driver \in Drivers /\ ep \in 0..MaxEpisodes /\ acting \in BOOLEAN

\* The history of an episode that has done nothing yet.
LEMMA FreshHist ==
    ASSUME NEW none \in Seq(Int), NEW start \in Int, NEW right \in BOOLEAN,
           NEW first \in Nat, NEW fresh,
           fresh = [issued |-> none, wheels |-> 0, paid |-> 0, pos |-> start,
                    far |-> start, honest |-> right, motion |-> first]
    PROVE  /\ fresh \in [issued : Seq(Int), wheels : Int, paid : Nat, pos : Int,
                         far : Int, honest : BOOLEAN, motion : Nat]
           /\ fresh.issued = none /\ fresh.paid = 0 /\ fresh.motion = first
OBVIOUS

\* The history after a step.
LEMMA NextHist ==
    ASSUME NEW s \in Seq(Int), NEW w \in Int, NEW p \in Nat, NEW at \in Int,
           NEW fst \in Int, NEW right \in BOOLEAN, NEW m \in Nat, NEW h,
           h = [issued |-> s, wheels |-> w, paid |-> p, pos |-> at,
                far |-> fst, honest |-> right, motion |-> m]
    PROVE  /\ h \in [issued : Seq(Int), wheels : Int, paid : Nat, pos : Int,
                     far : Int, honest : BOOLEAN, motion : Nat]
           /\ h.issued = s /\ h.wheels = w /\ h.paid = p /\ h.motion = m
OBVIOUS

LEMMA NoneQueued ==
    \A k \in Nat : Lesser(0, k + 1) = 0 /\ Lesser(0, k + 2) = 0 /\ ~(0 > k + 1)
BY DEF Lesser

\* An episode that was just opened.
LEMMA OpenedInv ==
    ASSUME track' \in 1..Len(Tracks), shaped' \in BOOLEAN,
           delay' \in Delays, lagged' \in BOOLEAN,
           NEW n, NEW start \in Int, NEW seed \in Nat, Opened(n, start, seed)
    PROVE  EnvInv'
<1>1. /\ step_count' = 0 /\ prev_cmd' = 0 /\ delay_buf' = <<>> /\ v' = 0
      /\ gate' = Ledger(seed)
      /\ arc_hist' = <<>> /\ reason' = NoReason
      /\ hist' = [issued |-> <<>>, wheels |-> 0, paid |-> 0, pos |-> start,
                  far |-> start, honest |-> (seed = Seen(start, Tracks[n])),
                  motion |-> seed + Margin]
  BY DEF Opened
<1>2. seed + Margin \in Nat /\ seed <= seed + Margin
  BY EnvConstants
<1>3. /\ hist' \in [issued : Seq(Int), wheels : Int, paid : Nat, pos : Int,
                    far : Int, honest : BOOLEAN, motion : Nat]
      /\ hist'.issued = <<>> /\ hist'.paid = 0 /\ hist'.motion = seed + Margin
  <2> DEFINE right == seed = Seen(start, Tracks[n])
             none == <<>>
             first == seed + Margin
  <2>1. hist' = [issued |-> none, wheels |-> 0, paid |-> 0, pos |-> start,
                 far |-> start, honest |-> right, motion |-> first]
    BY <1>1, Zenon
  <2>2. right \in BOOLEAN
    OBVIOUS
  <2>3. none \in Seq(Int)
    BY EmptySeq
  <2>4. first \in Nat
    BY <1>2
  <2> HIDE DEF right, none, first
  <2>5. /\ hist' \in [issued : Seq(Int), wheels : Int, paid : Nat, pos : Int,
                      far : Int, honest : BOOLEAN, motion : Nat]
        /\ hist'.issued = none /\ hist'.paid = 0 /\ hist'.motion = first
    BY <2>1, <2>2, <2>3, <2>4, FreshHist
  <2>6. QED BY <2>5, Zenon DEF none, first
<1>4. /\ Len(<<>>) = 0 /\ <<>> \in Seq(Int) /\ <<>> \in Seq(Nat)
      /\ NoReason \in Reasons
  BY EmptySeq DEF Reasons
<1>5. delay' \in Nat /\ Longest \in Nat
  BY EnvConstants, LongestDelay
<1>6. Lesser(0, delay' + 1) = 0 /\ Lesser(0, Longest + 2) = 0
  BY <1>5, NoneQueued, Zenon
<1>7. EnvTypeOK'
  BY <1>1, <1>4, <1>6, LedgerOpened DEF EnvTypeOK
<1>8. HistOK'
  BY <1>1, <1>3, <1>4, <1>6 DEF HistOK
<1>9. PaidUpToLedger'
  <2>1. gate'.accepted_arc = seed /\ gate'.budget = 0
    BY <1>1, LedgerOpened
  <2>2. NoReason # "completed"
    BY Zenon DEF NoReason
  <2>3. ~Completed'
    BY <1>1, <2>2 DEF Completed
  <2>4. QED BY <1>1, <1>2, <1>3, <2>1, <2>3 DEF PaidUpToLedger
<1>10. QueueOfIssued'
  <2>1. EndsAlike(<<>>, <<>>)
    BY <1>4 DEF EndsAlike
  <2>2. step_count' = 0 /\ delay_buf' = <<>> /\ hist'.issued = <<>>
    BY <1>1, <1>3, Zenon
  <2>3. ~(step_count' > delay' + 1)
    BY <1>5, <2>2, NoneQueued, Zenon
  <2>4. OneStepLate'
    BY <2>3, Zenon DEF OneStepLate
  <2>5. QED BY <2>1, <2>2, <2>4, Zenon DEF QueueOfIssued
<1>11. QED BY <1>7, <1>8, <1>9, <1>10 DEF EnvInv

\* What the plant is given is a number, and so is what it makes of it.
LEMMA AppliedType ==
    ASSUME EnvTypeOK, NEW cmd \in Int
    PROVE  /\ Applied(cmd) \in Int
           /\ SpeedsTowards(Applied(cmd)) \subseteq Int
<1>1. delay_buf \in Seq(Int) /\ v \in Int
  BY DEF EnvTypeOK
<1>2. /\ Append(delay_buf, cmd) \in Seq(Int)
      /\ Append(delay_buf, cmd) # <<>>
  BY <1>1, AppendProperties
<1>3. Head(Append(delay_buf, cmd)) \in Int
  BY <1>2, HeadTailProperties
<1>4. Applied(cmd) \in Int
  BY <1>3 DEF Applied
<1> HIDE DEF Applied
<1>5. SpeedsTowards(Applied(cmd)) \subseteq Int
  BY <1>1, <1>4 DEF SpeedsTowards
<1>6. QED BY <1>4, <1>5

\* The queue of a step: what it gives up is the command issued delay + 1 steps
\* before.
LEMMA QueueStep ==
    ASSUME EnvInv, NEW cmd \in Int,
           step_count' = step_count + 1, delay' = delay,
           delay_buf' = Queue(cmd),
           hist'.issued = Latest(Append(hist.issued, cmd)),
           hist'.wheels = Applied(cmd)
    PROVE  /\ delay_buf' \in Seq(Int)
           /\ Len(delay_buf') = Lesser(step_count', delay' + 1)
           /\ hist'.issued \in Seq(Int)
           /\ Len(hist'.issued) = Lesser(step_count', Longest + 2)
           /\ QueueOfIssued'
<1> DEFINE q == Append(delay_buf, cmd)
           s == Append(hist.issued, cmd)
<1>1. /\ delay_buf \in Seq(Int) /\ hist.issued \in Seq(Int)
      /\ Len(delay_buf) = Lesser(step_count, delay + 1)
      /\ Len(hist.issued) = Lesser(step_count, Longest + 2)
      /\ EndsAlike(delay_buf, hist.issued)
      /\ step_count \in Nat /\ delay \in Delays
  BY DEF EnvInv, EnvTypeOK, HistOK, QueueOfIssued
<1>2. delay \in Nat /\ Longest \in Nat /\ delay <= Longest
  BY <1>1, EnvConstants, LongestDelay
<1>3. /\ q \in Seq(Int) /\ s \in Seq(Int) /\ q # <<>> /\ s # <<>>
      /\ Len(q) = Len(delay_buf) + 1 /\ Len(s) = Len(hist.issued) + 1
      /\ EndsAlike(q, s)
  BY <1>1, AppendProperties, AppendAlike
<1>4. /\ delay_buf' = IF Len(q) > delay + 1 THEN Tail(q) ELSE q
      /\ hist'.wheels = IF Len(q) > delay + 1 THEN Head(q) ELSE cmd
      /\ hist'.issued = IF Len(s) > Longest + 2 THEN Tail(s) ELSE s
  BY DEF Queue, Applied, Overfull, Latest
<1> HIDE DEF q, s
<1>5. /\ Len(q) = 1 + Lesser(step_count, delay + 1)
      /\ Len(s) = 1 + Lesser(step_count, Longest + 2)
  BY <1>1, <1>2, <1>3 DEF Lesser
<1>6. /\ delay_buf' \in Seq(Int)
      /\ Len(delay_buf') = Lesser(step_count', delay' + 1)
  <2>1. delay + 1 \in Nat
    BY <1>2
  <2>2. QED BY <1>1, <1>3, <1>4, <1>5, <2>1, KeptLength
<1>7. /\ hist'.issued \in Seq(Int)
      /\ Len(hist'.issued) = Lesser(step_count', Longest + 2)
  <2>1. Longest + 2 \in Nat
    BY <1>2
  <2>2. QED BY <1>1, <1>3, <1>4, <1>5, <2>1, KeptLength
<1>8. EndsAlike(q, hist'.issued)
  <2>1. CASE Len(s) > Longest + 2
    <3>1. Len(q) < Len(s)
      BY <1>1, <1>2, <1>5, <2>1 DEF Lesser
    <3>2. QED BY <1>3, <1>4, <2>1, <3>1, TailsAlike
  <2>2. CASE ~(Len(s) > Longest + 2)
    BY <1>3, <1>4, <2>2
  <2>3. QED BY <2>1, <2>2
<1>9. EndsAlike(delay_buf', hist'.issued)
  <2>1. EndsAlike(Tail(q), hist'.issued)
    BY <1>3, <1>7, <1>8, TailsAlike
  <2>2. QED BY <1>4, <1>8, <2>1
<1>10. OneStepLate'
  <2> SUFFICES ASSUME step_count' > delay' + 1
               PROVE  hist'.wheels = hist'.issued[Len(hist'.issued) - (delay' + 1)]
    BY DEF OneStepLate, Issued
  <2>1. Len(q) = delay + 2
    BY <1>1, <1>2, <1>5 DEF Lesser
  <2>2. hist'.wheels = q[1]
    BY <1>2, <1>3, <1>4, <2>1
  <2>3. delay + 1 \in 0..(Len(q) - 1) /\ Len(q) - (delay + 1) = 1
    BY <1>2, <2>1
  <2>4. q[1] = hist'.issued[Len(hist'.issued) - (delay + 1)]
    BY <1>8, <2>3 DEF EndsAlike
  <2>5. QED BY <2>2, <2>4
<1>11. QED BY <1>6, <1>7, <1>9, <1>10 DEF QueueOfIssued

LEMMA Carried ==
    ASSUME NEW n \in Nat, NEW k \in Nat, NEW m \in Nat, NEW l \in Nat,
           NEW sum \in Nat, NEW more \in Nat,
           n + k <= m + l + more, m + l <= sum
    PROVE  n + k <= sum + more /\ sum + more \in Nat
OBVIOUS

\* The ledger of a step: the history goes on with its arc, and the progress
\* paid stays within it.
LEMMA PayStep ==
    ASSUME EnvInv, NEW moved \in Int, NEW raw \in Nat,
           step_count' = step_count + 1,
           gate' = GateStep(gate, moved, raw),
           arc_hist' = Append(arc_hist, gate'.accepted_arc)
    PROVE  /\ gate' \in Gates
           /\ arc_hist' \in Seq(Nat) /\ Len(arc_hist') = step_count'
           /\ arc_hist'[step_count'] = gate'.accepted_arc
           /\ Pay(raw) \in Nat
           /\ hist.paid + Pay(raw) <= gate'.accepted_arc
           /\ gate'.accepted_arc + gate'.budget
                <= hist.motion + PhysicalDs(gate, moved)
                   + (IF Accepts(gate, moved, raw) THEN Margin ELSE 0)
           /\ hist.motion + PhysicalDs(gate, moved)
                   + (IF Accepts(gate, moved, raw) THEN Margin ELSE 0) \in Nat
<1>1. /\ gate \in Gates /\ step_count \in Nat
      /\ arc_hist \in Seq(Nat) /\ Len(arc_hist) = step_count
      /\ hist.paid \in Nat /\ hist.motion \in Nat
      /\ step_count > 0 => arc_hist[step_count] = gate.accepted_arc
      /\ hist.paid <= IF step_count = 0 THEN 0 ELSE gate.accepted_arc
      /\ gate.accepted_arc + gate.budget <= hist.motion
  BY DEF EnvInv, EnvTypeOK, HistOK, PaidUpToLedger
<1> DEFINE gain == PhysicalDs(gate, moved)
                     + (IF Accepts(gate, moved, raw) THEN Margin ELSE 0)
           arc == gate'.accepted_arc
<1>2. /\ gate' \in Gates
      /\ gate.accepted_arc <= arc
      /\ arc + gate'.budget <= gate.accepted_arc + gate.budget + PhysicalDs(gate, moved)
                                + (IF Accepts(gate, moved, raw) THEN Margin ELSE 0)
      /\ PhysicalDs(gate, moved) \in Nat
  BY <1>1, LedgerStep
<1>3. /\ gate.accepted_arc \in Nat /\ gate.budget \in Nat
      /\ arc \in Nat /\ gate'.budget \in Nat
  BY <1>1, <1>2, EnvConstants DEF Gates
<1>4. gain \in Nat
  BY <1>2, EnvConstants
<1>5. arc + gate'.budget <= gate.accepted_arc + gate.budget + gain
  BY <1>2, <1>3, EnvConstants
<1> HIDE DEF arc
<1>6. arc_hist' = Append(arc_hist, arc)
  BY DEF arc
<1>7. /\ arc_hist' \in Seq(Nat) /\ Len(arc_hist') = step_count'
      /\ arc_hist'[step_count'] = arc
  BY <1>1, <1>3, <1>6, AppendProperties
<1>8. Pay(raw) = IF step_count = 0 THEN arc ELSE arc - gate.accepted_arc
  <2>1. arc_hist = <<>> <=> step_count = 0
    BY <1>1, EmptySeq
  <2>2. CASE step_count = 0
    <3>1. Pay(raw) = Greater(0, arc - 0)
      BY <2>1, <2>2 DEF Pay, arc
    <3>2. QED BY <1>3, <2>2, <3>1 DEF Greater
  <2>3. CASE step_count # 0
    <3>1. arc_hist[Len(arc_hist)] = gate.accepted_arc
      BY <1>1, <2>3
    <3>2. Pay(raw) = Greater(0, arc - gate.accepted_arc)
      BY <2>1, <2>3, <3>1, Zenon DEF Pay, arc
    <3>3. gate.accepted_arc <= arc
      BY <1>2 DEF arc
    <3>4. QED BY <1>3, <2>3, <3>2, <3>3 DEF Greater
  <2>4. QED BY <2>2, <2>3
<1>9. Pay(raw) \in Nat /\ hist.paid + Pay(raw) <= arc
  <2>1. gate.accepted_arc <= arc
    BY <1>2 DEF arc
  <2>2. CASE step_count = 0
    BY <1>1, <1>3, <1>8, <2>2
  <2>3. CASE step_count # 0
    BY <1>1, <1>3, <1>8, <2>1, <2>3
  <2>4. QED BY <2>2, <2>3
<1> HIDE DEF gain
<1>10. arc + gate'.budget <= hist.motion + gain /\ hist.motion + gain \in Nat
  <2>1. /\ hist.motion \in Nat
        /\ gate.accepted_arc + gate.budget <= hist.motion
    BY <1>1
  <2>2. QED BY <1>3, <1>4, <1>5, <2>1, Carried
<1>11. hist.motion + gain = hist.motion + PhysicalDs(gate, moved)
                   + (IF Accepts(gate, moved, raw) THEN Margin ELSE 0)
  BY <1>1, <1>2, EnvConstants DEF gain
<1>12. QED BY <1>2, <1>7, <1>9, <1>10, <1>11 DEF arc

\* A step keeps the invariant.
LEMMA StepInv ==
    ASSUME EnvInv,
           NEW base \in Int, NEW health, NEW residual \in Int, NEW speed \in Int,
           NEW raw \in Nat, NEW moved \in Int, NEW astray,
           Step(base, health, residual, speed, raw, moved, astray)
    PROVE  EnvInv'
<1> DEFINE cmd == Command(base, residual)
           pos == hist.pos + speed
           right == hist.honest /\ (raw = Seen(pos, Length) /\ moved = speed)
           paid == hist.paid + Pay(raw)
           motion == hist.motion + PhysicalDs(gate, moved)
                       + (IF Accepts(gate, moved, raw) THEN Margin ELSE 0)
           farthest == Greater(hist.far, pos)
           kept == Latest(Append(hist.issued, cmd))
<1>1. /\ step_count' = step_count + 1
      /\ prev_cmd' = cmd /\ delay_buf' = Queue(cmd) /\ v' = speed
      /\ gate' = GateStep(gate, moved, raw)
      /\ arc_hist' = Append(arc_hist, gate'.accepted_arc)
      /\ reason' = Termination(astray, health)
      /\ track' = track /\ shaped' = shaped /\ delay' = delay /\ lagged' = lagged
  BY Zenon DEF Step, settings
<1>2. hist' = [issued |-> kept, wheels |-> Applied(cmd), paid |-> paid,
               pos |-> pos, far |-> farthest, honest |-> right, motion |-> motion]
  BY Zenon DEF Step
<1>3. /\ track \in 1..Len(Tracks)
      /\ shaped \in BOOLEAN /\ delay \in Delays /\ lagged \in BOOLEAN
      /\ step_count \in Nat /\ prev_cmd \in Int
      /\ hist.issued \in Seq(Int) /\ hist.paid \in Nat
      /\ hist.pos \in Int /\ hist.far \in Int
  BY DEF EnvInv, EnvTypeOK, HistOK
<1>4. cmd \in Int
  BY <1>3, CommandType
<1>5. /\ gate' \in Gates
      /\ arc_hist' \in Seq(Nat) /\ Len(arc_hist') = step_count'
      /\ arc_hist'[step_count'] = gate'.accepted_arc
      /\ Pay(raw) \in Nat /\ paid <= gate'.accepted_arc
      /\ gate'.accepted_arc + gate'.budget <= motion
      /\ motion \in Nat
  BY <1>1, PayStep
<1>6. Applied(cmd) \in Int
  BY <1>4, AppliedType DEF EnvInv
<1>7. pos \in Int /\ farthest \in Int /\ paid \in Nat
  BY <1>3, <1>5 DEF Greater
<1>8. right \in BOOLEAN
  BY Zenon DEF EnvInv, HistOK
<1> HIDE DEF cmd, pos, right, paid, motion, farthest, kept
<1>9. hist'.issued = kept /\ hist'.wheels = Applied(cmd)
  BY <1>2
<1>10. /\ delay_buf' \in Seq(Int)
       /\ Len(delay_buf') = Lesser(step_count', delay' + 1)
       /\ hist'.issued \in Seq(Int)
       /\ Len(hist'.issued) = Lesser(step_count', Longest + 2)
       /\ QueueOfIssued'
  <2>1. hist'.issued = Latest(Append(hist.issued, cmd))
    BY <1>9, Zenon DEF kept
  <2>2. QED BY <1>1, <1>4, <1>9, <2>1, QueueStep
<1>11. /\ hist' \in [issued : Seq(Int), wheels : Int, paid : Nat, pos : Int,
                     far : Int, honest : BOOLEAN, motion : Nat]
       /\ hist'.paid = paid /\ hist'.motion = motion
  <2>1. kept \in Seq(Int)
    BY <1>9, <1>10, Zenon
  <2>2. motion \in Nat
    BY <1>5
  <2>3. QED BY <1>2, <1>6, <1>7, <1>8, <2>1, <2>2, NextHist
<1>12. EnvTypeOK'
  <2>1. reason' \in Reasons
    BY <1>1, TerminationType
  <2>2. step_count' \in Nat
    BY <1>1, <1>3
  <2>3. QED BY <1>1, <1>3, <1>4, <1>5, <1>10, <2>1, <2>2, Zenon DEF EnvTypeOK
<1>13. HistOK'
  BY <1>10, <1>11, Zenon DEF HistOK
<1>14. PaidUpToLedger'
  <2>1. step_count' # 0
    BY <1>1, <1>3
  <2>2. Completed' => gate'.accepted_arc >= Length' - CompleteMargin
    <3>1. ASSUME Completed' PROVE gate'.accepted_arc >= Length - CompleteMargin
      BY <1>1, <3>1, CompletedNearEnd DEF Completed
    <3>2. Length' = Length
      BY <1>1, Zenon DEF Length
    <3>3. QED BY <3>1, <3>2, Zenon
  <2>3. hist'.paid <= gate'.accepted_arc
    BY <1>5, <1>11, Zenon
  <2>4. gate'.accepted_arc + gate'.budget <= hist'.motion
    BY <1>5, <1>11, Zenon
  <2>5. QED BY <1>5, <2>1, <2>2, <2>3, <2>4, Zenon DEF PaidUpToLedger
<1>15. QED BY <1>10, <1>12, <1>13, <1>14, Zenon DEF EnvInv

\* Whatever the projection finds, a step is one with numbers.
LEMMA StepWithInv ==
    ASSUME EnvInv, NEW residuals \in SUBSET Int, StepWith(residuals)
    PROVE  EnvInv'
<1>1. PICK health \in Healths, residual \in residuals, astray \in BOOLEAN :
        \E base \in IF health = "ok" THEN BaselineSpeeds ELSE {0} :
        \E speed \in SpeedsTowards(Applied(Command(base, residual))) :
           \/ Step(base, health, residual, speed, Seen(hist.pos + speed, Length),
                   speed, astray)
           \/ \E raw \in Sightings, moved \in {0, speed} :
                 raw <= Length
                 /\ Step(base, health, residual, speed, raw, moved, astray)
  BY Zenon DEF StepWith
<1> DEFINE bases == IF health = "ok" THEN BaselineSpeeds ELSE {0}
<1>2. bases \subseteq Int
  <2>1. BaselineSpeeds \subseteq Int /\ {0} \subseteq Int
    BY EnvAssumption
  <2>2. QED BY <2>1, Zenon
<1>3. PICK base \in bases :
        \E speed \in SpeedsTowards(Applied(Command(base, residual))) :
           \/ Step(base, health, residual, speed, Seen(hist.pos + speed, Length),
                   speed, astray)
           \/ \E raw \in Sightings, moved \in {0, speed} :
                 raw <= Length
                 /\ Step(base, health, residual, speed, raw, moved, astray)
  BY <1>1, Zenon
<1> HIDE DEF bases
<1>4. base \in Int /\ residual \in Int
  BY <1>2
<1>5. Command(base, residual) \in Int
  <2>1. prev_cmd \in Int
    BY DEF EnvInv, EnvTypeOK
  <2>2. QED BY <1>4, <2>1, CommandType
<1>6. PICK speed \in SpeedsTowards(Applied(Command(base, residual))) :
           \/ Step(base, health, residual, speed, Seen(hist.pos + speed, Length),
                   speed, astray)
           \/ \E raw \in Sightings, moved \in {0, speed} :
                 raw <= Length
                 /\ Step(base, health, residual, speed, raw, moved, astray)
  BY <1>3, Zenon
<1>7. speed \in Int
  BY <1>5, <1>6, AppliedType DEF EnvInv
<1>8. ASSUME Step(base, health, residual, speed, Seen(hist.pos + speed, Length),
                  speed, astray)
      PROVE  EnvInv'
  <2>1. hist.pos \in Int /\ track \in 1..Len(Tracks)
    BY DEF EnvInv, HistOK, EnvTypeOK
  <2>2. Length \in Nat
    BY <2>1, TrackLengths DEF Length
  <2>3. hist.pos + speed \in Int
    BY <1>7, <2>1
  <2>4. Seen(hist.pos + speed, Length) \in Nat
    BY <2>2, <2>3, SeenType
  <2>5. QED BY <1>4, <1>7, <1>8, <2>4, StepInv
<1>9. ASSUME NEW raw \in Sightings, NEW moved \in {0, speed},
             Step(base, health, residual, speed, raw, moved, astray)
      PROVE  EnvInv'
  <2>1. raw \in Nat
    BY EnvAssumption
  <2>2. moved \in Int
    BY <1>7
  <2>3. QED BY <1>4, <1>7, <1>9, <2>1, <2>2, StepInv
<1>10. QED BY <1>6, <1>8, <1>9

\* The environment as it is built.
LEMMA InitInv == EnvInit => EnvInv
<1> SUFFICES ASSUME EnvInit PROVE EnvInv
  OBVIOUS
<1>1. /\ track = 1 /\ shaped = TRUE /\ delay = 0 /\ lagged = FALSE
      /\ step_count = 0 /\ prev_cmd = 0 /\ delay_buf = <<>> /\ v = 0
      /\ gate = Ledger(0)
      /\ arc_hist = <<>> /\ reason = NoReason
      /\ hist = [issued |-> <<>>, wheels |-> 0, paid |-> 0, pos |-> 0,
                 far |-> 0, honest |-> TRUE, motion |-> Margin]
  BY DEF EnvInit
<1>2. /\ hist \in [issued : Seq(Int), wheels : Int, paid : Nat, pos : Int,
                   far : Int, honest : BOOLEAN, motion : Nat]
      /\ hist.issued = <<>> /\ hist.paid = 0 /\ hist.motion = Margin
  <2>1. <<>> \in Seq(Int) /\ TRUE \in BOOLEAN
    BY EmptySeq
  <2>2. QED BY <1>1, <2>1, EnvConstants, FreshHist
<1>3. /\ Len(<<>>) = 0 /\ <<>> \in Seq(Int) /\ <<>> \in Seq(Nat)
      /\ NoReason \in Reasons
  BY EmptySeq DEF Reasons
<1>4. /\ delay \in Delays /\ delay \in Nat /\ Longest \in Nat
      /\ track \in 1..Len(Tracks)
  BY <1>1, EnvAssumption, RunsAssumption, LongestDelay
<1>5. Lesser(0, delay + 1) = 0 /\ Lesser(0, Longest + 2) = 0 /\ ~(0 > delay + 1)
  BY <1>4, NoneQueued, Zenon
<1>6. Ledger(0) \in Gates /\ Ledger(0).accepted_arc = 0 /\ Ledger(0).budget = 0
  BY LedgerOpened
<1>7. EnvTypeOK
  <2>1. shaped \in BOOLEAN /\ lagged \in BOOLEAN
    BY <1>1, Zenon
  <2>2. step_count \in Nat /\ prev_cmd \in Int /\ v \in Int
    BY <1>1
  <2>3. Len(delay_buf) = Lesser(step_count, delay + 1) /\ Len(arc_hist) = step_count
    BY <1>1, <1>3, <1>5, Zenon
  <2>4. QED BY <1>1, <1>3, <1>4, <1>6, <2>1, <2>2, <2>3, Zenon DEF EnvTypeOK
<1>8. HistOK
  BY <1>1, <1>2, <1>3, <1>5, Zenon DEF HistOK
<1>9. PaidUpToLedger
  <2>1. NoReason # "completed"
    BY Zenon DEF NoReason
  <2>2. ~Completed
    BY <1>1, <2>1, Zenon DEF Completed
  <2>3. gate.accepted_arc = 0 /\ gate.budget = 0 /\ step_count = 0
    BY <1>1, <1>6, Zenon
  <2>4. QED BY <1>2, <2>2, <2>3, EnvConstants DEF PaidUpToLedger
<1>10. QueueOfIssued
  <2>1. EndsAlike(<<>>, <<>>)
    BY <1>3 DEF EndsAlike
  <2>2. OneStepLate
    BY <1>1, <1>5, Zenon DEF OneStepLate
  <2>3. QED BY <1>1, <1>2, <2>1, <2>2, Zenon DEF QueueOfIssued
<1>11. QED BY <1>7, <1>8, <1>9, <1>10 DEF EnvInv

\* Whoever begins an episode has a track for it and a delay it may have.
LEMMA BeginSettings ==
    ASSUME RunsInv, Begin
    PROVE  /\ track' \in 1..Len(Tracks) /\ shaped' \in BOOLEAN
           /\ delay' \in Delays /\ lagged' \in BOOLEAN /\ acting' \in BOOLEAN
<1>1. /\ track \in 1..Len(Tracks) /\ ep \in Nat /\ Len(Tracks) \in Nat \ {0}
      /\ 0 \in Delays /\ StudyDelay \in Delays
  BY EnvAssumption, RunsAssumption DEF RunsInv, EnvInv, EnvTypeOK
<1>2. \/ Train \/ Curriculum \/ Evaluate \/ Attribute \/ Lookahead
  BY Zenon DEF Begin
<1>3. CASE Train
  BY <1>1, <1>3 DEF Train, Sampled
<1>4. CASE Curriculum
  <2>1. TrackOf(ep + 1) \in 1..Len(Tracks)
    BY <1>1 DEF TrackOf
  <2>2. QED BY <1>4, <2>1 DEF Curriculum, Sampled
<1>5. CASE Evaluate
  BY <1>5 DEF Evaluate, Built, Sampled
<1>6. CASE Attribute
  BY <1>1, <1>6 DEF Attribute, Built, Sampled
<1>7. CASE Lookahead
  BY <1>1, <1>7 DEF Lookahead, Built
<1>8. QED BY <1>2, <1>3, <1>4, <1>5, <1>6, <1>7

LEMMA BeginInv ==
    ASSUME RunsInv, Begin
    PROVE  RunsInv'
<1>1. /\ track' \in 1..Len(Tracks) /\ shaped' \in BOOLEAN
      /\ delay' \in Delays /\ lagged' \in BOOLEAN /\ acting' \in BOOLEAN
  BY BeginSettings
<1>2. PICK start \in Starts :
        \E seed \in {Seen(start, Tracks[track'])} \cup Sightings :
          Opened(track', start, seed)
  BY Zenon DEF Begin, ResetOn
<1>3. PICK seed \in {Seen(start, Tracks[track'])} \cup Sightings :
        Opened(track', start, seed)
  BY <1>2, Zenon
<1>4. start \in Int
  BY EnvAssumption
<1>5. seed \in Nat
  <2>1. Tracks[track'] \in Nat
    BY <1>1, TrackLengths
  <2>2. Seen(start, Tracks[track']) \in Nat
    BY <1>4, <2>1, SeenType
  <2>3. QED BY <2>2, EnvAssumption
<1>6. EnvInv'
  BY <1>1, <1>3, <1>4, <1>5, OpenedInv
<1>7. ep' \in 0..MaxEpisodes
  <2>1. ep \in 0..MaxEpisodes /\ MaxEpisodes \in Nat \ {0}
    BY RunsAssumption DEF RunsInv
  <2>2. ep' = ep + 1 /\ ep < IF driver \in {"train", "curriculum"} THEN MaxEpisodes ELSE 1
    BY Zenon DEF Begin
  <2>3. CASE driver \in {"train", "curriculum"}
    BY <2>1, <2>2, <2>3
  <2>4. CASE driver \notin {"train", "curriculum"}
    BY <2>1, <2>2, <2>4
  <2>5. QED BY <2>3, <2>4
<1>8. driver' \in Drivers
  BY Zenon DEF Begin, RunsInv
<1>9. QED BY <1>1, <1>6, <1>7, <1>8, Zenon DEF RunsInv

LEMMA ActInv ==
    ASSUME RunsInv, Act
    PROVE  RunsInv'
<1>1. PICK residuals \in SUBSET Int : StepWith(residuals)
  <2>1. Residuals \in SUBSET Int /\ {0} \in SUBSET Int
    BY EnvAssumption
  <2>2. StepWith(IF acting THEN Residuals ELSE {0})
    BY Zenon DEF Act
  <2>3. (IF acting THEN Residuals ELSE {0}) \in SUBSET Int
    BY <2>1, Zenon
  <2>4. QED BY <2>2, <2>3, Zenon
<1>2. EnvInv'
  BY <1>1, StepWithInv DEF RunsInv
<1>3. driver' = driver /\ ep' = ep /\ acting' = acting
  BY Zenon DEF Act
<1>4. QED BY <1>2, <1>3, Zenon DEF RunsInv

-----------------------------------------------------------------------------
(***************************************************************************)
(* Theorems.                                                               *)
(***************************************************************************)

\* The inductive invariant holds in every state of every driver.
THEOREM RunsInvariance == RunSpec => []RunsInv
<1>1. RunInit => RunsInv
  <2> SUFFICES ASSUME RunInit PROVE RunsInv
    OBVIOUS
  <2>1. EnvInv
    BY InitInv, Zenon DEF RunInit
  <2>2. driver \in Drivers /\ ep \in 0..MaxEpisodes /\ acting \in BOOLEAN
    <3>1. driver \in Drivers /\ ep = 0 /\ acting = FALSE
      BY Zenon DEF RunInit
    <3>2. ep \in 0..MaxEpisodes
      BY <3>1, EnvConstants
    <3>3. QED BY <3>1, <3>2, Zenon
  <2>3. QED BY <2>1, <2>2, Zenon DEF RunsInv
<1>2. RunsInv /\ [RunNext]_runVars => RunsInv'
  <2> SUFFICES ASSUME RunsInv, [RunNext]_runVars PROVE RunsInv'
    OBVIOUS
  <2>1. CASE Begin
    BY <2>1, BeginInv
  <2>2. CASE Act
    BY <2>2, ActInv
  <2>3. CASE UNCHANGED runVars
    BY <2>3 DEF runVars, envVars, settings, RunsInv, EnvInv, EnvTypeOK, HistOK,
        PaidUpToLedger, QueueOfIssued, OneStepLate, Issued, Completed,
        Length
  <2>4. QED BY <2>1, <2>2, <2>3 DEF RunNext
<1>3. QED BY <1>1, <1>2, PTL DEF RunSpec

\* Type correctness of the environment and of those who run episodes in it: the
\* queue never holds more than its delay plus one, and the history of arcs goes
\* with the steps.
THEOREM RunTypeCorrect == RunSpec => []RunTypeOK
<1>1. RunsInv => RunTypeOK
  BY DEF RunsInv, EnvInv, RunTypeOK
<1>2. QED BY <1>1, RunsInvariance, PTL

\* The progress an episode is paid for, and the arc it is completed with, are
\* covered by its first projection and the motion the ledger was shown, whatever
\* the projection found.
THEOREM EarnedSound == RunSpec => []EarnedByMotion
<1>1. RunsInv => EarnedByMotion
  <2> SUFFICES ASSUME RunsInv PROVE EarnedByMotion
    OBVIOUS
  <2>1. /\ hist.paid \in Nat /\ hist.motion \in Nat
        /\ gate.accepted_arc \in Nat /\ gate.budget \in Nat
        /\ CompleteMargin \in Nat /\ step_count \in Nat
    BY EnvConstants DEF RunsInv, EnvInv, HistOK, EnvTypeOK, Gates
  <2>2. Length \in Nat
    BY TrackLengths DEF RunsInv, EnvInv, EnvTypeOK, Length
  <2>3. /\ hist.paid <= IF step_count = 0 THEN 0 ELSE gate.accepted_arc
        /\ gate.accepted_arc + gate.budget <= hist.motion
        /\ Completed => gate.accepted_arc >= Length - CompleteMargin
    BY DEF RunsInv, EnvInv, PaidUpToLedger
  <2>4. hist.paid <= hist.motion
    <3>1. CASE step_count = 0
      BY <2>1, <2>3, <3>1
    <3>2. CASE step_count # 0
      BY <2>1, <2>3, <3>2
    <3>3. QED BY <3>1, <3>2
  <2>5. ASSUME Completed PROVE hist.motion >= Length - CompleteMargin
    BY <2>1, <2>2, <2>3, <2>5
  <2>6. QED BY <2>4, <2>5 DEF EarnedByMotion
<1>2. QED BY <1>1, RunsInvariance, PTL

\* However long the delay is, a command that comes out of the queue reaches the
\* plant one step later than configured: none is lost there, and none overtaken.
THEOREM OrderSound == RunSpec => []OneStepLate
<1>1. RunsInv => OneStepLate
  BY DEF RunsInv, EnvInv, QueueOfIssued
<1>2. QED BY <1>1, RunsInvariance, PTL
-----------------------------------------------------------------------------
(***************************************************************************)
(* The ledger of an honest robot.                                          *)
(***************************************************************************)

\* The ledger has a pose to measure the next one from.
Primed(g) == g.has_last_pose = TRUE

\* Every command on its way to the plant is one the ledger keeps up with, and
\* while every projection was right the ledger is where the robot got farthest.
\* The bank needs no mention: a decision allows a step without it.
HonestInv ==
    /\ Paced(v) /\ \A i \in 1..Len(delay_buf) : Paced(delay_buf[i])
    /\ Primed(gate)
    /\ hist.honest =>
         hist.pos <= hist.far /\ gate.accepted_arc = Seen(hist.far, Length)

\* The robot at rest is slow enough, and so is one at the speed limit.
LEMMA PacedSpeeds ==
    /\ Paced(0) /\ Paced(VMax)
    /\ \A residual \in Residuals \cup {0} : Paced(VMax + residual)
<1>1. Paced(VMax + 0) /\ \A residual \in Residuals \cup {0} : Paced(VMax + residual)
  BY PaceAssumption
<1>2. VMax + 0 = VMax /\ VMax \in Nat
  BY EnvAssumption
<1>3. Paced(VMax)
  BY <1>1, <1>2, Zenon
<1>4. Paced(0)
  BY EnvConstants DEF Paced
<1>5. QED BY <1>1, <1>3, <1>4

LEMMA PacedBelow ==
    ASSUME NEW a \in Int, NEW b \in Int, a <= b, Paced(b)
    PROVE  Paced(a)
BY EnvConstants DEF Paced

\* A ledger that is where the robot got farthest accepts the next right
\* projection, wherever the robot turns.
LEMMA LedgerFollows ==
    ASSUME NEW g \in Gates, Primed(g), NEW l \in Nat,
           NEW far \in Int, NEW pos \in Int, pos <= far,
           g.accepted_arc = Seen(far, l), NEW s \in Int, Paced(s)
    PROVE  GateStep(g, s, Seen(pos + s, l)).accepted_arc
             = Seen(Greater(far, pos + s), l)
<1> DEFINE a == g.accepted_arc
           raw == Seen(pos + s, l)
           bank == Banked(g, s)
           new == AcceptedArc(g, s, raw)
<1>1. g.budget \in Nat /\ g.budget <= AllowanceCap /\ a \in Nat
  BY EnvConstants DEF Gates
<1>2. bank >= 0 /\ bank \in Int /\ (s <= Margin + bank)
  <2> DEFINE ds == PhysicalDs(g, s)
  <2>1. ds = Lesser(Greater(s, 0), StepCap)
    BY DEF PhysicalDs, Primed
  <2>2. ds \in Nat /\ (s <= StepCap => s <= ds) /\ (s > StepCap => ds = StepCap)
    BY <2>1, EnvConstants DEF Lesser, Greater
  <2>3. bank = Lesser(g.budget + ds, AllowanceCap)
    BY DEF Banked
  <2> HIDE DEF ds, bank
  <2>4. bank \in Nat
    BY <1>1, <2>2, <2>3, EnvConstants DEF Lesser
  <2>5. s <= Margin + StepCap /\ s <= Margin + AllowanceCap
    BY DEF Paced
  <2>6. CASE g.budget + ds <= AllowanceCap
    BY <1>1, <2>2, <2>3, <2>5, <2>6, EnvConstants DEF Lesser
  <2>7. CASE ~(g.budget + ds <= AllowanceCap)
    BY <1>1, <2>2, <2>3, <2>5, <2>7, EnvConstants DEF Lesser
  <2>8. QED BY <2>4, <2>6, <2>7
<1>3. GateStep(g, s, raw).accepted_arc = new
  BY Zenon DEF GateStep
<1>4. a = Seen(far, l)
  OBVIOUS
<1>5. raw \in Nat /\ raw - a <= Margin + bank
  <2>1. raw \in Nat
    <3>1. pos + s \in Int
      OBVIOUS
    <3>2. QED BY <3>1, SeenType
  <2>2. CASE pos + s <= far
    BY <1>1, <1>2, <1>4, <2>1, <2>2, EnvConstants DEF Seen, Within
  <2>3. CASE pos + s > far
    <3>1. raw - a <= (pos + s) - far \/ raw <= a
      BY <1>4, <2>3 DEF Seen, Within
    <3>2. QED BY <1>1, <1>2, <2>1, <2>3, <3>1, EnvConstants
  <2>4. QED BY <2>2, <2>3
<1>6. new = Greater(a, raw)
  BY <1>5, Zenon DEF AcceptedArc, Accepts
<1>7. Greater(a, raw) = Seen(Greater(far, pos + s), l)
  BY <1>4 DEF Seen, Within, Greater
<1>8. QED BY <1>3, <1>6, <1>7

\* Whatever a healthy or a failed controller asks for, the command is slow
\* enough, with the projection or without.
LEMMA CommandPaced ==
    ASSUME RunsInv, NEW base \in Int, base <= VMax,
           NEW residual \in Residuals \cup {0}
    PROVE  Command(base, residual) \in Int /\ Paced(Command(base, residual))
<1>1. residual \in Int /\ VMax \in Nat /\ VMin <= VMax /\ VMin \in Int
  BY EnvAssumption
<1>2. prev_cmd \in Int
  BY DEF RunsInv, EnvInv, EnvTypeOK
<1>3. Command(base, residual) \in Int
  BY <1>1, <1>2, CommandType
<1>4. CASE shaped
  <2> DEFINE change == Within(Within(base + residual, VMin, VMax) - prev_cmd,
                              -RateV, RateV)
             r == prev_cmd + change
  <2>1. Command(base, residual) = Within(r, VMin, VMax)
    BY <1>4 DEF Command, Projected
  <2>2. Within(base + residual, VMin, VMax) \in Int
    BY <1>1, WithinType
  <2>3. Within(base + residual, VMin, VMax) - prev_cmd \in Int
    BY <1>2, <2>2
  <2>4. change \in Int
    <3>1. -RateV \in Int /\ RateV \in Int
      BY EnvConstants
    <3>2. QED BY <2>3, <3>1, WithinType
  <2> HIDE DEF change
  <2>5. r \in Int
    BY <1>2, <2>4
  <2> HIDE DEF r
  <2>6. Within(r, VMin, VMax) <= VMax
    BY <1>1, <2>5 DEF Within
  <2>7. QED BY <1>1, <1>3, <2>1, <2>6, PacedSpeeds, PacedBelow
<1>5. CASE ~shaped
  <2>1. Command(base, residual) = base + residual
    BY <1>5 DEF Command
  <2>2. base + residual <= VMax + residual /\ VMax + residual \in Int
    BY <1>1
  <2>3. QED BY <1>3, <2>1, <2>2, PacedSpeeds, PacedBelow
<1>6. QED BY <1>4, <1>5

\* The queue holds and gives up nothing but such commands, and a lag comes to
\* no speed beyond them.
LEMMA QueuePaced ==
    ASSUME RunsInv, HonestInv, NEW cmd \in Int, Paced(cmd)
    PROVE  /\ \A i \in 1..Len(Queue(cmd)) : Paced(Queue(cmd)[i])
           /\ \A speed \in SpeedsTowards(Applied(cmd)) : Paced(speed)
<1> DEFINE q == Append(delay_buf, cmd)
<1>1. /\ delay_buf \in Seq(Int) /\ v \in Int
      /\ Paced(v) /\ \A i \in 1..Len(delay_buf) : Paced(delay_buf[i])
  BY DEF RunsInv, EnvInv, EnvTypeOK, HonestInv
<1>2. /\ q \in Seq(Int) /\ q # <<>> /\ Len(q) = Len(delay_buf) + 1
      /\ q[Len(delay_buf) + 1] = cmd
      /\ \A i \in 1..Len(delay_buf) : q[i] = delay_buf[i]
      /\ Len(delay_buf) \in Nat
  BY <1>1, AppendProperties, LenProperties
<1>3. Queue(cmd) = (IF Overfull(q) THEN Tail(q) ELSE q)
      /\ Applied(cmd) = (IF Overfull(q) THEN Head(q) ELSE cmd)
  BY Zenon DEF Queue, Applied
<1> HIDE DEF q
<1>4. \A i \in 1..Len(q) : Paced(q[i])
  <2> TAKE i \in 1..Len(q)
  <2>1. CASE i = Len(delay_buf) + 1
    BY <1>2, <2>1
  <2>2. CASE i # Len(delay_buf) + 1
    <3>1. i \in 1..Len(delay_buf)
      BY <1>2, <2>2
    <3>2. QED BY <1>1, <1>2, <3>1
  <2>3. QED BY <2>1, <2>2
<1>5. /\ Len(Tail(q)) = Len(q) - 1 /\ Len(q) \in Nat
      /\ \A i \in 1..(Len(q) - 1) : Tail(q)[i] = q[i + 1]
      /\ Head(q) = q[1]
  BY <1>2, HeadTailProperties, LenProperties
<1>6. \A i \in 1..Len(Tail(q)) : Paced(Tail(q)[i])
  <2> TAKE i \in 1..Len(Tail(q))
  <2>1. i \in 1..(Len(q) - 1) /\ i + 1 \in 1..Len(q)
    BY <1>5
  <2>2. QED BY <1>4, <1>5, <2>1
<1>7. Paced(Head(q))
  <2>1. 1 \in 1..Len(q)
    BY <1>2, <1>5
  <2>2. QED BY <1>4, <1>5, <2>1
<1>8. \A i \in 1..Len(Queue(cmd)) : Paced(Queue(cmd)[i])
  BY <1>3, <1>4, <1>6, Zenon
<1>9. Paced(Applied(cmd)) /\ Applied(cmd) \in Int
  <2>1. Applied(cmd) \in Int
    BY AppliedType DEF RunsInv, EnvInv
  <2>2. QED BY <1>3, <1>7, <2>1
<1> DEFINE top == Applied(cmd)
<1> HIDE DEF top
<1>10. ASSUME NEW speed \in SpeedsTowards(top)
       PROVE  Paced(speed)
  <2>1. top \in Int /\ Paced(top)
    BY <1>9 DEF top
  <2>2. speed \in Int /\ (speed <= top \/ speed <= v)
    BY <1>1, <2>1 DEF SpeedsTowards
  <2>3. QED BY <1>1, <2>1, <2>2, PacedBelow
<1>11. QED BY <1>8, <1>10, Zenon DEF top
\* A step of the environment keeps the ledger with an honest robot.
LEMMA StepHonest ==
    ASSUME RunsInv, HonestInv,
           NEW base \in Int, base <= VMax, NEW health,
           NEW residual \in Residuals \cup {0},
           NEW speed \in SpeedsTowards(Applied(Command(base, residual))),
           NEW raw \in Nat, NEW moved \in Int, NEW astray,
           Step(base, health, residual, speed, raw, moved, astray)
    PROVE  HonestInv'
<1> DEFINE cmd == Command(base, residual)
           pos == hist.pos + speed
           farthest == Greater(hist.far, pos)
           right == raw = Seen(pos, Length) /\ moved = speed
<1>1. cmd \in Int /\ Paced(cmd)
  BY CommandPaced
<1>2. /\ speed \in Int /\ Paced(speed)
      /\ \A i \in 1..Len(Queue(cmd)) : Paced(Queue(cmd)[i])
  BY <1>1, AppliedType, QueuePaced DEF RunsInv, EnvInv
<1>3. /\ delay_buf' = Queue(cmd) /\ v' = speed
      /\ gate' = GateStep(gate, moved, raw)
      /\ track' = track
  BY Zenon DEF Step, settings
<1>4. /\ hist'.pos = pos /\ hist'.far = farthest
      /\ hist'.honest <=> (hist.honest /\ right)
  BY Zenon DEF Step
<1>5. Primed(gate')
  BY <1>3, Zenon DEF GateStep, Primed
<1>6. /\ gate \in Gates /\ hist.pos \in Int /\ hist.far \in Int /\ Length \in Nat
      /\ Primed(gate)
  BY TrackLengths DEF RunsInv, EnvInv, EnvTypeOK, HistOK, Length, HonestInv
<1>7. ASSUME hist'.honest
      PROVE  hist'.pos <= hist'.far /\ gate'.accepted_arc = Seen(hist'.far, Length')
  <2>1. /\ hist.pos <= hist.far /\ gate.accepted_arc = Seen(hist.far, Length)
        /\ raw = Seen(pos, Length) /\ moved = speed
    BY <1>4, <1>7 DEF HonestInv
  <2>2. GateStep(gate, speed, Seen(hist.pos + speed, Length)).accepted_arc
          = Seen(Greater(hist.far, hist.pos + speed), Length)
    BY <1>2, <1>6, <2>1, LedgerFollows
  <2>3. gate'.accepted_arc = Seen(farthest, Length)
    BY <1>3, <2>1, <2>2, Zenon
  <2>4. pos <= farthest
    BY <1>2, <1>6 DEF Greater
  <2>5. Length' = Length
    BY <1>3, Zenon DEF Length
  <2>6. QED BY <1>4, <2>3, <2>4, <2>5, Zenon
<1>8. Paced(v') /\ \A i \in 1..Len(delay_buf') : Paced(delay_buf'[i])
  BY <1>2, <1>3, Zenon
<1>9. QED BY <1>5, <1>7, <1>8, Zenon DEF HonestInv

\* Every step of a driver does.
LEMMA ActHonest ==
    ASSUME RunsInv, HonestInv, Act
    PROVE  HonestInv'
<1> DEFINE allowed == IF acting THEN Residuals ELSE {0}
<1>1. StepWith(allowed) /\ allowed \subseteq Residuals \cup {0}
  BY Zenon DEF Act
<1> HIDE DEF allowed
<1>2. PICK health \in Healths, residual \in allowed, astray \in BOOLEAN :
        \E base \in IF health = "ok" THEN BaselineSpeeds ELSE {0} :
        \E speed \in SpeedsTowards(Applied(Command(base, residual))) :
           \/ Step(base, health, residual, speed, Seen(hist.pos + speed, Length),
                   speed, astray)
           \/ \E raw \in Sightings, moved \in {0, speed} :
                 raw <= Length
                 /\ Step(base, health, residual, speed, raw, moved, astray)
  BY <1>1, Zenon DEF StepWith
<1> DEFINE bases == IF health = "ok" THEN BaselineSpeeds ELSE {0}
<1>3. \A b \in bases : b \in Int /\ b <= VMax
  <2>1. /\ \A b \in BaselineSpeeds : b \in Int /\ b <= VMax
        /\ 0 \in Int /\ 0 <= VMax
    BY EnvAssumption
  <2>2. QED BY <2>1, Zenon
<1>4. PICK base \in bases :
        \E speed \in SpeedsTowards(Applied(Command(base, residual))) :
           \/ Step(base, health, residual, speed, Seen(hist.pos + speed, Length),
                   speed, astray)
           \/ \E raw \in Sightings, moved \in {0, speed} :
                 raw <= Length
                 /\ Step(base, health, residual, speed, raw, moved, astray)
  BY <1>2, Zenon
<1> HIDE DEF bases
<1>5. base \in Int /\ base <= VMax /\ residual \in Residuals \cup {0}
  BY <1>1, <1>3
<1>6. PICK speed \in SpeedsTowards(Applied(Command(base, residual))) :
           \/ Step(base, health, residual, speed, Seen(hist.pos + speed, Length),
                   speed, astray)
           \/ \E raw \in Sightings, moved \in {0, speed} :
                 raw <= Length
                 /\ Step(base, health, residual, speed, raw, moved, astray)
  BY <1>4, Zenon
<1>7. speed \in Int
  <2>1. Command(base, residual) \in Int
    BY <1>5, CommandPaced
  <2>2. QED BY <1>6, <2>1, AppliedType DEF RunsInv, EnvInv
<1>8. hist.pos + speed \in Int /\ Length \in Nat
  BY <1>7, TrackLengths DEF RunsInv, EnvInv, EnvTypeOK, HistOK, Length
<1>9. ASSUME Step(base, health, residual, speed, Seen(hist.pos + speed, Length),
                  speed, astray)
      PROVE  HonestInv'
  <2>1. Seen(hist.pos + speed, Length) \in Nat
    BY <1>8, SeenType
  <2>2. QED BY <1>5, <1>6, <1>7, <1>9, <2>1, StepHonest
<1>10. ASSUME NEW raw \in Sightings, NEW moved \in {0, speed},
              Step(base, health, residual, speed, raw, moved, astray)
       PROVE  HonestInv'
  <2>1. raw \in Nat /\ moved \in Int
    BY <1>7, EnvAssumption
  <2>2. QED BY <1>5, <1>6, <1>10, <2>1, StepHonest
<1>11. QED BY <1>6, <1>9, <1>10, Zenon

\* A new episode opens its ledger where its first projection was.
LEMMA BeginHonest ==
    ASSUME RunsInv, Begin
    PROVE  HonestInv'
<1>1. track' \in 1..Len(Tracks)
  BY BeginSettings
<1>2. PICK start \in Starts :
        \E seed \in {Seen(start, Tracks[track'])} \cup Sightings :
          Opened(track', start, seed)
  BY Zenon DEF Begin, ResetOn
<1>3. PICK seed \in {Seen(start, Tracks[track'])} \cup Sightings :
        Opened(track', start, seed)
  BY <1>2, Zenon
<1>4. start \in Int /\ seed \in Nat
  <2>1. start \in Int
    BY EnvAssumption
  <2>2. Seen(start, Tracks[track']) \in Nat
    BY <1>1, <2>1, TrackLengths, SeenType
  <2>3. QED BY <2>1, <2>2, EnvAssumption
<1>5. /\ delay_buf' = <<>> /\ v' = 0 /\ gate' = Ledger(seed)
      /\ hist'.pos = start /\ hist'.far = start
      /\ hist'.honest <=> seed = Seen(start, Tracks[track'])
  BY <1>3, Zenon DEF Opened
<1>6. Primed(gate') /\ gate'.accepted_arc = seed
  BY <1>4, <1>5, LedgerOpened, Zenon DEF Ledger, GateStep, Primed
<1>7. Len(<<>>) = 0 /\ start <= start
  BY <1>4
<1>8. \A i \in 1..Len(delay_buf') : Paced(delay_buf'[i])
  BY <1>5, <1>7
<1>9. QED
  BY <1>5, <1>6, <1>7, <1>8, PacedSpeeds, Zenon DEF HonestInv, Length

LEMMA HonestInvariance == RunSpec => []HonestInv
<1>1. RunInit => HonestInv
  <2> SUFFICES ASSUME RunInit PROVE HonestInv
    OBVIOUS
  <2>1. /\ track = 1 /\ delay_buf = <<>> /\ v = 0 /\ gate = Ledger(0)
        /\ hist.pos = 0 /\ hist.far = 0
    BY Zenon DEF RunInit, EnvInit
  <2>2. Primed(gate) /\ gate.accepted_arc = 0
    BY <2>1, LedgerOpened, Zenon DEF Ledger, GateStep, Primed
  <2>3. Seen(0, Length) = 0 /\ 0 <= 0 /\ Len(<<>>) = 0
    <3>1. Length \in Nat
      BY <2>1, EnvAssumption, TrackLengths DEF Length
    <3>2. QED BY <3>1 DEF Seen, Within
  <2>4. \A i \in 1..Len(delay_buf) : Paced(delay_buf[i])
    BY <2>1, <2>3
  <2>5. QED BY <2>1, <2>2, <2>3, <2>4, PacedSpeeds, Zenon DEF HonestInv
<1>2. RunsInv /\ HonestInv /\ [RunNext]_runVars => HonestInv'
  <2> SUFFICES ASSUME RunsInv, HonestInv, [RunNext]_runVars PROVE HonestInv'
    OBVIOUS
  <2>1. CASE Begin
    BY <2>1, BeginHonest
  <2>2. CASE Act
    BY <2>2, ActHonest
  <2>3. CASE UNCHANGED runVars
    BY <2>3, Zenon DEF runVars, envVars, settings, HonestInv, Length
  <2>4. QED BY <2>1, <2>2, <2>3 DEF RunNext
<1>3. QED BY <1>1, <1>2, RunsInvariance, PTL DEF RunSpec

\* As long as the projections are right, the ledger holds exactly the arc the
\* robot got farthest at, with any delay or lag, and whatever the policy adds
\* within the pace the ledger allows: no honest progress is withheld.
THEOREM HonestSound == RunSpec => []HonestMotionIsPaid
<1>1. HonestInv => HonestMotionIsPaid
  BY DEF HonestInv, HonestMotionIsPaid
<1>2. QED BY <1>1, HonestInvariance, PTL
=============================================================================
