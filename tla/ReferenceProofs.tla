---------------------------- MODULE ReferenceProofs ----------------------------
(***************************************************************************)
(* What the shaping of a reference and the projection onto it promise, for *)
(* every path, every limit and every pose.                                 *)
(***************************************************************************)
EXTENDS ReferenceTracking, FiniteSetTheorems, SequenceTheorems,
        WellFoundedInduction, TLAPS

-----------------------------------------------------------------------------
(***************************************************************************)
(* Induction over indices.  What is proved by it is the set of indices at  *)
(* which it holds.                                                         *)
(***************************************************************************)

\* A set of naturals that is not empty has a least element.
LEMMA LeastNatural ==
  ASSUME NEW T, T \subseteq Nat, T # {}
  PROVE  \E x \in T : \A y \in T : x <= y
PROOF
<1>1. PICK x \in T : \A y \in T : ~(<<y, x>> \in OpToRel(<, Nat))
  BY NatLessThanWellFounded, WFMin
<1>2. ASSUME NEW y \in T
      PROVE  x <= y
  <2>1. x \in Nat /\ y \in Nat
    OBVIOUS
  <2>2. ~(y < x)
    BY <1>1, <2>1 DEF OpToRel
  <2> QED
    BY <2>1, <2>2
<1> QED
  BY <1>2

\* What holds of the first index, and of the next whenever of one.
LEMMA Upwards ==
  ASSUME NEW n \in Nat, NEW S, n > 0 => 1 \in S,
         \A i \in 1..n : i \in S /\ i + 1 \in 1..n => i + 1 \in S
  PROVE  1..n \subseteq S
PROOF
<1> DEFINE T == (1..n) \ S
<1>1. SUFFICES ASSUME T # {}
               PROVE  FALSE
  OBVIOUS
<1>2. T \subseteq Nat
  OBVIOUS
<1>3. PICK x \in T : \A y \in T : x <= y
  BY <1>1, <1>2, LeastNatural
<1>4. x \in 1..n /\ x \notin S
  OBVIOUS
<1>5. x # 1
  BY <1>4
<1>6. x - 1 \in 1..n /\ (x - 1) + 1 = x
  BY <1>4, <1>5
<1>7. x - 1 \in S
  <2>1. x - 1 \notin T
    BY <1>3, <1>4
  <2> QED
    BY <1>6, <2>1
<1> QED
  BY <1>4, <1>6, <1>7

\* What holds of the last index, and of the one before whenever of one.
LEMMA Downwards ==
  ASSUME NEW n \in Nat, NEW S, n > 0 => n \in S,
         \A i \in 1..n : i \in S /\ i - 1 \in 1..n => i - 1 \in S
  PROVE  1..n \subseteq S
PROOF
<1> DEFINE Mirrored == {i \in 1..n : n + 1 - i \in S}
<1>1. n > 0 => 1 \in Mirrored
  OBVIOUS
<1>2. ASSUME NEW i \in 1..n, i \in Mirrored, i + 1 \in 1..n
      PROVE  i + 1 \in Mirrored
  <2>1. /\ n + 1 - i \in S /\ n + 1 - i \in 1..n
        /\ (n + 1 - i) - 1 = n + 1 - (i + 1)
        /\ n + 1 - (i + 1) \in 1..n
    BY <1>2
  <2> QED
    BY <1>2, <2>1
<1>3. 1..n \subseteq Mirrored
  <2> HIDE DEF Mirrored
  <2> QED
    BY <1>1, <1>2, Upwards
<1>4. ASSUME NEW i \in 1..n
      PROVE  i \in S
  <2>1. n + 1 - i \in Mirrored
    BY <1>3
  <2>2. n + 1 - (n + 1 - i) = i
    OBVIOUS
  <2> QED
    BY <2>1, <2>2
<1> QED
  BY <1>4

\* A function of the indices may be given by its first value, or its last, and
\* a step from the index before, or after.
StepsOn(n, V) == [(1..n) \X V -> V]

Begins(f, n, first, next) ==
    \A i \in 1..n : f[i] = IF i = 1 THEN first ELSE next[<<i, f[i - 1]>>]

Ends(f, n, last, next) ==
    \A i \in 1..n : f[i] = IF i = n THEN last ELSE next[<<i, f[i + 1]>>]

LEMMA DefinedUpwards ==
  ASSUME NEW n \in Nat, NEW V, NEW first \in V, NEW next \in StepsOn(n, V)
  PROVE  \E f \in [1..n -> V] : Begins(f, n, first, next)
PROOF
<1> USE DEF Begins, StepsOn
<1> DEFINE Obeys(f, m) == Begins(f, m, first, next)
           S == {m \in 1..n : \E f \in [1..m -> V] : Obeys(f, m)}
<1>1. n > 0 => 1 \in S
  <2> DEFINE g == [i \in 1..1 |-> first]
  <2>1. g \in [1..1 -> V] /\ \A i \in 1..1 : i = 1 /\ g[i] = first
    OBVIOUS
  <2>2. Obeys(g, 1)
    BY Zenon, <2>1
  <2>3. n > 0 => 1 \in 1..n
    OBVIOUS
  <2> QED
    BY Zenon, <2>1, <2>2, <2>3
<1>2. ASSUME NEW m \in 1..n, m \in S, m + 1 \in 1..n
      PROVE  m + 1 \in S
  <2>1. PICK f \in [1..m -> V] : Obeys(f, m)
    BY <1>2
  <2> DEFINE g == [i \in 1..(m + 1) |-> IF i = m + 1 THEN next[<<m + 1, f[m]>>] ELSE f[i]]
  <2>2. f[m] \in V
    OBVIOUS
  <2>3. g \in [1..(m + 1) -> V]
    BY <1>2, <2>2
  <2>5. g[m + 1] = next[<<m + 1, f[m]>>] /\ \A i \in 1..m : g[i] = f[i]
    OBVIOUS
  <2> HIDE DEF g
  <2>4. ASSUME NEW i \in 1..(m + 1)
        PROVE  g[i] = IF i = 1 THEN first ELSE next[<<i, g[i - 1]>>]
    <3>1. CASE i = m + 1
      <4>1. i # 1 /\ i - 1 = m /\ m \in 1..m
        BY <3>1
      <4>2. g[i - 1] = f[m]
        BY <2>5, <4>1
      <4> QED
        BY <2>5, <3>1, <4>1, <4>2
    <3>2. CASE i # m + 1
      <4>1. i \in 1..m /\ (i # 1 => i - 1 \in 1..m)
        BY <3>2
      <4>2. f[i] = IF i = 1 THEN first ELSE next[<<i, f[i - 1]>>]
        BY <2>1, <4>1
      <4>3. g[i] = f[i] /\ (i # 1 => g[i - 1] = f[i - 1])
        BY <2>5, <4>1
      <4> QED
        BY <4>2, <4>3
    <3> QED
      BY <3>1, <3>2
  <2> QED
    BY <1>2, <2>3, <2>4
<1>3. 1..n \subseteq S
  <2> HIDE DEF S
  <2> QED
    BY <1>1, <1>2, Upwards
<1>4. CASE n = 0
  BY <1>4
<1>5. CASE n > 0
  BY <1>3, <1>5
<1> QED
  BY <1>4, <1>5

LEMMA DefinedDownwards ==
  ASSUME NEW n \in Nat, NEW V, NEW last \in V, NEW next \in StepsOn(n, V)
  PROVE  \E f \in [1..n -> V] : Ends(f, n, last, next)
PROOF
<1> DEFINE mirrored == [p \in (1..n) \X V |-> next[<<n + 1 - p[1], p[2]>>]]
<1>1. mirrored \in StepsOn(n, V)
  <2>1. ASSUME NEW p \in (1..n) \X V
        PROVE  next[<<n + 1 - p[1], p[2]>>] \in V
    <3>1. n + 1 - p[1] \in 1..n /\ p[2] \in V
      OBVIOUS
    <3> QED
      BY <3>1 DEF StepsOn
  <2> QED
    BY <2>1 DEF StepsOn
<1>0. \A k \in 1..n, v \in V : mirrored[<<k, v>>] = next[<<n + 1 - k, v>>]
  OBVIOUS
<1> HIDE DEF mirrored
<1>2. PICK g \in [1..n -> V] : Begins(g, n, last, mirrored)
  BY Zenon, <1>1, DefinedUpwards
<1> DEFINE f == [i \in 1..n |-> g[n + 1 - i]]
<1>3. f \in [1..n -> V]
  OBVIOUS
<1>4. ASSUME NEW i \in 1..n
      PROVE  f[i] = IF i = n THEN last ELSE next[<<i, f[i + 1]>>]
  <2> DEFINE k == n + 1 - i
  <2>1. k \in 1..n /\ f[i] = g[k] /\ n + 1 - k = i
    OBVIOUS
  <2>2. CASE i = n
    <3>1. k = 1
      BY <2>2
    <3> QED
      BY <1>2, <2>1, <2>2, <3>1 DEF Begins
  <2>3. CASE i # n
    <3>1. k # 1 /\ k - 1 \in 1..n /\ i + 1 \in 1..n /\ n + 1 - (i + 1) = k - 1
      BY <2>3
    <3>2. f[i + 1] = g[k - 1] /\ g[k - 1] \in V
      BY <3>1
    <3>3. g[k] = mirrored[<<k, g[k - 1]>>]
      BY <1>2, <2>1, <3>1 DEF Begins
    <3>4. mirrored[<<k, g[k - 1]>>] = next[<<i, g[k - 1]>>]
      BY <1>0, <2>1, <3>2
    <3> QED
      BY <2>1, <2>3, <3>2, <3>3, <3>4
  <2> QED
    BY <2>2, <2>3
<1> QED
  BY <1>3, <1>4 DEF Ends

-----------------------------------------------------------------------------
(***************************************************************************)
(* The shaping passes.                                                     *)
(***************************************************************************)

LEMMA ShapingConstants ==
  /\ Ramp \in Nat /\ Brake \in Nat /\ VEnd \in Nat
  /\ Square(VEnd) \in Int
BY ReferenceAssumption DEF Square

\* The forward pass does what it says, from each sample to the next.
LEMMA RampedSteps ==
  ASSUME NEW n \in Nat \ {0}, NEW e \in [1..n -> Int], NEW arc \in [1..n -> Int]
  PROVE  /\ Ramped(e, arc) \in [1..n -> Int]
         /\ \A i \in 1..n : Ramped(e, arc)[i] =
              IF i = 1 \/ arc[i] <= arc[i - 1] THEN e[i]
              ELSE Least(e[i], Ramped(e, arc)[i - 1] + Ramp * (arc[i] - arc[i - 1]))
PROOF
<1> DEFINE To(i, v) == IF i = 1 \/ arc[i] <= arc[i - 1] THEN e[i]
                       ELSE Least(e[i], v + Ramp * (arc[i] - arc[i - 1]))
           Pass(f) == [i \in DOMAIN e |-> To(i, f[i - 1])]
           next == [p \in (1..n) \X Int |-> To(p[1], p[2])]
<1>1. ASSUME NEW i \in 1..n, NEW v \in Int
      PROVE  To(i, v) \in Int
  <2>1. i # 1 => i - 1 \in 1..n
    OBVIOUS
  <2>2. CASE i = 1 \/ arc[i] <= arc[i - 1]
    BY <2>2
  <2>3. CASE ~(i = 1 \/ arc[i] <= arc[i - 1])
    <3>1. /\ arc[i] \in Int /\ arc[i - 1] \in Int /\ e[i] \in Int
          /\ Ramp * (arc[i] - arc[i - 1]) \in Int
      BY <2>1, <2>3, ShapingConstants
    <3> QED
      BY <2>3, <3>1 DEF Least
  <2> QED
    BY <2>2, <2>3
<1>2. next \in StepsOn(n, Int)
  BY <1>1 DEF StepsOn
<1>3. \A i \in 1..n, v \in Int : next[<<i, v>>] = To(i, v)
  OBVIOUS
<1>4. \A v : To(1, v) = e[1]
  OBVIOUS
<1> HIDE DEF To, next
<1>5. 1 \in 1..n /\ e[1] \in Int
  OBVIOUS
<1>6. PICK f \in [1..n -> Int] : Begins(f, n, e[1], next)
  BY <1>2, <1>5, DefinedUpwards
<1>7. ASSUME NEW i \in 1..n
      PROVE  f[i] = To(i, f[i - 1])
  <2>1. CASE i = 1
    BY <1>4, <1>6, <2>1 DEF Begins
  <2>2. CASE i # 1
    <3>1. i - 1 \in 1..n
      BY <2>2
    <3> QED
      BY <1>3, <1>6, <2>2, <3>1 DEF Begins
  <2> QED
    BY <2>1, <2>2
<1>8. f = Pass(f)
  BY <1>7
<1> DEFINE ramped == Ramped(e, arc)
<1>9. ramped = CHOOSE g : g = Pass(g)
  BY DEF Ramped, To
<1>10. ramped = Pass(ramped)
  BY <1>8, <1>9
<1> HIDE DEF ramped
<1>11. \A i \in 1..n : ramped[i] = To(i, ramped[i - 1])
  BY <1>10
<1>12. \A i \in 1..n : ramped[i] \in Int
  <2> DEFINE S == {i \in 1..n : ramped[i] \in Int}
  <2>1. 1 \in S
    BY <1>4, <1>5, <1>11
  <2>2. ASSUME NEW i \in 1..n, i \in S, i + 1 \in 1..n
        PROVE  i + 1 \in S
    <3>1. ramped[i + 1] = To(i + 1, ramped[i])
      BY <1>11, <2>2
    <3> QED
      BY <1>1, <2>2, <3>1
  <2>3. 1..n \subseteq S
    <3> HIDE DEF S
    <3> QED
      BY <2>1, <2>2, Upwards
  <2> QED
    BY <2>3
<1>13. ramped \in [1..n -> Int]
  BY <1>10, <1>12
<1> QED
  BY <1>11, <1>13 DEF ramped, To

\* The backward pass does what it says, from each sample to the one before.
BrakeRule(n, e, arc, f) ==
    \A i \in 1..n : f[i] =
        IF i = n THEN Least(e[n], Square(VEnd))
        ELSE IF arc[i + 1] <= arc[i] THEN e[i]
        ELSE Least(e[i], f[i + 1] + Brake * (arc[i + 1] - arc[i]))

LEMMA BrakedSteps ==
  ASSUME NEW n \in Nat \ {0}, NEW e \in [1..n -> Int], NEW arc \in [1..n -> Int],
         Len(arc) = n
  PROVE  /\ Braked(e, arc) \in [1..n -> Int]
         /\ BrakeRule(n, e, arc, Braked(e, arc))
PROOF
<1> DEFINE To(i, v) == IF i = n THEN Least(e[n], Square(VEnd))
                       ELSE IF arc[i + 1] <= arc[i] THEN e[i]
                       ELSE Least(e[i], v + Brake * (arc[i + 1] - arc[i]))
           Pass(f) == [i \in DOMAIN e |-> To(i, f[i + 1])]
           next == [p \in (1..n) \X Int |-> To(p[1], p[2])]
<1>1. ASSUME NEW i \in 1..n, NEW v \in Int
      PROVE  To(i, v) \in Int
  <2>1. i # n => i + 1 \in 1..n
    OBVIOUS
  <2>2. CASE i = n
    BY <2>2, ShapingConstants DEF Least
  <2>3. CASE i # n /\ arc[i + 1] <= arc[i]
    BY <2>3
  <2>4. CASE i # n /\ ~(arc[i + 1] <= arc[i])
    <3>1. /\ arc[i] \in Int /\ arc[i + 1] \in Int /\ e[i] \in Int
          /\ Brake * (arc[i + 1] - arc[i]) \in Int
      BY <2>1, <2>4, ShapingConstants
    <3> QED
      BY <2>4, <3>1 DEF Least
  <2> QED
    BY <2>2, <2>3, <2>4
<1>2. next \in StepsOn(n, Int)
  BY <1>1 DEF StepsOn
<1>3. \A i \in 1..n, v \in Int : next[<<i, v>>] = To(i, v)
  OBVIOUS
<1>4. \A v : To(n, v) = Least(e[n], Square(VEnd))
  OBVIOUS
<1> HIDE DEF To, next
<1>5. n \in 1..n /\ Least(e[n], Square(VEnd)) \in Int
  BY ShapingConstants DEF Least
<1>6. PICK f \in [1..n -> Int] : Ends(f, n, Least(e[n], Square(VEnd)), next)
  BY <1>2, <1>5, DefinedDownwards
<1>7. ASSUME NEW i \in 1..n
      PROVE  f[i] = To(i, f[i + 1])
  <2>1. CASE i = n
    BY <1>4, <1>6, <2>1 DEF Ends
  <2>2. CASE i # n
    <3>1. i + 1 \in 1..n
      BY <2>2
    <3> QED
      BY <1>3, <1>6, <2>2, <3>1 DEF Ends
  <2> QED
    BY <2>1, <2>2
<1>8. f = Pass(f)
  BY <1>7
<1> DEFINE braked == Braked(e, arc)
<1>9. braked = CHOOSE g : g = Pass(g)
  BY DEF Braked, To
<1>10. braked = Pass(braked)
  BY <1>8, <1>9
<1> HIDE DEF braked
<1>11. \A i \in 1..n : braked[i] = To(i, braked[i + 1])
  BY <1>10
<1>12. \A i \in 1..n : braked[i] \in Int
  <2> DEFINE S == {i \in 1..n : braked[i] \in Int}
  <2>1. n \in S
    BY <1>4, <1>5, <1>11
  <2>2. ASSUME NEW i \in 1..n, i \in S, i - 1 \in 1..n
        PROVE  i - 1 \in S
    <3>1. braked[i - 1] = To(i - 1, braked[i])
      BY <1>11, <2>2
    <3> QED
      BY <1>1, <2>2, <3>1
  <2>3. 1..n \subseteq S
    <3> HIDE DEF S
    <3> QED
      BY <2>1, <2>2, Downwards
  <2> QED
    BY <2>3
<1>13. braked \in [1..n -> Int]
  BY <1>10, <1>12
<1> QED
  BY <1>11, <1>13 DEF braked, To, BrakeRule

\* How much more energy than at sample k the limits on speeding up and braking
\* allow at sample i.
Slack(arc, k, i) ==
    IF k <= i THEN Ramp * (arc[i] - arc[k]) ELSE Brake * (arc[k] - arc[i])

\* The caps that the two passes respect.
Ended(e, n) == [e EXCEPT ![n] = Least(@, Square(VEnd))]

\* What can be gained from each sample to each other at a given rate.
Gains(n, rate, arc) == [i \in 1..n |-> [k \in 1..n |-> rate * (arc[i] - arc[k])]]

\* Gains add up along the way.
Additive(n, gain) ==
    /\ gain \in [1..n -> [1..n -> Int]]
    /\ \A i, k, l \in 1..n : gain[i][l] = gain[i][k] + gain[k][l]
    /\ \A i \in 1..n : gain[i][i] = 0
    /\ \A i, k \in 1..n : k <= i => gain[i][k] >= 0

LEMMA GainsAdd ==
  ASSUME NEW n \in Nat, NEW rate \in Nat, NEW arc \in [1..n -> Int],
         \A i, k \in 1..n : k <= i => arc[k] <= arc[i]
  PROVE  Additive(n, Gains(n, rate, arc))
PROOF
<1> DEFINE gain == Gains(n, rate, arc)
<1>1. \A i, k \in 1..n : gain[i][k] = rate * (arc[i] - arc[k])
  BY DEF Gains
<1>2. ASSUME NEW a \in Int, NEW b \in Int, NEW c \in Int
      PROVE  /\ rate * (a - b) \in Int
             /\ rate * (a - c) = rate * (a - b) + rate * (b - c)
             /\ rate * (a - a) = 0
  <2>1. rate * (a - c) = rate * (a - b) + rate * (b - c)
    OBVIOUS
  <2>2. rate * (a - b) \in Int /\ a - a = 0 /\ rate * 0 = 0
    OBVIOUS
  <2> QED
    BY <2>1, <2>2
<1>3. ASSUME NEW a \in Int, NEW b \in Int, b <= a
      PROVE  rate * (a - b) >= 0
  <2>1. ASSUME NEW d \in Nat
        PROVE  rate * d >= 0
    OBVIOUS
  <2>2. a - b \in Nat
    BY <1>3
  <2> QED
    BY <2>1, <2>2
<1>4. \A i \in 1..n : arc[i] \in Int
  OBVIOUS
<1>5. gain \in [1..n -> [1..n -> Int]]
  <2>1. \A i, k \in 1..n : rate * (arc[i] - arc[k]) \in Int
    BY <1>2, <1>4
  <2> QED
    BY <2>1 DEF Gains
<1> HIDE DEF gain
<1>6. ASSUME NEW i \in 1..n, NEW k \in 1..n, NEW l \in 1..n
      PROVE  gain[i][l] = gain[i][k] + gain[k][l]
  <2>1. rate * (arc[i] - arc[l]) = rate * (arc[i] - arc[k]) + rate * (arc[k] - arc[l])
    BY <1>2, <1>4
  <2> QED
    BY Zenon, <1>1, <2>1
<1>7. ASSUME NEW i \in 1..n
      PROVE  gain[i][i] = 0
  <2>1. rate * (arc[i] - arc[i]) = 0
    BY <1>2, <1>4
  <2> QED
    BY Zenon, <1>1, <2>1
<1>8. ASSUME NEW i \in 1..n, NEW k \in 1..n, k <= i
      PROVE  gain[i][k] >= 0
  BY Zenon, <1>1, <1>3, <1>4, <1>8
<1> QED
  BY <1>5, <1>6, <1>7, <1>8 DEF gain, Additive

\* What is below the energy built up from some sample on.
LEMMA Reached ==
  ASSUME NEW b \in Int, NEW r \in Int, NEW e \in Int, NEW u \in Int,
         b <= r, r <= e + u
  PROVE  b <= e + u
OBVIOUS

\* The bound of a sample carried one step on, and what a sample keeps that was
\* bounded before.
LEMMA Passed ==
  ASSUME NEW x \in Int, NEW y \in Int, NEW c \in Int, NEW d \in Int, NEW g \in Int,
         x <= y + d, y <= c + g
  PROVE  x <= c + (d + g) /\ x <= c + (g + d)
OBVIOUS

LEMMA Regained ==
  ASSUME NEW b, NEW r \in Int, NEW c \in Int, NEW g \in Int, NEW u \in Int,
         g >= 0, r <= c + u, b = c + (g + u)
  PROVE  b >= r
OBVIOUS

Lesser(x, a, b) == x <= a /\ x <= b /\ (x = a \/ x = b)

LEMMA LeastIsLesser ==
  ASSUME NEW a \in Int, NEW b \in Int
  PROVE  Lesser(Least(a, b), a, b)
BY DEF Least, Lesser

\* Arcs measured from a third one.
LEMMA Measured ==
  ASSUME NEW a \in Int, NEW b \in Int, NEW c \in Int, a <= b
  PROVE  a - c \in Int /\ b - c \in Int /\ a - c <= b - c /\ (b - c) - (a - c) = b - a
OBVIOUS

LEMMA MeasuredFrom ==
  ASSUME NEW a \in Int, NEW b \in Int, a <= b
  PROVE  b - a \in Int /\ 0 \in Int /\ 0 <= b - a /\ b - a <= b - a /\ (b - a) - 0 = b - a
OBVIOUS

\* What there is to gain between samples.
LEMMA Gained ==
  ASSUME NEW n, NEW gain, Additive(n, gain), NEW i \in 1..n, NEW k \in 1..n
  PROVE  gain[i][k] \in Int /\ gain[i][i] = 0 /\ (k <= i => gain[i][k] >= 0)
PROOF
BY Zenon DEF Additive

\* A sum of two.
Totals(x, c, g) == x = c + g

LEMMA GainedOn ==
  ASSUME NEW n, NEW gain, Additive(n, gain),
         NEW i \in 1..n, NEW k \in 1..n, NEW l \in 1..n
  PROVE  Totals(gain[i][l], gain[i][k], gain[k][l])
PROOF
BY Zenon DEF Additive, Totals

\* What the passes do to each sample.
RampsUp(n, e, r, up) ==
    \A i \in 1..n : r[i] = IF i = 1 THEN e[i] ELSE Least(e[i], r[i - 1] + up[i][i - 1])

BrakesDown(n, r, b, down, stop) ==
    \A i \in 1..n : b[i] = IF i = n THEN Least(r[i], stop)
                           ELSE Least(r[i], b[i + 1] + down[i + 1][i])

\* What they do not exceed, and what each attains.
BuiltUp(n, e, r, up) == \A i \in 1..n : \A k \in 1..i : r[i] <= e[k] + up[i][k]

AllBuilt(n, e, r, up) == \A i \in 1..n : \E k \in 1..i : r[i] = e[k] + up[i][k]

WithinCaps(n, b, cap, up, down) ==
    \A i, k \in 1..n : b[i] <= cap[k] + (IF k <= i THEN up[i][k] ELSE down[k][i])

AtCaps(n, b, cap, up, down) ==
    \A i \in 1..n : \E k \in 1..n :
        b[i] = cap[k] + (IF k <= i THEN up[i][k] ELSE down[k][i])

CapsEnded(n, e, cap, stop) ==
    \A i \in 1..n : cap[i] = IF i = n THEN Least(e[i], stop) ELSE e[i]

\* The forward pass: from no sample on is more gained than the rate allows, and
\* each sample has all that its own cap or an earlier one leaves it.
LEMMA ForwardIsGreatest ==
  ASSUME NEW n \in Nat \ {0}, NEW e \in [1..n -> Int], NEW r \in [1..n -> Int],
         NEW up, Additive(n, up), RampsUp(n, e, r, up)
  PROVE  BuiltUp(n, e, r, up) /\ AllBuilt(n, e, r, up)
PROOF
<1>1. r[1] = e[1] /\ 1 \in 1..n /\ up[1][1] = 0
  <2>1. 1 \in 1..n
    OBVIOUS
  <2>2. up[1][1] = 0
    BY <2>1, Gained
  <2> QED
    BY Zenon, <2>1, <2>2 DEF RampsUp
<1>2. ASSUME NEW i \in 1..n, i + 1 \in 1..n
      PROVE  /\ r[i] \in Int /\ r[i + 1] \in Int /\ e[i + 1] \in Int
             /\ up[i + 1][i] \in Int /\ up[i + 1][i + 1] = 0
             /\ r[i + 1] <= e[i + 1]
             /\ r[i + 1] <= r[i] + up[i + 1][i]
             /\ \/ r[i + 1] = e[i + 1]
                \/ r[i + 1] = r[i] + up[i + 1][i]
  <2>1. i + 1 # 1 /\ (i + 1) - 1 = i
    OBVIOUS
  <2>2. r[i + 1] = Least(e[i + 1], r[i] + up[i + 1][i])
    BY Zenon, <1>2, <2>1 DEF RampsUp
  <2>3. e[i + 1] \in Int /\ r[i] \in Int /\ r[i + 1] \in Int
    BY <1>2
  <2>4. up[i + 1][i] \in Int /\ up[i + 1][i + 1] = 0
    BY <1>2, Gained
  <2>5. r[i] + up[i + 1][i] \in Int
    <3>1. \A x, y \in Int : x + y \in Int
      OBVIOUS
    <3> QED
      BY Zenon, <2>3, <2>4, <3>1
  <2>6. Lesser(r[i + 1], e[i + 1], r[i] + up[i + 1][i])
    BY Zenon, <2>2, <2>3, <2>5, LeastIsLesser
  <2> QED
    BY Zenon, <2>3, <2>4, <2>6 DEF Lesser
<1>3. BuiltUp(n, e, r, up)
  <2> DEFINE S == {i \in 1..n : \A k \in 1..i : r[i] <= e[k] + up[i][k]}
  <2>1. 1 \in S
    <3>1. \A k \in 1..1 : k = 1
      OBVIOUS
    <3>2. r[1] <= e[1] + up[1][1]
      BY <1>1
    <3> QED
      BY <1>1, <3>1, <3>2
  <2>2. ASSUME NEW i \in 1..n, i \in S, i + 1 \in 1..n
        PROVE  i + 1 \in S
    <3>0. i + 1 \in 1..n
      BY <2>2
    <3>1. ASSUME NEW k \in 1..(i + 1)
          PROVE  r[i + 1] <= e[k] + up[i + 1][k]
      <4>1. CASE k = i + 1
        BY <1>2, <2>2, <4>1
      <4>2. CASE k # i + 1
        <5>1. k \in 1..i /\ k \in 1..n
          BY <4>2
        <5>2. r[i] <= e[k] + up[i][k]
          BY <2>2, <5>1
        <5>3. /\ up[i + 1][k] = up[i + 1][i] + up[i][k]
              /\ up[i][k] \in Int
          <6>1. Totals(up[i + 1][k], up[i + 1][i], up[i][k])
            BY Zenon, <3>0, <5>1, GainedOn
          <6> QED
            BY Zenon, <3>0, <5>1, <6>1, Gained DEF Totals
        <5>4. /\ r[i + 1] <= r[i] + up[i + 1][i]
              /\ r[i] \in Int /\ r[i + 1] \in Int /\ up[i + 1][i] \in Int
          BY <1>2, <2>2
        <5>5. e[k] \in Int
          BY <5>1
        <5> QED
          BY Zenon, <5>2, <5>3, <5>4, <5>5, Passed
      <4> QED
        BY <4>1, <4>2
    <3> QED
      BY <2>2, <3>1
  <2>3. 1..n \subseteq S
    <3> HIDE DEF S
    <3> QED
      BY <2>1, <2>2, Upwards
  <2> QED
    BY <2>3 DEF BuiltUp
<1>4. AllBuilt(n, e, r, up)
  <2> DEFINE S == {i \in 1..n : \E k \in 1..i : r[i] = e[k] + up[i][k]}
  <2>1. 1 \in S
    <3>1. 1 \in 1..1 /\ r[1] = e[1] + up[1][1]
      BY <1>1
    <3> QED
      BY <1>1, <3>1
  <2>2. ASSUME NEW i \in 1..n, i \in S, i + 1 \in 1..n
        PROVE  i + 1 \in S
    <3>1. CASE r[i + 1] = e[i + 1]
      <4>1. r[i + 1] = e[i + 1] + up[i + 1][i + 1]
        BY <1>2, <2>2, <3>1
      <4>2. i + 1 \in 1..(i + 1)
        OBVIOUS
      <4> QED
        BY <2>2, <4>1, <4>2
    <3>2. CASE r[i + 1] = r[i] + up[i + 1][i]
      <4>1. PICK k \in 1..i : r[i] = e[k] + up[i][k]
        BY <2>2
      <4>2. k \in 1..n /\ k \in 1..(i + 1)
        OBVIOUS
      <4>3. /\ up[i + 1][k] = up[i + 1][i] + up[i][k]
            /\ up[i][k] \in Int
        <5>1. Totals(up[i + 1][k], up[i + 1][i], up[i][k])
          BY Zenon, <2>2, <4>2, GainedOn
        <5> QED
          BY Zenon, <2>2, <4>2, <5>1, Gained DEF Totals
      <4>4. e[k] \in Int /\ up[i + 1][i] \in Int
        BY <1>2, <2>2, <4>2
      <4>5. r[i + 1] = e[k] + up[i + 1][k]
        <5> DEFINE x == r[i + 1]
                   y == r[i]
                   c == e[k]
                   d == up[i + 1][i]
                   g == up[i][k]
                   h == up[i + 1][k]
        <5>1. x = y + d /\ y = c + g /\ h = d + g /\ c \in Int /\ d \in Int /\ g \in Int
          BY Zenon, <3>2, <4>1, <4>3, <4>4
        <5> HIDE DEF x, y, c, d, g, h
        <5>2. x = c + h
          BY <5>1
        <5> QED
          BY Zenon, <5>2 DEF x, c, h
      <4> QED
        BY <2>2, <4>2, <4>5
    <3> QED
      BY <1>2, <2>2, <3>1, <3>2
  <2>3. 1..n \subseteq S
    <3> HIDE DEF S
    <3> QED
      BY <2>1, <2>2, Upwards
  <2> QED
    BY <2>3 DEF AllBuilt
<1> QED
  BY <1>3, <1>4

\* The backward pass upon it, which ends every sample in turn.
LEMMA BackwardIsGreatest ==
  ASSUME NEW n \in Nat \ {0}, NEW e \in [1..n -> Int], NEW cap \in [1..n -> Int],
         NEW r \in [1..n -> Int], NEW b \in [1..n -> Int],
         NEW up, Additive(n, up), NEW down, Additive(n, down), NEW stop \in Int,
         CapsEnded(n, e, cap, stop), BuiltUp(n, e, r, up), AllBuilt(n, e, r, up),
         BrakesDown(n, r, b, down, stop)
  PROVE  WithinCaps(n, b, cap, up, down) /\ AtCaps(n, b, cap, up, down)
PROOF
<1>1. n \in 1..n
  OBVIOUS
<1>2. ASSUME NEW i \in 1..n
      PROVE  /\ e[i] \in Int /\ cap[i] \in Int /\ r[i] \in Int /\ b[i] \in Int
             /\ up[i][i] = 0 /\ down[i][i] = 0
             /\ r[i] <= e[i]
             /\ i # n => cap[i] = e[i]
  <2>1. e[i] \in Int /\ cap[i] \in Int /\ r[i] \in Int /\ b[i] \in Int
    OBVIOUS
  <2>2. up[i][i] = 0 /\ down[i][i] = 0
    BY Zenon, Gained
  <2>3. i \in 1..i
    OBVIOUS
  <2>4. r[i] <= e[i] + up[i][i]
    BY Zenon, <2>3 DEF BuiltUp
  <2>5. i # n => cap[i] = e[i]
    BY Zenon DEF CapsEnded
  <2> QED
    BY <2>1, <2>2, <2>4, <2>5
<1>3. b[n] = Least(r[n], stop) /\ cap[n] = Least(e[n], stop)
  BY Zenon, <1>1 DEF CapsEnded, BrakesDown
<1>4. ASSUME NEW i \in 1..n, i + 1 \in 1..n
      PROVE  /\ b[i] <= b[i + 1] + down[i + 1][i]
             /\ b[i] <= r[i]
             /\ down[i + 1][i] \in Int /\ up[i + 1][i] \in Int
             /\ down[i + 1][i] >= 0 /\ up[i + 1][i] >= 0
             /\ \/ b[i] = r[i]
                \/ b[i] = b[i + 1] + down[i + 1][i]
  <2>1. i # n
    BY <1>4
  <2>2. b[i] = Least(r[i], b[i + 1] + down[i + 1][i])
    BY Zenon, <2>1 DEF BrakesDown
  <2>3. i <= i + 1
    OBVIOUS
  <2>4. /\ down[i + 1][i] \in Int /\ up[i + 1][i] \in Int
        /\ down[i + 1][i] >= 0 /\ up[i + 1][i] >= 0
    BY Zenon, <1>4, <2>3, Gained
  <2>5. r[i] \in Int /\ b[i + 1] + down[i + 1][i] \in Int
    <3>1. r[i] \in Int /\ b[i + 1] \in Int
      BY Zenon, <1>2, <1>4
    <3>2. \A x, y \in Int : x + y \in Int
      OBVIOUS
    <3> QED
      BY Zenon, <2>4, <3>1, <3>2
  <2>6. Lesser(b[i], r[i], b[i + 1] + down[i + 1][i])
    BY Zenon, <2>2, <2>5, LeastIsLesser
  <2> QED
    BY Zenon, <2>4, <2>6 DEF Lesser
\* No sample ahead is met too fast.
<1>5. ASSUME NEW i \in 1..n
      PROVE  b[i] <= cap[i] /\ b[i] <= r[i]
  <2>1. CASE i = n
    <3>1. b[i] = Least(r[i], stop) /\ cap[i] = Least(e[i], stop)
      BY <1>3, <2>1
    <3> QED
      BY <1>2, <3>1 DEF Least
  <2>2. CASE i # n
    <3>1. i + 1 \in 1..n
      BY <2>2
    <3>2. b[i] <= r[i]
      BY <1>4, <3>1
    <3> QED
      BY <1>2, <2>2, <3>2
  <2> QED
    BY <2>1, <2>2
<1>6. \A i \in 1..n : \A k \in i..n : b[i] <= cap[k] + down[k][i]
  <2> DEFINE S == {i \in 1..n : \A k \in i..n : b[i] <= cap[k] + down[k][i]}
  <2>1. n \in S
    <3>1. \A k \in n..n : k = n
      OBVIOUS
    <3>2. b[n] <= cap[n] + down[n][n]
      BY <1>1, <1>2, <1>5
    <3> QED
      BY <1>1, <3>1, <3>2
  <2>2. ASSUME NEW j \in 1..n, j \in S, j - 1 \in 1..n
        PROVE  j - 1 \in S
    <3> DEFINE i == j - 1
    <3>1. i \in 1..n /\ i + 1 = j /\ i + 1 \in 1..n
      BY <2>2
    <3> HIDE DEF i
    <3>2. ASSUME NEW k \in i..n
          PROVE  b[i] <= cap[k] + down[k][i]
      <4>1. CASE k = i
        <5>1. b[i] <= cap[i] + down[i][i]
          BY <1>2, <1>5, <3>1
        <5> QED
          BY <4>1, <5>1
      <4>2. CASE k # i
        <5>1. k \in j..n /\ k \in 1..n
          BY <3>1, <4>2
        <5>2. b[j] <= cap[k] + down[k][j]
          BY <2>2, <5>1
        <5>3. /\ down[k][i] = down[k][j] + down[j][i]
              /\ down[k][j] \in Int /\ down[j][i] \in Int
          <6>1. Totals(down[k][i], down[k][j], down[j][i])
            BY Zenon, <3>1, <5>1, GainedOn
          <6> QED
            BY Zenon, <3>1, <5>1, <6>1, Gained DEF Totals
        <5>4. b[i] <= b[j] + down[j][i]
          BY Zenon, <1>4, <3>1
        <5>5. b[i] \in Int /\ b[j] \in Int /\ cap[k] \in Int
          BY <3>1, <5>1
        <5> HIDE DEF S
        <5> QED
          BY Zenon, <5>2, <5>3, <5>4, <5>5, Passed
      <4> QED
        BY <4>1, <4>2
    <3> QED
      BY <3>1, <3>2 DEF i
  <2>3. 1..n \subseteq S
    <3> HIDE DEF S
    <3> QED
      BY <2>1, <2>2, Downwards
  <2> QED
    BY <2>3
<1>7. ASSUME NEW i \in 1..n, NEW k \in 1..n
      PROVE  b[i] <= cap[k] + (IF k <= i THEN up[i][k] ELSE down[k][i])
  <2>1. CASE k = i
    <3>1. k <= i /\ up[i][k] = 0 /\ cap[k] = cap[i]
      BY <1>2, <2>1
    <3>2. b[i] <= cap[k] + up[i][k]
      BY <1>2, <1>5, <3>1
    <3> QED
      BY <3>1, <3>2
  <2>2. CASE k < i
    <3>1. k # n /\ k \in 1..i /\ k <= i
      BY <2>2
    <3>2. r[i] <= e[k] + up[i][k]
      BY Zenon, <3>1 DEF BuiltUp
    <3>3. up[i][k] \in Int
      BY Zenon, Gained
    <3>4. b[i] <= r[i] /\ cap[k] = e[k] /\ b[i] \in Int /\ r[i] \in Int /\ e[k] \in Int
      BY Zenon, <1>2, <1>5, <3>1
    <3>5. b[i] <= cap[k] + up[i][k]
      BY Zenon, <3>2, <3>3, <3>4, Reached
    <3> QED
      BY Zenon, <3>1, <3>5
  <2>3. CASE k > i
    <3>1. k \in i..n /\ ~(k <= i)
      BY <2>3
    <3>2. b[i] <= cap[k] + down[k][i]
      BY <1>6, <3>1
    <3> QED
      BY <3>1, <3>2
  <2> QED
    BY <2>1, <2>2, <2>3
\* Nothing is given away.
<1> DEFINE Attained(i) == \E k \in 1..n :
               b[i] = cap[k] + (IF k <= i THEN up[i][k] ELSE down[k][i])
<1>8. ASSUME NEW i \in 1..n, i # n, b[i] = r[i]
      PROVE  Attained(i)
  <2>1. PICK k \in 1..i : r[i] = e[k] + up[i][k]
    BY Zenon DEF AllBuilt
  <2>2. k \in 1..n /\ k # n /\ k <= i
    BY <1>8
  <2>3. cap[k] = e[k]
    BY <1>2, <2>2
  <2>4. b[i] = cap[k] + (IF k <= i THEN up[i][k] ELSE down[k][i])
    BY Zenon, <1>8, <2>1, <2>2, <2>3
  <2> QED
    BY Zenon, <2>2, <2>4
<1>9. Attained(n)
  <2>1. n <= n /\ n \in 1..n
    OBVIOUS
  <2>2. CASE b[n] = cap[n]
    <3>1. b[n] = cap[n] + up[n][n]
      BY <1>1, <1>2, <2>2
    <3>2. b[n] = cap[n] + (IF n <= n THEN up[n][n] ELSE down[n][n])
      BY Zenon, <2>1, <3>1
    <3> QED
      BY Zenon, <1>1, <3>2
  <2>3. CASE b[n] # cap[n]
    <3>1. b[n] = r[n] /\ r[n] # e[n]
      BY <1>1, <1>2, <1>3, <2>3 DEF Least
    <3>2. PICK k \in 1..n : r[n] = e[k] + up[n][k]
      BY Zenon, <1>1 DEF AllBuilt
    <3>3. k # n
      <4>1. e[n] \in Int /\ up[n][n] = 0
        BY <1>1, <1>2
      <4> QED
        BY <3>1, <3>2, <4>1
    <3>4. cap[k] = e[k] /\ k <= n
      BY <1>2, <3>3
    <3>5. b[n] = cap[k] + (IF k <= n THEN up[n][k] ELSE down[k][n])
      BY Zenon, <3>1, <3>2, <3>4
    <3> QED
      BY Zenon, <3>5
  <2> QED
    BY <2>2, <2>3
<1>10. ASSUME NEW i \in 1..n, i + 1 \in 1..n, Attained(i + 1)
       PROVE  Attained(i)
  <2>1. PICK k \in 1..n :
           b[i + 1] = cap[k] + (IF k <= i + 1 THEN up[i + 1][k] ELSE down[k][i + 1])
    BY Zenon, <1>10
  <2>2. i # n
    BY <1>10
  <2>3. CASE b[i] = r[i]
    <3> HIDE DEF Attained
    <3> QED
      BY Zenon, <1>8, <2>2, <2>3
  <2>4. CASE b[i] # r[i]
    <3>1. b[i] = b[i + 1] + down[i + 1][i] /\ b[i] <= r[i]
      BY Zenon, <1>4, <1>10, <2>4
    <3>2. /\ b[i] \in Int /\ r[i] \in Int /\ b[i + 1] \in Int /\ cap[k] \in Int
          /\ up[i + 1][i + 1] = 0
      BY Zenon, <1>2, <1>10
    <3>3. /\ down[i + 1][i] \in Int /\ up[i + 1][i] \in Int
          /\ down[i + 1][i] >= 0 /\ up[i + 1][i] >= 0
      BY Zenon, <1>4, <1>10
    <3>4. ASSUME k <= i
          PROVE  FALSE
      <4>1. k \in 1..i /\ k # n /\ k <= i + 1
        BY <2>2, <3>4
      <4>2. cap[k] = e[k]
        BY Zenon, <1>2, <4>1
      <4>3. r[i] <= e[k] + up[i][k]
        BY Zenon, <4>1 DEF BuiltUp
      <4>4. /\ up[i + 1][k] = up[i + 1][i] + up[i][k]
            /\ up[i][k] \in Int
        <5>1. Totals(up[i + 1][k], up[i + 1][i], up[i][k])
          BY Zenon, <1>10, GainedOn
        <5> QED
          BY Zenon, <1>10, <5>1, Gained DEF Totals
      <4>5. b[i + 1] = cap[k] + up[i + 1][k]
        BY Zenon, <2>1, <4>1
      <4>6. b[i + 1] >= r[i]
        BY Zenon, <3>2, <3>3, <4>2, <4>3, <4>4, <4>5, Regained
      <4>7. b[i] = r[i]
        <5>1. \A x, y, d \in Int : x >= y /\ d >= 0 => x + d >= y
          OBVIOUS
        <5>2. b[i + 1] + down[i + 1][i] >= r[i]
          BY Zenon, <3>2, <3>3, <4>6, <5>1
        <5>3. \A x, y \in Int : x >= y /\ x <= y => x = y
          OBVIOUS
        <5> QED
          BY Zenon, <3>1, <3>2, <5>2, <5>3
      <4> HIDE DEF Attained
      <4> QED
        BY Zenon, <2>4, <4>7
    <3>5. CASE k = i + 1
      <4>1. k <= i + 1 /\ ~(k <= i)
        BY <3>5
      <4>2. b[i + 1] = cap[k] + up[i + 1][i + 1]
        BY Zenon, <2>1, <3>5, <4>1
      <4>3. b[i] = cap[k] + down[i + 1][i]
        <5>1. b[i + 1] = cap[k]
          <6>1. \A x \in Int : x + 0 = x
            OBVIOUS
          <6> QED
            BY Zenon, <3>2, <4>2, <6>1
        <5> QED
          BY Zenon, <3>1, <5>1
      <4>4. b[i] = cap[k] + (IF k <= i THEN up[i][k] ELSE down[k][i])
        BY Zenon, <3>5, <4>1, <4>3
      <4> QED
        BY Zenon, <4>4
    <3>6. CASE k > i + 1
      <4>1. ~(k <= i + 1) /\ ~(k <= i)
        BY <3>6
      <4>2. b[i + 1] = cap[k] + down[k][i + 1]
        BY Zenon, <2>1, <4>1
      <4>3. /\ down[k][i] = down[k][i + 1] + down[i + 1][i]
            /\ down[k][i + 1] \in Int
        <5>1. Totals(down[k][i], down[k][i + 1], down[i + 1][i])
          BY Zenon, <1>10, GainedOn
        <5> QED
          BY Zenon, <1>10, <5>1, Gained DEF Totals
      <4>4. b[i] = cap[k] + down[k][i]
        <5> DEFINE x == b[i]
                   y == b[i + 1]
                   c == cap[k]
                   d == down[i + 1][i]
                   g == down[k][i + 1]
                   h == down[k][i]
        <5>1. x = y + d /\ y = c + g /\ h = g + d /\ c \in Int /\ d \in Int /\ g \in Int
          BY Zenon, <3>1, <3>2, <3>3, <4>2, <4>3
        <5> HIDE DEF x, y, c, d, g, h
        <5>2. x = c + h
          BY <5>1
        <5> QED
          BY Zenon, <5>2 DEF x, c, h
      <4>5. b[i] = cap[k] + (IF k <= i THEN up[i][k] ELSE down[k][i])
        BY Zenon, <4>1, <4>4
      <4> QED
        BY Zenon, <4>5
    <3>7. k <= i \/ k = i + 1 \/ k > i + 1
      OBVIOUS
    <3> QED
      BY Zenon, <3>4, <3>5, <3>6, <3>7
  <2> QED
    BY Zenon, <2>3, <2>4
<1>11. \A i \in 1..n : Attained(i)
  <2> HIDE DEF Attained
  <2> DEFINE S == {i \in 1..n : Attained(i)}
  <2>1. n \in S
    BY <1>1, <1>9
  <2>2. ASSUME NEW j \in 1..n, j \in S, j - 1 \in 1..n
        PROVE  j - 1 \in S
    <3>1. (j - 1) + 1 = j
      OBVIOUS
    <3>2. Attained(j) /\ j \in 1..n
      BY Zenon, <2>2
    <3> DEFINE i == j - 1
    <3>3. i \in 1..n /\ i + 1 = j
      BY Zenon, <2>2, <3>1
    <3> HIDE DEF i
    <3>4. Attained(i)
      BY Zenon, <1>10, <3>2, <3>3
    <3> QED
      BY Zenon, <3>3, <3>4 DEF i
  <2>3. 1..n \subseteq S
    <3> HIDE DEF S
    <3> QED
      BY <2>1, <2>2, Downwards
  <2> QED
    BY <2>3
<1> QED
  BY Zenon, <1>7, <1>11 DEF WithinCaps, AtCaps

\* The arcs of a path that nowhere stands still only grow.
LEMMA Growing ==
  ASSUME NEW n \in Nat, NEW arc \in [1..n -> Int],
         \A i \in 1..n : i + 1 \in 1..n => arc[i] <= arc[i + 1]
  PROVE  \A i \in 1..n : \A k \in 1..i : arc[k] <= arc[i]
PROOF
<1> DEFINE S == {i \in 1..n : \A k \in 1..i : arc[k] <= arc[i]}
<1>1. n > 0 => 1 \in S
  OBVIOUS
<1>2. ASSUME NEW i \in 1..n, i \in S, i + 1 \in 1..n
      PROVE  i + 1 \in S
  <2>1. ASSUME NEW k \in 1..(i + 1)
        PROVE  arc[k] <= arc[i + 1]
    <3>1. arc[i] <= arc[i + 1] /\ arc[i] \in Int /\ arc[i + 1] \in Int
      BY <1>2
    <3>2. CASE k = i + 1
      BY <3>1, <3>2
    <3>3. CASE k # i + 1
      <4>1. k \in 1..i /\ k \in 1..n
        BY <3>3
      <4>2. arc[k] <= arc[i] /\ arc[k] \in Int
        BY <1>2, <4>1
      <4> QED
        BY <3>1, <4>2
    <3> QED
      BY <3>2, <3>3
  <2> QED
    BY <1>2, <2>1
<1>3. 1..n \subseteq S
  <2> HIDE DEF S
  <2> QED
    BY <1>1, <1>2, Upwards
<1> QED
  BY <1>3

\* The two passes give each sample the most its own cap and that of every other
\* sample leave it, where the path nowhere stands still.
LEMMA PassesAreGreatest ==
  ASSUME NEW n \in Nat \ {0}, NEW e \in [1..n -> Int], NEW arc \in [1..n -> Int],
         Len(arc) = n,
         \A i \in 1..n : i + 1 \in 1..n => arc[i] < arc[i + 1]
  PROVE  LET shaped == Braked(Ramped(e, arc), arc)
             cap == Ended(e, n)
         IN  /\ shaped \in [1..n -> Int]
             /\ cap \in [1..n -> Int]
             /\ \A i, k \in 1..n : shaped[i] <= cap[k] + Slack(arc, k, i)
             /\ \A i \in 1..n : \E k \in 1..n :
                   shaped[i] = cap[k] + Slack(arc, k, i)
PROOF
<1> DEFINE r == Ramped(e, arc)
           b == Braked(r, arc)
           cap == Ended(e, n)
           stop == Square(VEnd)
           up == Gains(n, Ramp, arc)
           down == Gains(n, Brake, arc)
<1>1. /\ r \in [1..n -> Int]
      /\ \A i \in 1..n : r[i] = IF i = 1 \/ arc[i] <= arc[i - 1] THEN e[i]
              ELSE Least(e[i], r[i - 1] + Ramp * (arc[i] - arc[i - 1]))
  BY RampedSteps
<1> HIDE DEF r
<1>2. /\ b \in [1..n -> Int]
      /\ \A i \in 1..n : b[i] = IF i = n THEN Least(r[n], stop)
              ELSE IF arc[i + 1] <= arc[i] THEN r[i]
              ELSE Least(r[i], b[i + 1] + Brake * (arc[i + 1] - arc[i]))
  <2>1. r \in [1..n -> Int]
    BY <1>1
  <2>2. b \in [1..n -> Int] /\ BrakeRule(n, r, arc, b)
    BY <2>1, BrakedSteps
  <2> HIDE DEF b
  <2> QED
    BY Zenon, <2>2 DEF BrakeRule
<1> HIDE DEF b
<1>3. stop \in Int /\ Ramp \in Nat /\ Brake \in Nat
  BY ShapingConstants
<1>4. /\ cap \in [1..n -> Int]
      /\ \A i \in 1..n : cap[i] = IF i = n THEN Least(e[i], stop) ELSE e[i]
  BY <1>3 DEF Ended, Least
<1>5. \A i \in 1..n : i + 1 \in 1..n => arc[i] <= arc[i + 1]
  OBVIOUS
<1>6. \A i \in 1..n : \A k \in 1..i : arc[k] <= arc[i]
  BY <1>5, Growing
<1>7. \A i, k \in 1..n : k <= i => arc[k] <= arc[i]
  BY <1>6
<1>8. Additive(n, up) /\ Additive(n, down)
  BY <1>3, <1>7, GainsAdd
<1>9. /\ \A i, k \in 1..n : up[i][k] = Ramp * (arc[i] - arc[k])
      /\ \A i, k \in 1..n : down[i][k] = Brake * (arc[i] - arc[k])
  BY DEF Gains
<1> HIDE DEF cap, stop, up, down
<1>10. ASSUME NEW i \in 1..n
       PROVE  r[i] = IF i = 1 THEN e[i] ELSE Least(e[i], r[i - 1] + up[i][i - 1])
  <2>1. CASE i = 1
    BY <1>1, <2>1
  <2>2. CASE i # 1
    <3>1. i - 1 \in 1..n /\ (i - 1) + 1 = i
      BY <2>2
    <3>2. ~(arc[i] <= arc[i - 1])
      <4>1. arc[i - 1] < arc[(i - 1) + 1] /\ arc[i] \in Int /\ arc[i - 1] \in Int
        BY <3>1
      <4> QED
        BY <3>1, <4>1
    <3>3. r[i] = Least(e[i], r[i - 1] + Ramp * (arc[i] - arc[i - 1]))
      BY Zenon, <1>1, <2>2, <3>2
    <3>4. Ramp * (arc[i] - arc[i - 1]) = up[i][i - 1]
      BY <1>9, <3>1
    <3> QED
      BY Zenon, <2>2, <3>3, <3>4
  <2> QED
    BY <2>1, <2>2
<1>11. ASSUME NEW i \in 1..n
       PROVE  b[i] = IF i = n THEN Least(r[i], stop)
                     ELSE Least(r[i], b[i + 1] + down[i + 1][i])
  <2>1. CASE i = n
    BY Zenon, <1>2, <2>1
  <2>2. CASE i # n
    <3>1. i + 1 \in 1..n
      BY <2>2
    <3>2. ~(arc[i + 1] <= arc[i])
      <4>1. arc[i] < arc[i + 1] /\ arc[i] \in Int /\ arc[i + 1] \in Int
        BY <3>1
      <4> QED
        BY <4>1
    <3>3. b[i] = Least(r[i], b[i + 1] + Brake * (arc[i + 1] - arc[i]))
      BY Zenon, <1>2, <2>2, <3>2
    <3>4. Brake * (arc[i + 1] - arc[i]) = down[i + 1][i]
      BY <1>9, <3>1
    <3> QED
      BY Zenon, <2>2, <3>3, <3>4
  <2> QED
    BY <2>1, <2>2
<1>12. BuiltUp(n, e, r, up) /\ AllBuilt(n, e, r, up)
  <2>1. RampsUp(n, e, r, up)
    BY Zenon, <1>10 DEF RampsUp
  <2> QED
    BY <1>1, <1>8, <2>1, ForwardIsGreatest
<1>13. /\ \A i, k \in 1..n :
             b[i] <= cap[k] + (IF k <= i THEN up[i][k] ELSE down[k][i])
       /\ \A i \in 1..n : \E k \in 1..n :
             b[i] = cap[k] + (IF k <= i THEN up[i][k] ELSE down[k][i])
  <2>1. BrakesDown(n, r, b, down, stop)
    BY Zenon, <1>11 DEF BrakesDown
  <2>2. CapsEnded(n, e, cap, stop)
    BY Zenon, <1>4 DEF CapsEnded
  <2>3. r \in [1..n -> Int] /\ b \in [1..n -> Int] /\ cap \in [1..n -> Int]
    BY <1>1, <1>2, <1>4
  <2>4. WithinCaps(n, b, cap, up, down) /\ AtCaps(n, b, cap, up, down)
    BY <1>3, <1>8, <1>12, <2>1, <2>2, <2>3, BackwardIsGreatest
  <2> QED
    BY Zenon, <2>4 DEF WithinCaps, AtCaps
<1>14. ASSUME NEW i \in 1..n, NEW k \in 1..n
       PROVE  Slack(arc, k, i) = IF k <= i THEN up[i][k] ELSE down[k][i]
  BY Zenon, <1>9 DEF Slack
<1>15. ASSUME NEW i \in 1..n, NEW k \in 1..n
       PROVE  b[i] <= cap[k] + Slack(arc, k, i)
  <2>1. b[i] <= cap[k] + (IF k <= i THEN up[i][k] ELSE down[k][i])
    BY Zenon, <1>13
  <2>2. Slack(arc, k, i) = IF k <= i THEN up[i][k] ELSE down[k][i]
    BY Zenon, <1>14
  <2> QED
    BY Zenon, <2>1, <2>2
<1>16. ASSUME NEW i \in 1..n
       PROVE  \E k \in 1..n : b[i] = cap[k] + Slack(arc, k, i)
  <2>1. PICK k \in 1..n : b[i] = cap[k] + (IF k <= i THEN up[i][k] ELSE down[k][i])
    BY Zenon, <1>13
  <2>2. Slack(arc, k, i) = IF k <= i THEN up[i][k] ELSE down[k][i]
    BY Zenon, <1>14
  <2>3. b[i] = cap[k] + Slack(arc, k, i)
    BY Zenon, <2>1, <2>2
  <2> QED
    BY Zenon, <2>3
<1> QED
  BY Zenon, <1>2, <1>4, <1>15, <1>16 DEF r, b, cap

-----------------------------------------------------------------------------
(***************************************************************************)
(* Paths, their arcs and their tangents.                                   *)
(***************************************************************************)

Points == Int \X Int

LEMMA ChordType ==
  ASSUME NEW p \in Points, NEW q \in Points
  PROVE  /\ Chord(p, q) \in Nat
         /\ p # q => Chord(p, q) > 0
         /\ p[1] \in Int /\ p[2] \in Int
PROOF
<1>1. p[1] \in Int /\ p[2] \in Int /\ q[1] \in Int /\ q[2] \in Int
  BY DEF Points
<1>2. p # q => p[1] # q[1] \/ p[2] # q[2]
  BY DEF Points
<1>3. \A k \in Int : Size(k) \in Nat /\ (k # 0 => Size(k) > 0)
  BY DEF Size
<1> DEFINE a == p[1] - q[1]
           b == p[2] - q[2]
<1>4. a \in Int /\ b \in Int /\ (p # q => a # 0 \/ b # 0)
  <2>1. a \in Int /\ b \in Int
    BY <1>1
  <2>2. ASSUME a = 0, b = 0
        PROVE  p[1] = q[1] /\ p[2] = q[2]
    BY <1>1, <2>2
  <2> HIDE DEF a, b
  <2> QED
    BY <1>2, <2>1, <2>2
<1> HIDE DEF a, b
<1>5. Size(a) \in Nat /\ Size(b) \in Nat
  BY <1>3, <1>4
<1>6. p # q => Size(a) > 0 \/ Size(b) > 0
  BY <1>3, <1>4
<1> QED
  BY <1>1, <1>5, <1>6 DEF Chord, a, b

\* The arcs are what the chords add up to.
ArcRule(n, pt, arc) ==
    \A i \in 1..n : arc[i] = IF i = 1 THEN 0 ELSE arc[i - 1] + Chord(pt[i - 1], pt[i])

LEMMA ArcSteps ==
  ASSUME NEW n \in Nat \ {0}, NEW pt \in [1..n -> Points], Len(pt) = n
  PROVE  /\ Arcs(pt) \in [1..n -> Nat]
         /\ ArcRule(n, pt, Arcs(pt))
         /\ Len(Arcs(pt)) = n
PROOF
<1> DEFINE To(i, v) == IF i = 1 THEN 0 ELSE v + Chord(pt[i - 1], pt[i])
           Sum(f) == [i \in 1..Len(pt) |-> To(i, f[i - 1])]
           next == [p \in (1..n) \X Nat |-> To(p[1], p[2])]
<1>1. ASSUME NEW i \in 1..n, NEW v \in Nat
      PROVE  To(i, v) \in Nat
  <2>1. CASE i = 1
    BY <2>1
  <2>2. CASE i # 1
    <3>1. i - 1 \in 1..n
      BY <2>2
    <3>2. pt[i - 1] \in Points /\ pt[i] \in Points
      BY <3>1
    <3>3. Chord(pt[i - 1], pt[i]) \in Nat
      BY <3>2, ChordType
    <3> QED
      BY <2>2, <3>3
  <2> QED
    BY <2>1, <2>2
<1>2. next \in StepsOn(n, Nat)
  BY <1>1 DEF StepsOn
<1>3. \A i \in 1..n, v \in Nat : next[<<i, v>>] = To(i, v)
  OBVIOUS
<1>4. \A v : To(1, v) = 0
  OBVIOUS
<1> HIDE DEF To, next
<1>5. 1 \in 1..n /\ 0 \in Nat
  OBVIOUS
<1>6. PICK f \in [1..n -> Nat] : Begins(f, n, 0, next)
  BY <1>2, <1>5, DefinedUpwards
<1>7. ASSUME NEW i \in 1..n
      PROVE  f[i] = To(i, f[i - 1])
  <2>1. CASE i = 1
    BY <1>4, <1>6, <2>1 DEF Begins
  <2>2. CASE i # 1
    <3>1. i - 1 \in 1..n
      BY <2>2
    <3> QED
      BY <1>3, <1>6, <2>2, <3>1 DEF Begins
  <2> QED
    BY <2>1, <2>2
<1>8. f = Sum(f)
  BY <1>7
<1> DEFINE arc == Arcs(pt)
<1>9. arc = CHOOSE g : g = Sum(g)
  BY DEF Arcs, To
<1>10. arc = Sum(arc)
  BY <1>8, <1>9
<1> HIDE DEF arc
<1>11. \A i \in 1..n : arc[i] = To(i, arc[i - 1])
  BY <1>10
<1>12. \A i \in 1..n : arc[i] \in Nat
  <2> DEFINE S == {i \in 1..n : arc[i] \in Nat}
  <2>1. 1 \in S
    BY <1>4, <1>5, <1>11
  <2>2. ASSUME NEW i \in 1..n, i \in S, i + 1 \in 1..n
        PROVE  i + 1 \in S
    <3>1. arc[i + 1] = To(i + 1, arc[i])
      BY <1>11, <2>2
    <3> QED
      BY <1>1, <2>2, <3>1
  <2>3. 1..n \subseteq S
    <3> HIDE DEF S
    <3> QED
      BY <2>1, <2>2, Upwards
  <2> QED
    BY <2>3
<1>13. arc \in [1..n -> Nat]
  BY <1>10, <1>12
<1>14. ArcRule(n, pt, arc)
  BY Zenon, <1>11 DEF To, ArcRule
<1>15. Len(arc) = n
  <2>1. arc \in Seq(Nat) /\ DOMAIN arc = 1..n
    BY <1>13
  <2> QED
    BY <2>1
<1> QED
  BY <1>13, <1>14, <1>15 DEF arc

SignOf(k) == IF k > 0 THEN 1 ELSE IF k < 0 THEN -1 ELSE 0

Signs(p, q) == <<SignOf(q[1] - p[1]), SignOf(q[2] - p[2])>>

\* The tangent of a segment, even of one carried over, is a pair of signs; that
\* of a segment with a length is its own.
LEMMA TangentType ==
  ASSUME NEW t, NEW n \in Nat \ {0}, Len(t.pt) = n, t.pt \in [1..n -> Points],
         NEW i \in 1..(n - 1)
  PROVE  /\ Tangents(t)[i] \in Points
         /\ ~Degenerate(t, i) => Tangents(t)[i] = Signs(t.pt[i], t.pt[i + 1])
PROOF
<1> DEFINE m == n - 1
           Own(j) == Signs(t.pt[j], t.pt[j + 1])
           To(j, v) == IF Degenerate(t, j) /\ j > 1 THEN v ELSE Own(j)
           Carry(f) == [j \in SegmentsOf(t) |-> To(j, f[j - 1])]
           next == [p \in (1..m) \X Points |-> To(p[1], p[2])]
<1>0. SegmentsOf(t) = 1..m /\ m \in Nat
  BY DEF SegmentsOf
<1>1. ASSUME NEW j \in 1..m
      PROVE  Own(j) \in Points
  <2>1. \A k : SignOf(k) \in Int
    BY DEF SignOf
  <2> QED
    BY <2>1 DEF Points, Signs
<1> HIDE DEF Own
<1>2. next \in StepsOn(m, Points)
  BY <1>1 DEF StepsOn
<1>3. \A j \in 1..m, v \in Points : next[<<j, v>>] = To(j, v)
  OBVIOUS
<1>4. \A v : To(1, v) = Own(1)
  OBVIOUS
<1> HIDE DEF To, next, m
<1>5. i \in 1..m /\ 1 \in 1..m
  BY <1>0 DEF m
<1>6. PICK f \in [1..m -> Points] : Begins(f, m, Own(1), next)
  BY <1>0, <1>1, <1>2, <1>5, DefinedUpwards
<1>7. ASSUME NEW j \in 1..m
      PROVE  f[j] = To(j, f[j - 1])
  <2>1. CASE j = 1
    BY <1>4, <1>6, <2>1 DEF Begins
  <2>2. CASE j # 1
    <3>1. j - 1 \in 1..m
      BY <1>0, <2>2
    <3> QED
      BY <1>3, <1>6, <2>2, <3>1 DEF Begins
  <2> QED
    BY <2>1, <2>2
<1>8. f = Carry(f)
  BY <1>0, <1>7
<1> DEFINE u == Tangents(t)
<1>9. u = CHOOSE g : g = Carry(g)
  BY Zenon DEF Tangents, To, Own, Signs, SignOf
<1>10. u = Carry(u)
  BY Zenon, <1>8, <1>9
<1> HIDE DEF u
<1>11. \A j \in 1..m : u[j] = To(j, u[j - 1])
  BY <1>0, <1>10
<1>12. 1..m \subseteq {j \in 1..m : u[j] \in Points}
  <2> DEFINE S == {j \in 1..m : u[j] \in Points}
  <2>1. 1 \in S
    BY <1>1, <1>4, <1>5, <1>11
  <2>2. ASSUME NEW j \in 1..m, j \in S, j + 1 \in 1..m
        PROVE  j + 1 \in S
    <3>1. u[j + 1] = To(j + 1, u[j])
      <4>1. (j + 1) - 1 = j
        BY <1>0
      <4> QED
        BY <1>11, <2>2, <4>1
    <3>2. u[j] \in Points /\ Own(j + 1) \in Points
      BY <1>1, <2>2
    <3> QED
      BY <2>2, <3>1, <3>2 DEF To
  <2>3. 1..m \subseteq S
    <3> HIDE DEF S
    <3> QED
      BY <1>0, <2>1, <2>2, Upwards
  <2> QED
    BY <2>3
<1>13. ~Degenerate(t, i) => u[i] = Own(i)
  BY Zenon, <1>5, <1>11 DEF To
<1> QED
  BY <1>5, <1>12, <1>13 DEF u, Own

\* Paths of one point or more.
Routes == {pt \in Seq(Points) : pt # <<>>}

LEMMA RouteType ==
  ASSUME NEW pt \in Routes
  PROVE  /\ Len(pt) \in Nat \ {0}
         /\ pt \in [1..Len(pt) -> Points]
BY DEF Routes

LEMMA RouteOf ==
  ASSUME NEW n \in Nat \ {0}, NEW pt \in [1..n -> Points]
  PROVE  pt \in Routes /\ Len(pt) = n
PROOF
<1>1. pt \in Seq(Points) /\ DOMAIN pt = 1..n
  OBVIOUS
<1>2. Len(pt) = n
  BY <1>1
<1> QED
  BY <1>1, <1>2 DEF Routes

\* Every arc of a path that leads anywhere lies on a segment with a length.
LEMMA Crossing ==
  ASSUME NEW n \in Nat \ {0}, NEW arc \in [1..n -> Nat], arc[1] = 0,
         NEW a \in Nat, a <= arc[n], arc[n] > 0
  PROVE  \E i \in 1..(n - 1) : arc[i] <= a /\ a <= arc[i + 1] /\ arc[i] < arc[i + 1]
PROOF
<1> DEFINE reached == {i \in 1..n : arc[i] > 0 /\ arc[i] >= a}
<1>1. reached \subseteq Nat /\ reached # {}
  <2>1. n \in 1..n
    OBVIOUS
  <2> QED
    BY <2>1
<1>2. PICK j \in reached : \A k \in reached : j <= k
  <2> HIDE DEF reached
  <2> QED
    BY <1>1, LeastNatural
<1>3. j \in 1..n /\ arc[j] > 0 /\ arc[j] >= a /\ j # 1
  OBVIOUS
<1>4. j - 1 \in 1..(n - 1) /\ j - 1 \in 1..n /\ (j - 1) + 1 = j
  BY <1>3
<1>5. ~(arc[j - 1] > 0 /\ arc[j - 1] >= a)
  <2>1. j - 1 \notin reached
    BY <1>2, <1>3
  <2> QED
    BY <1>4, <2>1
<1>6. arc[j - 1] \in Nat /\ arc[j] \in Nat
  BY <1>3, <1>4
<1>7. arc[j - 1] <= a /\ a <= arc[j] /\ arc[j - 1] < arc[j]
  BY <1>3, <1>5, <1>6
<1> QED
  BY <1>4, <1>7

LEMMA PointAtType ==
  ASSUME NEW pt \in Routes, NEW a \in Nat,
         a <= Arcs(pt)[Len(pt)], Arcs(pt)[Len(pt)] > 0
  PROVE  PointAt(pt, a) \in Points
PROOF
<1> DEFINE n == Len(pt)
           arc == Arcs(pt)
           t == [pt |-> pt]
           On(i) == arc[i] <= a /\ a <= arc[i + 1] /\ arc[i] < arc[i + 1]
           i == CHOOSE i \in 1..(n - 1) : On(i)
           u == Tangents(t)[i]
<1>1. n \in Nat \ {0} /\ pt \in [1..n -> Points]
  BY RouteType
<1>2. arc \in [1..n -> Nat] /\ arc[1] = 0
  <2>1. 1 \in 1..n
    BY <1>1
  <2>2. arc \in [1..n -> Nat] /\ ArcRule(n, pt, arc)
    BY <1>1, ArcSteps
  <2> QED
    BY <2>1, <2>2 DEF ArcRule
<1>3. PointAt(pt, a) = <<pt[i][1] + (a - arc[i]) * u[1], pt[i][2] + (a - arc[i]) * u[2]>>
  BY Zenon DEF PointAt
<1> HIDE DEF arc
<1>4. \E k \in 1..(n - 1) : On(k)
  <2> HIDE DEF n
  <2> QED
    BY <1>1, <1>2, Crossing DEF arc, n
<1>5. i \in 1..(n - 1)
  <2> HIDE DEF On, n
  <2> QED
    BY Zenon, <1>4
<1> HIDE DEF i, n
<1>6. pt[i] \in Points /\ arc[i] \in Nat
  <2>1. i \in 1..n
    BY <1>1, <1>5
  <2> QED
    BY <1>1, <1>2, <2>1
<1>7. u \in Points
  <2>1. t.pt = pt /\ Len(t.pt) = n
    BY DEF n
  <2> HIDE DEF t
  <2> QED
    BY <1>1, <1>5, <2>1, TangentType
<1> HIDE DEF u
<1>8. /\ pt[i][1] \in Int /\ pt[i][2] \in Int /\ u[1] \in Int /\ u[2] \in Int
      /\ a - arc[i] \in Int
  BY <1>6, <1>7 DEF Points
<1>9. \A x, y, z \in Int : x + y * z \in Int
  OBVIOUS
<1>10. /\ pt[i][1] + (a - arc[i]) * u[1] \in Int
       /\ pt[i][2] + (a - arc[i]) * u[2] \in Int
  BY Zenon, <1>8, <1>9
<1> QED
  BY <1>3, <1>10 DEF Points

LEMMA Quotient ==
  ASSUME NEW total \in Nat, NEW d \in Nat \ {0}, NEW k \in 0..(total \div d)
  PROVE  total \div d \in Nat /\ k * d \in Nat /\ k * d <= total
PROOF
<1> DEFINE q == total \div d
<1>1. q \in Nat /\ q * d <= total
  OBVIOUS
<1> HIDE DEF q
<1>2. k \in Nat /\ k <= q
  BY <1>1 DEF q
<1>3. k * d <= q * d /\ k * d \in Nat
  BY <1>1, <1>2
<1> QED
  BY <1>1, <1>3 DEF q

\* Resampling makes a path of a path.
LEMMA ResampledType ==
  ASSUME NEW pt \in Routes
  PROVE  Resampled(pt) \in Routes
PROOF
<1> DEFINE total == Arcs(pt)[Len(pt)]
           count == (total \div Ds) + 1
<1>1. total \in Nat
  <2>1. Len(pt) \in Nat \ {0} /\ pt \in [1..Len(pt) -> Points]
    BY RouteType
  <2>2. Arcs(pt) \in [1..Len(pt) -> Nat]
    BY <2>1, ArcSteps
  <2> QED
    BY <2>1, <2>2
<1>2. Ds \in Nat \ {0}
  BY ReferenceAssumption
<1>3. CASE total = 0
  BY <1>3 DEF Resampled
<1>4. CASE total # 0
  <2>1. Resampled(pt) = [k \in 1..count |-> PointAt(pt, (k - 1) * Ds)]
    BY Zenon, <1>4 DEF Resampled
  <2>2. total > 0
    BY <1>1, <1>4
  <2>3. ASSUME NEW k \in 1..count
        PROVE  PointAt(pt, (k - 1) * Ds) \in Points
    <3> DEFINE a == (k - 1) * Ds
    <3>1. total \div Ds \in Nat
      BY <1>1, <1>2
    <3>2. k - 1 \in 0..(total \div Ds)
      BY <3>1
    <3>3. a \in Nat /\ a <= total
      <4> HIDE DEF total
      <4> QED
        BY <1>1, <1>2, <3>2, Quotient
    <3> HIDE DEF a
    <3>4. PointAt(pt, a) \in Points
      BY <2>2, <3>3, PointAtType
    <3> QED
      BY <3>4 DEF a
  <2>4. count \in Nat \ {0}
    BY <1>1, <1>2
  <2> HIDE DEF count
  <2>5. Resampled(pt) \in [1..count -> Points]
    BY <2>1, <2>3
  <2> QED
    BY <2>4, <2>5, RouteOf
<1> QED
  BY <1>3, <1>4

-----------------------------------------------------------------------------
(***************************************************************************)
(* Paths on the mesh.  Like the moves on a chessboard, every sample of a   *)
(* path over the mesh changes the colour of the place, and so two samples  *)
(* in a row are at different ones.                                         *)
(***************************************************************************)

\* No two neighbours coincide.
Apart(pt) == \A i \in 1..(Len(pt) - 1) : pt[i] # pt[i + 1]

OnMesh(p, q) == (p[1] = q[1] \/ p[2] = q[2]) /\ Chord(p, q) % Ds = 0

Meshed(pt) == \A i \in 1..(Len(pt) - 1) : OnMesh(pt[i], pt[i + 1])

Level(p) == p[1] + p[2]

Multiple(x) == \E z \in Int : x = z * Ds

Twofold(x) == \E z \in Int : x = z * (2 * Ds)

\* The colour of a point of arc a, against that of the start.
Coloured(pt, p, a) == Twofold(Level(p) - Level(pt[1]) - a)

LEMMA MultipleOf ==
  ASSUME NEW x \in Int, x % Ds = 0
  PROVE  Multiple(x)
PROOF
<1>1. Ds \in Nat \ {0}
  BY ReferenceAssumption
<1>2. x = Ds * (x \div Ds) + (x % Ds) /\ x \div Ds \in Int
  BY <1>1
<1>3. x = (x \div Ds) * Ds
  BY <1>1, <1>2
<1> QED
  BY <1>2, <1>3 DEF Multiple

LEMMA MultiplesAdd ==
  ASSUME NEW x \in Int, NEW y \in Int, Multiple(x), Multiple(y)
  PROVE  Multiple(x + y) /\ Multiple(x - y)
PROOF
<1>1. PICK a \in Int : x = a * Ds
  BY DEF Multiple
<1>2. PICK b \in Int : y = b * Ds
  BY DEF Multiple
<1>3. Ds \in Int
  BY ReferenceAssumption
<1>4. x + y = (a + b) * Ds /\ x - y = (a - b) * Ds /\ a + b \in Int /\ a - b \in Int
  BY <1>1, <1>2, <1>3
<1> QED
  BY Zenon, <1>4 DEF Multiple

LEMMA TwofoldsAdd ==
  ASSUME NEW x \in Int, NEW y \in Int, Twofold(x), Twofold(y)
  PROVE  Twofold(x + y) /\ Twofold(x - y)
PROOF
<1> DEFINE d == 2 * Ds
<1>1. PICK a \in Int : x = a * d
  BY DEF Twofold
<1>2. PICK b \in Int : y = b * d
  BY DEF Twofold
<1>3. d \in Int
  BY ReferenceAssumption
<1> HIDE DEF d
<1>4. x + y = (a + b) * d /\ x - y = (a - b) * d /\ a + b \in Int /\ a - b \in Int
  BY <1>1, <1>2, <1>3
<1> QED
  BY Zenon, <1>4 DEF Twofold, d

\* To and fro make the same difference.
LEMMA Signed ==
  ASSUME NEW x \in Int, Multiple(x), NEW sign \in {-1, 1}
  PROVE  Twofold(x * sign - x)
PROOF
<1>1. PICK a \in Int : x = a * Ds
  BY DEF Multiple
<1>2. Ds \in Int
  BY ReferenceAssumption
<1>3. CASE sign = 1
  <2>1. x * sign - x = 0 * (2 * Ds) /\ 0 \in Int
    BY <1>2, <1>3
  <2> QED
    BY Zenon, <2>1 DEF Twofold
<1>4. CASE sign = -1
  <2>1. x * sign - x = (-a) * (2 * Ds) /\ -a \in Int
    BY <1>1, <1>2, <1>4
  <2> QED
    BY Zenon, <2>1 DEF Twofold
<1> QED
  BY <1>3, <1>4

LEMMA OneSample ==
  ~Twofold(Ds)
PROOF
<1>1. Ds \in Nat \ {0}
  BY ReferenceAssumption
<1>2. ASSUME NEW z \in Int
      PROVE  Ds # z * (2 * Ds)
  <2>1. CASE z <= 0
    <3>1. z * (2 * Ds) <= 0
      BY <1>1, <2>1
    <3> QED
      BY <1>1, <3>1
  <2>2. CASE z >= 1
    <3>1. z * (2 * Ds) >= 2 * Ds
      BY <1>1, <2>2
    <3> QED
      BY <1>1, <3>1
  <2> QED
    BY <2>1, <2>2
<1> QED
  BY <1>2 DEF Twofold

\* A leg along an axis goes one way or the other.
LEMMA LegSign ==
  ASSUME NEW p \in Points, NEW q \in Points, p[1] = q[1] \/ p[2] = q[2]
  PROVE  /\ \E sign \in {-1, 1} : Level(q) - Level(p) = Chord(p, q) * sign
         /\ p # q => Signs(p, q)[1] + Signs(p, q)[2] \in {-1, 1}
PROOF
<1>1. p[1] \in Int /\ p[2] \in Int /\ q[1] \in Int /\ q[2] \in Int
  BY DEF Points
<1>2. p # q => p[1] # q[1] \/ p[2] # q[2]
  BY DEF Points
<1>3. Level(q) - Level(p) = Chord(p, q) \/ Level(q) - Level(p) = -Chord(p, q)
  BY <1>1 DEF Level, Chord, Size
<1>4. Chord(p, q) \in Int
  BY ChordType
<1>5. \A c \in Int : c * 1 = c /\ c * (-1) = -c
  OBVIOUS
<1>6. \E sign \in {-1, 1} : Level(q) - Level(p) = Chord(p, q) * sign
  BY Zenon, <1>3, <1>4, <1>5
<1>7. Signs(p, q)[1] = SignOf(q[1] - p[1]) /\ Signs(p, q)[2] = SignOf(q[2] - p[2])
  BY DEF Signs
<1>8. ASSUME p # q
      PROVE  SignOf(q[1] - p[1]) + SignOf(q[2] - p[2]) \in {-1, 1}
  BY <1>1, <1>2, <1>8 DEF SignOf
<1> QED
  BY <1>6, <1>7, <1>8

LEMMA ArcsOnMesh ==
  ASSUME NEW pt \in Routes, Meshed(pt), NEW i \in 1..Len(pt)
  PROVE  Multiple(Arcs(pt)[i]) /\ Coloured(pt, pt[i], Arcs(pt)[i])
PROOF
<1> DEFINE n == Len(pt)
           arc == Arcs(pt)
           S == {k \in 1..n : Multiple(arc[k]) /\ Coloured(pt, pt[k], arc[k])}
<1>1. n \in Nat \ {0} /\ pt \in [1..n -> Points]
  BY RouteType
<1>2. arc \in [1..n -> Nat] /\ ArcRule(n, pt, arc)
  BY <1>1, ArcSteps
<1>3. Ds \in Int
  BY ReferenceAssumption
<1> HIDE DEF arc, n
<1>4. \A k \in 1..n : Level(pt[k]) \in Int
  BY <1>1 DEF Points, Level
<1>5. 1 \in S
  <2>1. 1 \in 1..n
    BY <1>1
  <2>2. arc[1] = 0
    BY <1>2, <2>1 DEF ArcRule
  <2>3. 0 = 0 * Ds /\ 0 = 0 * (2 * Ds) /\ 0 \in Int
    BY <1>3
  <2>4. Level(pt[1]) - Level(pt[1]) - arc[1] = 0
    BY <1>4, <2>1, <2>2
  <2>5. Multiple(arc[1]) /\ Coloured(pt, pt[1], arc[1])
    BY Zenon, <2>2, <2>3, <2>4 DEF Multiple, Twofold, Coloured
  <2> QED
    BY <2>1, <2>5
<1>6. ASSUME NEW k \in 1..n, k \in S, k + 1 \in 1..n
      PROVE  k + 1 \in S
  <2> DEFINE c == Chord(pt[k], pt[k + 1])
             x == Level(pt[k]) - Level(pt[1]) - arc[k]
             step == Level(pt[k + 1]) - Level(pt[k])
             y == step - c
  <2>1. k \in 1..(n - 1)
    BY <1>1, <1>6
  <2>2. OnMesh(pt[k], pt[k + 1])
    BY <2>1 DEF Meshed, n
  <2>3. pt[k] \in Points /\ pt[k + 1] \in Points /\ 1 \in 1..n
    BY <1>1, <1>6
  <2>4. c \in Nat /\ Multiple(c)
    <3>1. c \in Nat /\ c % Ds = 0
      BY <2>2, <2>3, ChordType DEF OnMesh
    <3> HIDE DEF c
    <3> QED
      BY <3>1, MultipleOf
  <2>5. arc[k + 1] = arc[k] + c
    <3>1. k + 1 # 1 /\ (k + 1) - 1 = k
      BY <1>6
    <3> QED
      BY Zenon, <1>2, <1>6, <3>1 DEF ArcRule
  <2>6. PICK sign \in {-1, 1} : step = c * sign
    BY <2>2, <2>3, LegSign DEF OnMesh
  <2>7. arc[k] \in Int /\ arc[k + 1] \in Int
    BY <1>2, <1>6
  <2>8. x \in Int /\ step \in Int
    BY <1>4, <1>6, <2>3, <2>7
  <2>9. Level(pt[k + 1]) - Level(pt[1]) - arc[k + 1] = x + y
    <3> DEFINE l == Level(pt[k + 1])
               m == Level(pt[k])
               o == Level(pt[1])
               r == arc[k]
    <3>1. l \in Int /\ m \in Int /\ o \in Int /\ r \in Int /\ c \in Int
      BY <1>4, <1>6, <2>3, <2>4, <2>7
    <3> HIDE DEF c, l, m, o, r
    <3>2. l - o - (r + c) = (m - o - r) + ((l - m) - c)
      BY <3>1
    <3> QED
      BY <2>5, <3>2 DEF l, m, o, r
  <2> HIDE DEF c, step
  <2>10. Twofold(y) /\ y \in Int
    <3>1. Twofold(c * sign - c)
      BY <2>4, Signed
    <3> QED
      BY <2>4, <2>6, <2>8, <3>1
  <2>11. Twofold(x)
    BY <1>6 DEF Coloured
  <2> HIDE DEF x, y
  <2>12. Twofold(x + y)
    BY <2>8, <2>10, <2>11, TwofoldsAdd
  <2>13. Multiple(arc[k + 1])
    <3>1. c \in Int /\ Multiple(arc[k])
      BY <1>6, <2>4
    <3> QED
      BY Zenon, <2>4, <2>5, <2>7, <3>1, MultiplesAdd
  <2> QED
    BY <1>6, <2>9, <2>12, <2>13 DEF Coloured
<1>7. 1..n \subseteq S
  <2> HIDE DEF S
  <2> QED
    BY <1>1, <1>5, <1>6, Upwards
<1> QED
  BY <1>7 DEF arc, n

LEMMA PointOnMesh ==
  ASSUME NEW pt \in Routes, Meshed(pt), NEW a \in Nat, Multiple(a),
         a <= Arcs(pt)[Len(pt)], Arcs(pt)[Len(pt)] > 0
  PROVE  Coloured(pt, PointAt(pt, a), a)
PROOF
<1> DEFINE n == Len(pt)
           arc == Arcs(pt)
           t == [pt |-> pt]
           On(i) == arc[i] <= a /\ a <= arc[i + 1] /\ arc[i] < arc[i + 1]
           i == CHOOSE i \in 1..(n - 1) : On(i)
           u == Tangents(t)[i]
           p == <<pt[i][1] + (a - arc[i]) * u[1], pt[i][2] + (a - arc[i]) * u[2]>>
<1>1. n \in Nat \ {0} /\ pt \in [1..n -> Points]
  BY RouteType
<1>2. /\ arc \in [1..n -> Nat] /\ ArcRule(n, pt, arc)
      /\ \A k \in 1..n : Multiple(arc[k]) /\ Coloured(pt, pt[k], arc[k])
  BY <1>1, ArcSteps, ArcsOnMesh
<1>3. PointAt(pt, a) = p
  BY Zenon DEF PointAt
<1> HIDE DEF arc
<1>4. \E k \in 1..(n - 1) : On(k)
  <2>1. arc[1] = 0
    BY <1>1, <1>2 DEF ArcRule
  <2> HIDE DEF n
  <2> QED
    BY <1>1, <1>2, <2>1, Crossing DEF arc, n
<1>5. i \in 1..(n - 1) /\ On(i)
  <2> HIDE DEF On, n
  <2> QED
    BY Zenon, <1>4
<1> HIDE DEF i, n
<1>6. i \in 1..n /\ i + 1 \in 1..n /\ 1 \in 1..n
  BY <1>1, <1>5
<1>7. /\ pt[i] \in Points /\ pt[i + 1] \in Points /\ pt[1] \in Points
      /\ arc[i] \in Nat /\ arc[i + 1] \in Nat
  BY <1>1, <1>2, <1>6
<1>8. pt[i] # pt[i + 1]
  <2>1. SUFFICES ASSUME pt[i] = pt[i + 1]
                 PROVE  FALSE
    OBVIOUS
  <2>2. Chord(pt[i], pt[i + 1]) = 0
    <3>1. Size(0) = 0
      BY DEF Size
    <3>2. \A x \in Int : x - x = 0
      OBVIOUS
    <3>3. pt[i][1] \in Int /\ pt[i][2] \in Int
      BY <1>7 DEF Points
    <3> QED
      BY <2>1, <3>1, <3>2, <3>3 DEF Chord
  <2>3. i + 1 # 1 /\ (i + 1) - 1 = i
    BY <1>6
  <2>4. arc[i + 1] = arc[i] + Chord(pt[i], pt[i + 1])
    BY Zenon, <1>2, <1>6, <2>3 DEF ArcRule
  <2> QED
    BY <1>5, <1>7, <2>2, <2>4
<1>9. u = Signs(pt[i], pt[i + 1]) /\ u \in Points
  <2>1. t.pt = pt /\ Len(t.pt) = n
    BY DEF n
  <2>2. ~Degenerate(t, i)
    BY <1>8, <2>1 DEF Degenerate
  <2> HIDE DEF t
  <2>3. u = Signs(t.pt[i], t.pt[i + 1]) /\ u \in Points
    BY <1>1, <1>5, <2>1, <2>2, TangentType
  <2> QED
    BY <2>1, <2>3
<1> HIDE DEF u
<1>10. u[1] + u[2] \in {-1, 1}
  <2>1. OnMesh(pt[i], pt[i + 1])
    BY <1>5 DEF Meshed, n
  <2> QED
    BY <1>7, <1>8, <1>9, <2>1, LegSign DEF OnMesh
<1> DEFINE d == a - arc[i]
           sign == u[1] + u[2]
           x == Level(pt[i]) - Level(pt[1]) - arc[i]
           y == d * sign - d
<1>11. d \in Int /\ Multiple(d) /\ Multiple(arc[i])
  <2>1. Multiple(arc[i])
    BY <1>2, <1>6
  <2>2. a \in Int /\ arc[i] \in Int /\ a - arc[i] \in Int
    BY <1>7
  <2> QED
    BY Zenon, <2>1, <2>2, MultiplesAdd
<1>12. Twofold(y)
  <2> HIDE DEF d, sign
  <2> QED
    BY <1>10, <1>11, Signed DEF sign
<1>13. Twofold(x)
  BY <1>2, <1>6 DEF Coloured
<1>14. /\ Level(pt[i]) \in Int /\ Level(pt[1]) \in Int /\ arc[i] \in Int
       /\ pt[i][1] \in Int /\ pt[i][2] \in Int /\ u[1] \in Int /\ u[2] \in Int
  <2>1. \A o \in Points : o[1] \in Int /\ o[2] \in Int /\ Level(o) \in Int
    BY DEF Level, Points
  <2>2. \A k \in Nat : k \in Int
    OBVIOUS
  <2> QED
    BY Zenon, <1>7, <1>9, <2>1, <2>2
<1>15. x \in Int /\ y \in Int
  <2>1. \A k, l \in Int : k * l - k \in Int
    OBVIOUS
  <2>2. sign \in Int
    BY <1>14
  <2>3. x \in Int
    BY <1>14
  <2> HIDE DEF d, sign
  <2> QED
    BY Zenon, <1>11, <2>1, <2>2, <2>3
<1>16. Level(p) - Level(pt[1]) - a = x + y
  <2> DEFINE px == pt[i][1]
             py == pt[i][2]
             ux == u[1]
             uy == u[2]
             o == Level(pt[1])
             b == arc[i]
  <2>1. /\ px \in Int /\ py \in Int /\ ux \in Int /\ uy \in Int /\ o \in Int
        /\ b \in Int /\ a \in Int
    BY <1>14
  <2>2. Level(p) = (px + (a - b) * ux) + (py + (a - b) * uy) /\ Level(pt[i]) = px + py
    BY DEF Level
  <2> HIDE DEF px, py, ux, uy, o, b
  <2>3. ((px + (a - b) * ux) + (py + (a - b) * uy)) - o - a
          = ((px + py) - o - b) + ((a - b) * (ux + uy) - (a - b))
    BY <2>1
  <2> HIDE DEF p
  <2> QED
    BY Zenon, <2>2, <2>3 DEF ux, uy, o, b
<1> HIDE DEF x, y, p
<1>17. Twofold(x + y)
  BY <1>12, <1>13, <1>15, TwofoldsAdd
<1> QED
  BY Zenon, <1>3, <1>16, <1>17 DEF Coloured

\* Nor do two samples in a row lie more than a sample distance apart, or off the
\* mesh.
OneStep(p, q) == p # q /\ Chord(p, q) <= Ds /\ OnMesh(p, q)

Stepwise(pt) == \A i \in 1..(Len(pt) - 1) : OneStep(pt[i], pt[i + 1])

Units == {<<1, 0>>, <<-1, 0>>, <<0, 1>>, <<0, -1>>}

Along(p, u, d) == <<p[1] + d * u[1], p[2] + d * u[2]>>

LEMMA ChordTriangle ==
  ASSUME NEW p \in Points, NEW q \in Points, NEW r \in Points
  PROVE  Chord(p, r) <= Chord(p, q) + Chord(q, r)
PROOF
<1>1. /\ p[1] \in Int /\ p[2] \in Int /\ q[1] \in Int /\ q[2] \in Int
      /\ r[1] \in Int /\ r[2] \in Int
  BY DEF Points
<1>2. \A x, y, z \in Int : Size(x - z) <= Size(x - y) + Size(y - z)
  BY DEF Size
<1>3. \A x, y \in Int : Size(x - y) \in Int
  BY DEF Size
<1> DEFINE a == Size(p[1] - r[1])
           b == Size(p[2] - r[2])
           c == Size(p[1] - q[1])
           d == Size(p[2] - q[2])
           e == Size(q[1] - r[1])
           f == Size(q[2] - r[2])
<1>4. a <= c + e /\ b <= d + f
  BY Zenon, <1>1, <1>2
<1>5. a \in Int /\ b \in Int /\ c \in Int /\ d \in Int /\ e \in Int /\ f \in Int
  BY Zenon, <1>1, <1>3
<1>6. Chord(p, r) = a + b /\ Chord(p, q) = c + d /\ Chord(q, r) = e + f
  BY DEF Chord
<1> HIDE DEF a, b, c, d, e, f
<1> QED
  BY <1>4, <1>5, <1>6

LEMMA AlongChord ==
  ASSUME NEW p \in Points, NEW u \in Units, NEW d \in Int, NEW e \in Int, d <= e
  PROVE  /\ Along(p, u, d) \in Points
         /\ Chord(Along(p, u, d), Along(p, u, e)) = e - d
PROOF
<1>1. p[1] \in Int /\ p[2] \in Int
  BY DEF Points
<1>2. ASSUME NEW x \in {-1, 0, 1}, NEW y \in {-1, 0, 1}, u = <<x, y>>,
             x = 0 <=> y # 0
      PROVE  /\ Along(p, u, d) \in Points
             /\ Chord(Along(p, u, d), Along(p, u, e)) = e - d
  <2>1. u[1] = x /\ u[2] = y
    BY <1>2
  <2>2. /\ Along(p, u, d) = <<p[1] + d * x, p[2] + d * y>>
        /\ Along(p, u, e) = <<p[1] + e * x, p[2] + e * y>>
    BY Zenon, <2>1 DEF Along
  <2>3. Chord(Along(p, u, d), Along(p, u, e))
          = Size((p[1] + d * x) - (p[1] + e * x)) + Size((p[2] + d * y) - (p[2] + e * y))
    BY <2>2 DEF Chord
  <2>4. Along(p, u, d) \in Points
    BY <1>1, <2>2 DEF Points
  <2>5. \A z \in {-1, 1} : \A o \in Int : Size((o + d * z) - (o + e * z)) = e - d
    <3>1. \A o \in Int : Size((o + d * 1) - (o + e * 1)) = e - d
      BY DEF Size
    <3>2. \A o \in Int : Size((o + d * (-1)) - (o + e * (-1))) = e - d
      BY DEF Size
    <3> QED
      BY <3>1, <3>2
  <2>6. \A o \in Int : Size((o + d * 0) - (o + e * 0)) = 0
    BY DEF Size
  <2>7. CASE x = 0
    <3>1. y \in {-1, 1}
      BY <1>2, <2>7
    <3>2. Size((p[1] + d * x) - (p[1] + e * x)) = 0
      BY Zenon, <1>1, <2>6, <2>7
    <3>3. Size((p[2] + d * y) - (p[2] + e * y)) = e - d
      BY Zenon, <1>1, <2>5, <3>1
    <3> QED
      BY <2>3, <2>4, <3>2, <3>3
  <2>8. CASE x # 0
    <3>1. x \in {-1, 1} /\ y = 0
      BY <1>2, <2>8
    <3>2. Size((p[2] + d * y) - (p[2] + e * y)) = 0
      BY Zenon, <1>1, <2>6, <3>1
    <3>3. Size((p[1] + d * x) - (p[1] + e * x)) = e - d
      BY Zenon, <1>1, <2>5, <3>1
    <3> QED
      BY <2>3, <2>4, <3>2, <3>3
  <2> QED
    BY <2>7, <2>8
<1>3. \E x, y \in {-1, 0, 1} : u = <<x, y>> /\ (x = 0 <=> y # 0)
  BY DEF Units
<1> QED
  BY <1>2, <1>3

LEMMA LegUnit ==
  ASSUME NEW p \in Points, NEW q \in Points, p # q, p[1] = q[1] \/ p[2] = q[2]
  PROVE  Signs(p, q) \in Units /\ q = Along(p, Signs(p, q), Chord(p, q))
PROOF
<1> DEFINE c == Chord(p, q)
<1>1. p[1] \in Int /\ p[2] \in Int /\ q[1] \in Int /\ q[2] \in Int
      /\ p = <<p[1], p[2]>> /\ q = <<q[1], q[2]>>
  BY DEF Points
<1>2. p[1] # q[1] \/ p[2] # q[2]
  BY <1>1
<1>3. c \in Int
  BY ChordType
<1>4. CASE p[1] = q[1] /\ q[2] > p[2]
  <2>1. Signs(p, q) = <<0, 1>> /\ q[2] = p[2] + c
    BY <1>1, <1>4 DEF Signs, SignOf, Chord, Size
  <2> HIDE DEF c
  <2>2. Along(p, <<0, 1>>, c) = <<p[1] + c * 0, p[2] + c * 1>>
    BY DEF Along
  <2>3. p[1] + c * 0 = q[1] /\ p[2] + c * 1 = q[2]
    BY <1>1, <1>3, <1>4, <2>1
  <2>4. q = Along(p, Signs(p, q), c)
    BY Zenon, <1>1, <2>1, <2>2, <2>3
  <2> QED
    BY <2>1, <2>4 DEF Units, c
<1>5. CASE p[1] = q[1] /\ q[2] < p[2]
  <2>1. Signs(p, q) = <<0, -1>> /\ q[2] = p[2] - c
    BY <1>1, <1>5 DEF Signs, SignOf, Chord, Size
  <2> HIDE DEF c
  <2>2. Along(p, <<0, -1>>, c) = <<p[1] + c * 0, p[2] + c * (-1)>>
    BY DEF Along
  <2>3. p[1] + c * 0 = q[1] /\ p[2] + c * (-1) = q[2]
    BY <1>1, <1>3, <1>5, <2>1
  <2>4. q = Along(p, Signs(p, q), c)
    BY Zenon, <1>1, <2>1, <2>2, <2>3
  <2> QED
    BY <2>1, <2>4 DEF Units, c
<1>6. CASE p[2] = q[2] /\ q[1] > p[1]
  <2>1. Signs(p, q) = <<1, 0>> /\ q[1] = p[1] + c
    BY <1>1, <1>6 DEF Signs, SignOf, Chord, Size
  <2> HIDE DEF c
  <2>2. Along(p, <<1, 0>>, c) = <<p[1] + c * 1, p[2] + c * 0>>
    BY DEF Along
  <2>3. p[1] + c * 1 = q[1] /\ p[2] + c * 0 = q[2]
    BY <1>1, <1>3, <1>6, <2>1
  <2>4. q = Along(p, Signs(p, q), c)
    BY Zenon, <1>1, <2>1, <2>2, <2>3
  <2> QED
    BY <2>1, <2>4 DEF Units, c
<1>7. CASE p[2] = q[2] /\ q[1] < p[1]
  <2>1. Signs(p, q) = <<-1, 0>> /\ q[1] = p[1] - c
    BY <1>1, <1>7 DEF Signs, SignOf, Chord, Size
  <2> HIDE DEF c
  <2>2. Along(p, <<-1, 0>>, c) = <<p[1] + c * (-1), p[2] + c * 0>>
    BY DEF Along
  <2>3. p[1] + c * (-1) = q[1] /\ p[2] + c * 0 = q[2]
    BY <1>1, <1>3, <1>7, <2>1
  <2>4. q = Along(p, Signs(p, q), c)
    BY Zenon, <1>1, <2>1, <2>2, <2>3
  <2> QED
    BY <2>1, <2>4 DEF Units, c
<1> QED
  BY <1>1, <1>2, <1>4, <1>5, <1>6, <1>7

\* No way is shorter than the chord.
LEMMA ArcsCover ==
  ASSUME NEW pt \in Routes, NEW i \in 1..Len(pt)
  PROVE  \A j \in 1..Len(pt) : i <= j =>
            Chord(pt[i], pt[j]) <= Arcs(pt)[j] - Arcs(pt)[i]
PROOF
<1> DEFINE n == Len(pt)
           arc == Arcs(pt)
           S == {j \in 1..n : i <= j => Chord(pt[i], pt[j]) <= arc[j] - arc[i]}
<1>1. n \in Nat \ {0} /\ pt \in [1..n -> Points] /\ i \in 1..n
  BY RouteType
<1>2. arc \in [1..n -> Nat] /\ ArcRule(n, pt, arc)
  BY <1>1, ArcSteps
<1> HIDE DEF arc, n
<1>3. Chord(pt[i], pt[i]) = 0
  <2>1. Size(0) = 0 /\ \A x \in Int : x - x = 0
    BY DEF Size
  <2>2. pt[i][1] \in Int /\ pt[i][2] \in Int
    BY <1>1 DEF Points
  <2>3. Chord(pt[i], pt[i]) = 0 + 0
    BY Zenon, <2>1, <2>2 DEF Chord
  <2> QED
    BY <2>3
<1>4. ASSUME NEW j \in 1..n, j <= i
      PROVE  j \in S
  <2>1. CASE j = i
    <3>1. Chord(pt[i], pt[j]) = 0 /\ arc[j] - arc[i] = 0
      BY <1>2, <1>3, <2>1
    <3> QED
      BY <3>1
  <2>2. CASE j # i
    <3>1. ~(i <= j)
      BY <1>1, <1>4, <2>2
    <3> QED
      BY <3>1
  <2> QED
    BY <2>1, <2>2
<1>5. 1 \in S
  BY <1>1, <1>4
<1>6. ASSUME NEW j \in 1..n, j \in S, j + 1 \in 1..n
      PROVE  j + 1 \in S
  <2>1. CASE j + 1 <= i
    BY <1>4, <1>6, <2>1
  <2>2. CASE ~(j + 1 <= i)
    <3> DEFINE a == Chord(pt[i], pt[j])
               b == Chord(pt[j], pt[j + 1])
               c == Chord(pt[i], pt[j + 1])
    <3>1. pt[i] \in Points /\ pt[j] \in Points /\ pt[j + 1] \in Points
      BY <1>1, <1>6
    <3>2. a \in Int /\ b \in Int /\ c \in Int /\ c <= a + b
      <4>1. a \in Nat /\ b \in Nat /\ c \in Nat
        BY Zenon, <3>1, ChordType
      <4>2. c <= a + b
        BY Zenon, <3>1, ChordTriangle
      <4> HIDE DEF a, b, c
      <4> QED
        BY <4>1, <4>2
    <3>3. i <= j
      BY <1>1, <1>6, <2>2
    <3>4. a <= arc[j] - arc[i]
      BY <1>6, <3>3
    <3>5. arc[j + 1] = arc[j] + b
      <4>1. j + 1 # 1 /\ (j + 1) - 1 = j
        BY <1>6
      <4> QED
        BY Zenon, <1>2, <1>6, <4>1 DEF ArcRule
    <3>6. arc[i] \in Int /\ arc[j] \in Int
      BY <1>1, <1>2
    <3> HIDE DEF a, b, c
    <3>7. c <= arc[j + 1] - arc[i]
      BY <3>2, <3>4, <3>5, <3>6
    <3> QED
      BY <1>6, <3>7 DEF c
  <2> QED
    BY <2>1, <2>2
<1>7. 1..n \subseteq S
  <2> HIDE DEF S
  <2> QED
    BY <1>1, <1>5, <1>6, Upwards
<1> QED
  BY <1>7 DEF arc, n

\* Where a point of the path lies: so far along a leg.
Runs(pt, i, a, p) ==
    LET arc == Arcs(pt)  u == Signs(pt[i], pt[i + 1]) IN
    /\ arc[i] <= a /\ a <= arc[i + 1]
    /\ u \in Units
    /\ p = Along(pt[i], u, a - arc[i])
    /\ pt[i + 1] = Along(pt[i], u, arc[i + 1] - arc[i])

LEMMA PointRuns ==
  ASSUME NEW pt \in Routes, Meshed(pt), NEW a \in Nat,
         a <= Arcs(pt)[Len(pt)], Arcs(pt)[Len(pt)] > 0
  PROVE  \E i \in 1..(Len(pt) - 1) : Runs(pt, i, a, PointAt(pt, a))
PROOF
<1> DEFINE n == Len(pt)
           arc == Arcs(pt)
           t == [pt |-> pt]
           On(i) == arc[i] <= a /\ a <= arc[i + 1] /\ arc[i] < arc[i + 1]
           i == CHOOSE i \in 1..(n - 1) : On(i)
           u == Tangents(t)[i]
           p == <<pt[i][1] + (a - arc[i]) * u[1], pt[i][2] + (a - arc[i]) * u[2]>>
<1>1. n \in Nat \ {0} /\ pt \in [1..n -> Points]
  BY RouteType
<1>2. arc \in [1..n -> Nat] /\ ArcRule(n, pt, arc)
  BY <1>1, ArcSteps
<1>3. PointAt(pt, a) = p
  BY Zenon DEF PointAt
<1> HIDE DEF arc
<1>4. \E k \in 1..(n - 1) : On(k)
  <2>1. arc[1] = 0
    BY <1>1, <1>2 DEF ArcRule
  <2> HIDE DEF n
  <2> QED
    BY <1>1, <1>2, <2>1, Crossing DEF arc, n
<1>5. i \in 1..(n - 1) /\ On(i)
  <2> HIDE DEF On, n
  <2> QED
    BY Zenon, <1>4
<1> HIDE DEF i, n
<1>6. i \in 1..n /\ i + 1 \in 1..n
  BY <1>1, <1>5
<1>7. pt[i] \in Points /\ pt[i + 1] \in Points /\ arc[i] \in Nat /\ arc[i + 1] \in Nat
  BY <1>1, <1>2, <1>6
<1>8. arc[i + 1] = arc[i] + Chord(pt[i], pt[i + 1])
  <2>1. i + 1 # 1 /\ (i + 1) - 1 = i
    BY <1>6
  <2> QED
    BY Zenon, <1>2, <1>6, <2>1 DEF ArcRule
<1>9. pt[i] # pt[i + 1]
  <2>1. SUFFICES ASSUME pt[i] = pt[i + 1]
                 PROVE  FALSE
    OBVIOUS
  <2>2. Chord(pt[i], pt[i + 1]) = 0
    <3>1. Size(0) = 0 /\ \A x \in Int : x - x = 0
      BY DEF Size
    <3>2. pt[i][1] \in Int /\ pt[i][2] \in Int
      BY <1>7 DEF Points
    <3>3. Chord(pt[i], pt[i]) = 0 + 0
      BY Zenon, <3>1, <3>2 DEF Chord
    <3> QED
      BY <2>1, <3>3
  <2> QED
    BY <1>5, <1>7, <1>8, <2>2
<1>10. u = Signs(pt[i], pt[i + 1])
  <2>1. t.pt = pt /\ Len(t.pt) = n
    BY DEF n
  <2>2. ~Degenerate(t, i)
    BY <1>9, <2>1 DEF Degenerate
  <2> HIDE DEF t
  <2>3. u = Signs(t.pt[i], t.pt[i + 1])
    BY <1>1, <1>5, <2>1, <2>2, TangentType
  <2> QED
    BY <2>1, <2>3
<1> HIDE DEF u
<1>11. u \in Units /\ pt[i + 1] = Along(pt[i], u, Chord(pt[i], pt[i + 1]))
  <2>1. OnMesh(pt[i], pt[i + 1])
    BY <1>5 DEF Meshed, n
  <2> QED
    BY <1>7, <1>9, <1>10, <2>1, LegUnit DEF OnMesh
<1>12. arc[i + 1] - arc[i] = Chord(pt[i], pt[i + 1])
  <2> DEFINE c == Chord(pt[i], pt[i + 1])
  <2>1. c \in Int
    BY <1>7, ChordType
  <2> HIDE DEF c
  <2> QED
    BY <1>7, <1>8, <2>1 DEF c
<1>13. p = Along(pt[i], u, a - arc[i])
  BY Zenon DEF Along
<1> HIDE DEF p
<1>14. Runs(pt, i, a, p)
  BY Zenon, <1>5, <1>10, <1>11, <1>12, <1>13 DEF Runs, arc
<1> QED
  BY Zenon, <1>3, <1>5, <1>14 DEF n

\* Two points of a path lie no further apart than the way between them.
LEMMA PointsClose ==
  ASSUME NEW pt \in Routes, Meshed(pt), NEW a \in Nat, NEW b \in Nat, a < b,
         b <= Arcs(pt)[Len(pt)], Arcs(pt)[Len(pt)] > 0
  PROVE  Chord(PointAt(pt, a), PointAt(pt, b)) <= b - a
PROOF
<1> DEFINE n == Len(pt)
           arc == Arcs(pt)
           p == PointAt(pt, a)
           q == PointAt(pt, b)
<1>1. n \in Nat \ {0} /\ pt \in [1..n -> Points]
  BY RouteType
<1>2. arc \in [1..n -> Nat] /\ ArcRule(n, pt, arc)
  BY <1>1, ArcSteps
<1>3. arc[n] \in Nat /\ a <= arc[n]
  <2>1. n \in 1..n
    BY <1>1
  <2>2. arc[n] \in Nat
    BY <1>2, <2>1
  <2> HIDE DEF arc, n
  <2> QED
    BY <2>2 DEF arc, n
<1>4. PICK i \in 1..(n - 1) : Runs(pt, i, a, p)
  BY <1>3, PointRuns
<1>5. PICK j \in 1..(n - 1) : Runs(pt, j, b, q)
  BY PointRuns
<1> HIDE DEF n, p, q
<1>6. /\ i \in 1..n /\ i + 1 \in 1..n /\ j \in 1..n /\ j + 1 \in 1..n
      /\ i \in Int /\ j \in Int /\ a \in Int /\ b \in Int /\ a <= b
  BY <1>1
<1>7. /\ pt[i] \in Points /\ pt[i + 1] \in Points
      /\ pt[j] \in Points /\ pt[j + 1] \in Points
      /\ arc[i] \in Int /\ arc[i + 1] \in Int /\ arc[j] \in Int /\ arc[j + 1] \in Int
  BY <1>1, <1>2, <1>6
<1> DEFINE u == Signs(pt[i], pt[i + 1])
           v == Signs(pt[j], pt[j + 1])
<1>8. /\ arc[i] <= a /\ a <= arc[i + 1] /\ u \in Units
      /\ p = Along(pt[i], u, a - arc[i])
      /\ pt[i + 1] = Along(pt[i], u, arc[i + 1] - arc[i])
  BY Zenon, <1>4 DEF Runs
<1>9. /\ arc[j] <= b /\ b <= arc[j + 1] /\ v \in Units
      /\ q = Along(pt[j], v, b - arc[j])
      /\ pt[j + 1] = Along(pt[j], v, arc[j + 1] - arc[j])
  BY Zenon, <1>5 DEF Runs
<1> HIDE DEF u, v
<1>10. CASE i = j
  <2>1. q = Along(pt[i], u, b - arc[i])
    BY <1>9, <1>10 DEF u, v
  <2>2. a - arc[i] \in Int /\ b - arc[i] \in Int /\ a - arc[i] <= b - arc[i]
        /\ (b - arc[i]) - (a - arc[i]) = b - a
    BY Zenon, <1>6, <1>7, Measured
  <2>3. Chord(p, q) = (b - arc[i]) - (a - arc[i])
    BY <1>7, <1>8, <2>1, <2>2, AlongChord
  <2>4. Chord(p, q) = b - a
    BY Zenon, <2>2, <2>3
  <2> QED
    BY <2>4 DEF p, q
\* Arcs grow along the path.
<1>11. ASSUME NEW k \in 1..n, NEW l \in 1..n, k <= l
       PROVE  Chord(pt[k], pt[l]) <= arc[l] - arc[k] /\ arc[k] <= arc[l]
  <2>1. Chord(pt[k], pt[l]) <= arc[l] - arc[k]
    BY <1>11, ArcsCover DEF n, arc
  <2>2. Chord(pt[k], pt[l]) \in Nat
    <3>1. pt[k] \in Points /\ pt[l] \in Points
      BY <1>1
    <3> QED
      BY <3>1, ChordType
  <2>3. arc[k] \in Int /\ arc[l] \in Int
    BY <1>2
  <2> DEFINE c == Chord(pt[k], pt[l])
  <2> HIDE DEF c, arc
  <2>4. c <= arc[l] - arc[k] /\ c \in Nat
    BY <2>1, <2>2 DEF c
  <2>5. arc[k] <= arc[l]
    BY <2>3, <2>4
  <2> QED
    BY <2>1, <2>5
<1> HIDE DEF arc
<1>12. CASE j < i
  <2>1. j + 1 <= i
    BY <1>6, <1>12
  <2>2. arc[j + 1] <= arc[i]
    BY <1>6, <1>11, <2>1
  <2> QED
    BY <1>7, <1>8, <1>9, <2>2
<1>13. CASE i < j
  <2>1. i + 1 <= j
    BY <1>6, <1>13
  <2>2. Chord(pt[i + 1], pt[j]) <= arc[j] - arc[i + 1]
    BY <1>6, <1>11, <2>1
  <2>3. Chord(p, pt[i + 1]) = arc[i + 1] - a /\ p \in Points
    <3>1. /\ a - arc[i] \in Int /\ arc[i + 1] - arc[i] \in Int
          /\ a - arc[i] <= arc[i + 1] - arc[i]
          /\ (arc[i + 1] - arc[i]) - (a - arc[i]) = arc[i + 1] - a
      BY Zenon, <1>6, <1>7, <1>8, Measured
    <3>2. /\ Chord(Along(pt[i], u, a - arc[i]), Along(pt[i], u, arc[i + 1] - arc[i]))
               = (arc[i + 1] - arc[i]) - (a - arc[i])
          /\ Along(pt[i], u, a - arc[i]) \in Points
      BY <1>7, <1>8, <3>1, AlongChord
    <3> QED
      BY Zenon, <1>8, <3>1, <3>2
  <2>4. Chord(pt[j], q) = b - arc[j] /\ q \in Points
    <3>1. /\ b - arc[j] \in Int /\ 0 \in Int /\ 0 <= b - arc[j] /\ b - arc[j] <= b - arc[j]
          /\ (b - arc[j]) - 0 = b - arc[j]
      BY Zenon, <1>6, <1>7, <1>9, MeasuredFrom
    <3>2. Chord(Along(pt[j], v, 0), Along(pt[j], v, b - arc[j])) = (b - arc[j]) - 0
      BY Zenon, <1>7, <1>9, <3>1, AlongChord
    <3>3. Along(pt[j], v, b - arc[j]) \in Points
      BY Zenon, <1>7, <1>9, <3>1, AlongChord
    <3>4. Along(pt[j], v, 0) = pt[j]
      <4> DEFINE o == pt[j]
      <4>1. v[1] \in Int /\ v[2] \in Int
        BY <1>9 DEF Units
      <4>2. o[1] \in Int /\ o[2] \in Int /\ o = <<o[1], o[2]>>
        <5>1. o \in Points
          BY Zenon, <1>7
        <5> HIDE DEF o
        <5> QED
          BY <5>1 DEF Points
      <4> HIDE DEF o
      <4>3. o[1] + 0 * v[1] = o[1] /\ o[2] + 0 * v[2] = o[2]
        BY <4>1, <4>2
      <4> QED
        BY Zenon, <4>2, <4>3 DEF Along, o
    <3> QED
      BY Zenon, <1>9, <3>1, <3>2, <3>3, <3>4
  <2> DEFINE x == Chord(p, pt[i + 1])
             y == Chord(pt[i + 1], pt[j])
             z == Chord(pt[j], q)
             w == Chord(p, pt[j])
             c == Chord(p, q)
  <2>5. c <= w + z /\ w <= x + y
    BY <1>7, <2>3, <2>4, ChordTriangle
  <2>6. x \in Int /\ y \in Int /\ z \in Int /\ w \in Int /\ c \in Int
    <3>1. x \in Nat /\ y \in Nat /\ z \in Nat /\ w \in Nat /\ c \in Nat
      BY Zenon, <1>7, <2>3, <2>4, ChordType
    <3> HIDE DEF x, y, z, w, c
    <3> QED
      BY <3>1
  <2>7. x = arc[i + 1] - a /\ y <= arc[j] - arc[i + 1] /\ z = b - arc[j]
    BY <2>2, <2>3, <2>4
  <2> HIDE DEF x, y, z, w, c
  <2>8. c <= b - a
    <3> DEFINE d == arc[i + 1]
               e == arc[j]
    <3>1. d \in Int /\ e \in Int /\ x = d - a /\ y <= e - d /\ z = b - e
      BY Zenon, <1>7, <2>7
    <3> HIDE DEF d, e
    <3>2. w <= (d - a) + (e - d)
      BY <2>5, <2>6, <3>1
    <3>3. c <= (d - a) + (e - d) + (b - e)
      BY <2>5, <2>6, <3>1, <3>2
    <3> QED
      BY <2>6, <3>1, <3>3
  <2> QED
    BY <2>8 DEF c, p, q
<1> QED
  BY <1>6, <1>10, <1>12, <1>13

\* A number of samples other than none is at least one.
LEMMA OneSampleAtLeast ==
  ASSUME NEW x \in Int, Multiple(x)
  PROVE  (x > 0 => x >= Ds) /\ (x < 0 => x <= -Ds)
PROOF
<1>1. Ds \in Nat \ {0}
  BY ReferenceAssumption
<1>2. PICK z \in Int : x = z * Ds
  BY DEF Multiple
<1>3. CASE z >= 1
  <2>1. z * Ds >= Ds
    BY <1>1, <1>3
  <2> QED
    BY <1>1, <1>2, <2>1
<1>4. CASE z = 0
  <2>1. x = 0
    BY <1>1, <1>2, <1>4
  <2> QED
    BY <2>1
<1>5. CASE z <= -1
  <2>1. z * Ds <= -Ds
    BY <1>1, <1>5
  <2> QED
    BY <1>1, <1>2, <2>1
<1> QED
  BY <1>3, <1>4, <1>5

\* Points a number of samples apart in either direction.
Aligned(p, q) == Multiple(p[1] - q[1]) /\ Multiple(p[2] - q[2])

\* The points of a path on the mesh are a number of samples apart either way.
LEMMA GridAligned ==
  ASSUME NEW pt \in Routes, Meshed(pt), NEW i \in 1..Len(pt), NEW k \in 1..Len(pt)
  PROVE  Aligned(pt[i], pt[k])
PROOF
<1> DEFINE n == Len(pt)
           S == {j \in 1..n : Aligned(pt[j], pt[1])}
<1>1. n \in Nat \ {0} /\ pt \in [1..n -> Points] /\ i \in 1..n /\ k \in 1..n
  BY RouteType
<1> HIDE DEF n
<1>2. \A j \in 1..n : pt[j][1] \in Int /\ pt[j][2] \in Int
  BY <1>1 DEF Points
<1>0. \A x, y, z \in Int : /\ x - z = (y - z) + (x - y) /\ x - y \in Int
  OBVIOUS
<1>3. Multiple(0)
  <2>1. 0 = 0 * Ds /\ 0 \in Int
    BY ReferenceAssumption
  <2> QED
    BY Zenon, <2>1 DEF Multiple
<1>4. 1 \in S
  <2>1. 1 \in 1..n
    BY <1>1
  <2>2. pt[1][1] - pt[1][1] = 0 /\ pt[1][2] - pt[1][2] = 0
    BY <1>2, <2>1
  <2> QED
    BY <1>3, <2>1, <2>2 DEF Aligned
<1>5. ASSUME NEW j \in 1..n, j \in S, j + 1 \in 1..n
      PROVE  j + 1 \in S
  <2> DEFINE p == pt[j]
             q == pt[j + 1]
             c == Chord(p, q)
  <2>1. j \in 1..(n - 1)
    BY <1>1, <1>5
  <2>2. (p[1] = q[1] \/ p[2] = q[2]) /\ c % Ds = 0
    BY <2>1 DEF Meshed, OnMesh, n
  <2>3. p \in Points /\ q \in Points /\ c \in Int
    <3>1. p \in Points /\ q \in Points
      BY <1>1, <1>5
    <3> HIDE DEF p, q
    <3> QED
      BY <3>1, ChordType
  <2>4. p[1] \in Int /\ p[2] \in Int /\ q[1] \in Int /\ q[2] \in Int
    BY <2>3 DEF Points
  <2>5. Multiple(c)
    BY <2>2, <2>3, MultipleOf
  <2>6. /\ \/ q[1] - p[1] = 0 \/ q[1] - p[1] = c \/ q[1] - p[1] = 0 - c
        /\ \/ q[2] - p[2] = 0 \/ q[2] - p[2] = c \/ q[2] - p[2] = 0 - c
    BY <2>2, <2>4 DEF Chord, Size
  <2> HIDE DEF c, p, q
  <2>7. Multiple(0 - c)
    BY <1>3, <2>3, <2>5, MultiplesAdd
  <2>8. Multiple(q[1] - p[1]) /\ Multiple(q[2] - p[2])
    BY Zenon, <1>3, <2>5, <2>6, <2>7
  <2> DEFINE o == pt[1]
  <2>9. o[1] \in Int /\ o[2] \in Int
    BY <1>1, <1>2
  <2>10. Multiple(p[1] - o[1]) /\ Multiple(p[2] - o[2])
    BY <1>5 DEF Aligned, p
  <2> HIDE DEF o
  <2>11. /\ q[1] - o[1] = (p[1] - o[1]) + (q[1] - p[1])
         /\ q[2] - o[2] = (p[2] - o[2]) + (q[2] - p[2])
         /\ p[1] - o[1] \in Int /\ p[2] - o[2] \in Int
         /\ q[1] - p[1] \in Int /\ q[2] - p[2] \in Int
    BY Zenon, <1>0, <2>4, <2>9
  <2>12. Multiple(q[1] - o[1]) /\ Multiple(q[2] - o[2])
    <3>1. /\ Multiple((p[1] - o[1]) + (q[1] - p[1]))
          /\ Multiple((p[2] - o[2]) + (q[2] - p[2]))
      BY Zenon, <2>8, <2>10, <2>11, MultiplesAdd
    <3> QED
      BY Zenon, <2>11, <3>1
  <2> QED
    BY <1>5, <2>12 DEF Aligned, q, o
<1>6. 1..n \subseteq S
  <2>1. \A j \in 1..n : j \in S /\ j + 1 \in 1..n => j + 1 \in S
    BY <1>5
  <2> HIDE DEF S
  <2> QED
    BY <1>1, <1>4, <2>1, Upwards
<1> DEFINE o == pt[1]
           p == pt[i]
           q == pt[k]
<1>7. /\ Multiple(p[1] - o[1]) /\ Multiple(p[2] - o[2])
      /\ Multiple(q[1] - o[1]) /\ Multiple(q[2] - o[2])
  BY <1>1, <1>6 DEF Aligned
<1>8. /\ o[1] \in Int /\ o[2] \in Int /\ p[1] \in Int /\ p[2] \in Int
      /\ q[1] \in Int /\ q[2] \in Int
  BY <1>1, <1>2
<1> HIDE DEF o, p, q
<1>9. ASSUME NEW x \in Int, NEW y \in Int, NEW z \in Int,
             Multiple(x - z), Multiple(y - z)
      PROVE  Multiple(x - y)
  <2>1. x - y = (x - z) - (y - z) /\ x - z \in Int /\ y - z \in Int
    OBVIOUS
  <2>2. Multiple((x - z) - (y - z))
    BY Zenon, <1>9, <2>1, MultiplesAdd
  <2> QED
    BY Zenon, <2>1, <2>2
<1>10. Multiple(p[1] - q[1]) /\ Multiple(p[2] - q[2])
  BY Zenon, <1>7, <1>8, <1>9
<1> QED
  BY <1>10 DEF Aligned, p, q

\* So are the points it runs through at a number of samples from the start.
LEMMA PointAligned ==
  ASSUME NEW pt \in Routes, Meshed(pt), NEW a \in Nat, Multiple(a),
         a <= Arcs(pt)[Len(pt)], Arcs(pt)[Len(pt)] > 0
  PROVE  Aligned(PointAt(pt, a), pt[1])
PROOF
<1> DEFINE n == Len(pt)
           arc == Arcs(pt)
           p == PointAt(pt, a)
           o == pt[1]
<1>1. n \in Nat \ {0} /\ pt \in [1..n -> Points]
  BY RouteType
<1>2. arc \in [1..n -> Nat]
  BY <1>1, ArcSteps
<1>3. PICK i \in 1..(n - 1) : Runs(pt, i, a, p)
  BY PointRuns
<1> DEFINE u == Signs(pt[i], pt[i + 1])
           q == pt[i]
           b == arc[i]
<1>4. u \in Units /\ p = Along(q, u, a - b)
  BY Zenon, <1>3 DEF Runs
<1>5. i \in 1..n /\ 1 \in 1..n
  BY <1>1
<1>6. Aligned(q, o)
  BY Zenon, <1>5, GridAligned DEF n
<1>7. Multiple(b)
  BY Zenon, <1>5, ArcsOnMesh DEF n
<1>8. b \in Int /\ q \in Points /\ o \in Points
  BY <1>1, <1>2, <1>5
<1> HIDE DEF n, arc, p, o, u, q, b
<1>9. q[1] \in Int /\ q[2] \in Int /\ o[1] \in Int /\ o[2] \in Int
  BY <1>8 DEF Points
<1> DEFINE d == a - b
<1>10. d \in Int /\ Multiple(d)
  BY <1>7, <1>8, MultiplesAdd
<1> HIDE DEF d
<1>11. ASSUME NEW z \in {-1, 0, 1}
       PROVE  d * z \in Int /\ Multiple(d * z)
  <2>1. CASE z = 0
    <3>1. d * z = 0 /\ 0 = 0 * Ds /\ 0 \in Int
      BY <1>10, <2>1, ReferenceAssumption
    <3> QED
      BY Zenon, <3>1 DEF Multiple
  <2>2. CASE z = 1
    <3>1. d * z = d
      BY <1>10, <2>2
    <3> QED
      BY <1>10, <3>1
  <2>3. CASE z = -1
    <3>1. d * z = (d - d) - d /\ d - d \in Int /\ d * z \in Int
      BY <1>10, <2>3
    <3>2. Multiple(d - d)
      BY <1>10, MultiplesAdd
    <3>3. Multiple((d - d) - d)
      BY <1>10, <3>1, <3>2, MultiplesAdd
    <3> QED
      BY Zenon, <3>1, <3>3
  <2> QED
    BY <2>1, <2>2, <2>3
<1>12. u[1] \in {-1, 0, 1} /\ u[2] \in {-1, 0, 1}
  BY <1>4 DEF Units
<1>13. ASSUME NEW x \in Int, NEW y \in Int, NEW z \in {-1, 0, 1}, Multiple(x - y)
       PROVE  Multiple((x + d * z) - y)
  <2> DEFINE e == d * z
  <2>1. e \in Int /\ Multiple(e)
    BY <1>11
  <2> HIDE DEF e
  <2>2. x - y \in Int /\ (x + e) - y = (x - y) + e
    BY <2>1
  <2>3. Multiple((x - y) + e)
    BY <1>13, <2>1, <2>2, MultiplesAdd
  <2> QED
    BY Zenon, <2>2, <2>3 DEF e
<1>14. p[1] = q[1] + d * u[1] /\ p[2] = q[2] + d * u[2]
  <2>1. p = <<q[1] + d * u[1], q[2] + d * u[2]>>
    BY Zenon, <1>4 DEF Along, d
  <2> QED
    BY <2>1
<1>15. Multiple(q[1] - o[1]) /\ Multiple(q[2] - o[2])
  BY Zenon, <1>6 DEF Aligned
<1>16. Multiple(p[1] - o[1]) /\ Multiple(p[2] - o[2])
  BY Zenon, <1>9, <1>12, <1>13, <1>14, <1>15
<1> QED
  BY Zenon, <1>16 DEF Aligned, p, o

\* Different points of the grid that are no more than a sample apart are
\* neighbours on it.
LEMMA MeshNeighbours ==
  ASSUME NEW p \in Points, NEW q \in Points, NEW o \in Points, p # q,
         Aligned(p, o), Aligned(q, o), Chord(p, q) <= Ds
  PROVE  OnMesh(p, q)
PROOF
<1> DEFINE a == p[1] - q[1]
           b == p[2] - q[2]
<1>1. /\ p[1] \in Int /\ p[2] \in Int /\ q[1] \in Int /\ q[2] \in Int
      /\ o[1] \in Int /\ o[2] \in Int
  BY DEF Points
<1>2. ASSUME NEW x \in Int, NEW y \in Int, NEW z \in Int,
             Multiple(x - z), Multiple(y - z)
      PROVE  Multiple(x - y)
  <2>1. x - y = (x - z) - (y - z) /\ x - z \in Int /\ y - z \in Int
    OBVIOUS
  <2>2. Multiple((x - z) - (y - z))
    BY Zenon, <1>2, <2>1, MultiplesAdd
  <2> QED
    BY Zenon, <2>1, <2>2
<1>3. a \in Int /\ b \in Int /\ Multiple(a) /\ Multiple(b)
  <2>1. Multiple(a) /\ Multiple(b)
    BY Zenon, <1>1, <1>2 DEF Aligned
  <2> QED
    BY <1>1, <2>1
<1>4. (a = 0 <=> p[1] = q[1]) /\ (b = 0 <=> p[2] = q[2])
  BY <1>1
<1> HIDE DEF a, b
<1>5. /\ (a > 0 => a >= Ds) /\ (a < 0 => a <= -Ds)
      /\ (b > 0 => b >= Ds) /\ (b < 0 => b <= -Ds)
  BY <1>3, OneSampleAtLeast
<1>6. Ds \in Nat \ {0}
  BY ReferenceAssumption
<1>7. Size(a) + Size(b) <= Ds /\ Chord(p, q) = Size(a) + Size(b)
  <2>1. Chord(p, q) = Size(a) + Size(b)
    BY Zenon DEF Chord, a, b
  <2> QED
    BY Zenon, <2>1
<1>8. ~(a = 0 /\ b = 0)
  <2>1. p[1] # q[1] \/ p[2] # q[2]
    BY DEF Points
  <2> QED
    BY <1>4, <2>1
<1>9. (a = 0 \/ b = 0) /\ Size(a) + Size(b) = Ds
  BY <1>3, <1>5, <1>6, <1>7, <1>8 DEF Size
<1>10. Ds % Ds = 0
  BY <1>6
<1> QED
  BY <1>4, <1>7, <1>9, <1>10 DEF OnMesh

\* Two samples in a row never coincide, however the path folds back, never lie
\* far apart, and are neighbours on the mesh.
LEMMA ResampledStepwise ==
  ASSUME NEW pt \in Routes, Meshed(pt), Arcs(pt)[Len(pt)] > 0
  PROVE  Stepwise(Resampled(pt))
PROOF
<1> DEFINE total == Arcs(pt)[Len(pt)]
           count == (total \div Ds) + 1
<1>1. total \in Nat
  <2>1. Len(pt) \in Nat \ {0} /\ pt \in [1..Len(pt) -> Points]
    BY RouteType
  <2>2. Arcs(pt) \in [1..Len(pt) -> Nat]
    BY <2>1, ArcSteps
  <2> QED
    BY <2>1, <2>2
<1>2. Ds \in Nat \ {0}
  BY ReferenceAssumption
<1>3. Resampled(pt) = [k \in 1..count |-> PointAt(pt, (k - 1) * Ds)]
  <2>1. total # 0
    BY <1>1
  <2> QED
    BY Zenon, <2>1 DEF Resampled
<1>4. count \in Nat \ {0}
  BY <1>1, <1>2
<1>5. Len(Resampled(pt)) = count
  <2> HIDE DEF count
  <2> QED
    BY <1>3, <1>4
<1>6. ASSUME NEW a \in Nat, a <= total, Multiple(a), NEW b \in Nat, b <= total,
             Multiple(b), b = a + Ds
      PROVE  PointAt(pt, a) # PointAt(pt, b)
  <2> DEFINE p == PointAt(pt, a)
             q == PointAt(pt, b)
             x == Level(p) - Level(pt[1]) - a
             y == Level(p) - Level(pt[1]) - b
  <2>1. SUFFICES ASSUME p = q
                 PROVE  FALSE
    OBVIOUS
  <2>2. Coloured(pt, p, a) /\ Coloured(pt, p, b)
    BY <1>6, <2>1, PointOnMesh
  <2>3. p \in Points /\ pt[1] \in Points
    <3>1. p \in Points
      BY <1>6, PointAtType
    <3>2. pt[1] \in Points
      BY RouteType
    <3> QED
      BY <3>1, <3>2
  <2> HIDE DEF p, q
  <2>4. x \in Int /\ y \in Int /\ x - y = Ds
    <3>1. Level(p) \in Int /\ Level(pt[1]) \in Int
      BY <2>3 DEF Level, Points
    <3> QED
      BY <1>2, <1>6, <3>1
  <2>5. Twofold(x) /\ Twofold(y)
    BY <2>2 DEF Coloured
  <2> HIDE DEF x, y
  <2>6. Twofold(x - y)
    BY <2>4, <2>5, TwofoldsAdd
  <2> QED
    BY <2>4, <2>6, OneSample
<1>7. ASSUME NEW k \in 1..(count - 1)
      PROVE  OneStep(PointAt(pt, (k - 1) * Ds), PointAt(pt, ((k + 1) - 1) * Ds))
  <2> DEFINE a == (k - 1) * Ds
             b == ((k + 1) - 1) * Ds
  <2>1. total \div Ds \in Nat
    BY <1>1, <1>2
  <2>2. k - 1 \in 0..(total \div Ds) /\ (k + 1) - 1 \in 0..(total \div Ds)
        /\ k - 1 \in Int /\ (k + 1) - 1 \in Int
    BY <2>1
  <2>3. a \in Nat /\ a <= total /\ b \in Nat /\ b <= total
    <3> HIDE DEF total
    <3> QED
      BY <1>1, <1>2, <2>2, Quotient
  <2>4. Multiple(a) /\ Multiple(b)
    BY Zenon, <2>2 DEF Multiple
  <2>5. b = a + Ds
    BY <1>2, <2>2
  <2> HIDE DEF a, b, total
  <2>6. PointAt(pt, a) # PointAt(pt, b)
    BY <1>6, <2>3, <2>4, <2>5
  <2>7. a < b /\ b - a = Ds
    BY <1>2, <2>3, <2>5
  <2>8. Chord(PointAt(pt, a), PointAt(pt, b)) <= b - a
    BY <2>3, <2>7, PointsClose DEF total
  <2>9. OnMesh(PointAt(pt, a), PointAt(pt, b))
    <3> DEFINE p == PointAt(pt, a)
               q == PointAt(pt, b)
               o == pt[1]
    <3>1. p \in Points /\ q \in Points /\ o \in Points
      <4>1. p \in Points /\ q \in Points
        BY <2>3, PointAtType DEF total
      <4>2. o \in Points
        BY RouteType
      <4> QED
        BY <4>1, <4>2
    <3>2. Aligned(p, o) /\ Aligned(q, o)
      BY <2>3, <2>4, PointAligned DEF total
    <3>3. Chord(p, q) <= Ds
      BY <2>7, <2>8
    <3>4. p # q
      BY <2>6
    <3> HIDE DEF p, q, o
    <3>5. OnMesh(p, q)
      BY <3>1, <3>2, <3>3, <3>4, MeshNeighbours
    <3> QED
      BY <3>5 DEF p, q
  <2>10. OneStep(PointAt(pt, a), PointAt(pt, b))
    BY Zenon, <2>6, <2>7, <2>8, <2>9 DEF OneStep
  <2> QED
    BY <2>10 DEF a, b
<1> HIDE DEF count
<1>8. \A k \in 1..(count - 1) : k \in 1..count /\ k + 1 \in 1..count
  BY <1>4
<1>9. ASSUME NEW k \in 1..(count - 1)
      PROVE  OneStep(Resampled(pt)[k], Resampled(pt)[k + 1])
  BY <1>3, <1>7, <1>8
<1> QED
  BY <1>5, <1>9 DEF Stepwise

-----------------------------------------------------------------------------
(***************************************************************************)
(* Headings, turns and the speeds they leave.                              *)
(***************************************************************************)

LEMMA HeadingType ==
  ASSUME NEW pt \in Routes, NEW i \in 1..Len(pt)
  PROVE  Heading(pt, i) \in Octants
PROOF
<1> DEFINE a == pt[Most(i - 1, 1)]
           b == pt[Least(i + 1, Len(pt))]
<1>1. Len(pt) \in Nat \ {0} /\ pt \in [1..Len(pt) -> Points]
  BY RouteType
<1>2. Most(i - 1, 1) \in 1..Len(pt) /\ Least(i + 1, Len(pt)) \in 1..Len(pt)
  BY <1>1 DEF Most, Least
<1>3. a \in Points /\ b \in Points
  BY <1>1, <1>2
<1>4. Heading(pt, i) = Direction(b[1] - a[1], b[2] - a[2])
  BY DEF Heading
<1> HIDE DEF a, b
<1>5. ASSUME NEW dx \in Int, NEW dy \in Int
      PROVE  Direction(dx, dy) \in Octants
  BY DEF Direction, Octants
<1>6. b[1] - a[1] \in Int /\ b[2] - a[2] \in Int
  BY <1>3 DEF Points
<1> QED
  BY <1>4, <1>5, <1>6

LEMMA TurnType ==
  ASSUME NEW pt \in Routes, NEW i \in 1..Len(pt)
  PROVE  Turn(pt, i) \in Int
PROOF
<1> DEFINE n == Len(pt)
           k == Between(i, 2, n - 1)
<1>1. n \in Nat \ {0}
  BY RouteType
<1>2. CASE n < 3 \/ Chord(pt[1], pt[2]) = 0
  BY <1>2 DEF Turn
<1>3. CASE ~(n < 3 \/ Chord(pt[1], pt[2]) = 0)
  <2>1. Turn(pt, i) = Turned(Heading(pt, k + 1), Heading(pt, k - 1))
    BY <1>3 DEF Turn
  <2>2. k + 1 \in 1..Len(pt) /\ k - 1 \in 1..Len(pt)
    BY <1>1, <1>3 DEF Between
  <2> HIDE DEF k
  <2>3. Heading(pt, k + 1) \in Octants /\ Heading(pt, k - 1) \in Octants
    BY <2>2, HeadingType
  <2>4. ASSUME NEW a \in Octants, NEW b \in Octants
        PROVE  Turned(a, b) \in Int
    BY DEF Turned, Octants
  <2> QED
    BY <2>1, <2>3, <2>4
<1> QED
  BY <1>2, <1>3

\* What the production entry completes the speed of a point to.
EntryEnergy(pt, i) == Square(Completed(VDefault, VMax, Turn(pt, i)))

Demanded(pt) == [i \in 1..Len(pt) |-> EntryEnergy(pt, i)]

LEMMA SquareType ==
  ASSUME NEW v \in Int
  PROVE  Square(v) \in Int
BY DEF Square

\* A cap on the turn rate is a whole number or does not matter.
LEMMA CapType ==
  ASSUME NEW v \in Nat, NEW rate \in Nat, NEW turn \in Int
  PROVE  (IF turn = 0 THEN v ELSE Least(v, rate \div Size(turn))) \in Int
PROOF
<1>1. CASE turn = 0
  BY <1>1
<1>2. CASE turn # 0
  <2>1. Size(turn) \in Nat \ {0}
    BY <1>2 DEF Size
  <2>2. rate \div Size(turn) \in Int
    BY <2>1
  <2> QED
    BY <1>2, <2>2 DEF Least
<1> QED
  BY <1>1, <1>2

LEMMA CompletedType ==
  ASSUME NEW v \in Nat, NEW top \in Nat, NEW turn \in Int
  PROVE  Completed(v, top, turn) \in Int
PROOF
<1> DEFINE cap == IF turn = 0 THEN v ELSE Least(v, OmegaMax \div Size(turn))
           lifted == IF Size(turn) * VFloor <= OmegaMax THEN Most(cap, VFloor) ELSE cap
<1>1. VFloor \in Nat /\ OmegaMax \in Nat
  BY ReferenceAssumption
<1>2. cap \in Int
  BY <1>1, CapType
<1>3. Completed(v, top, turn) = Least(lifted, top)
  BY Zenon DEF Completed
<1> HIDE DEF cap
<1>4. lifted \in Int
  BY <1>1, <1>2 DEF Most
<1> HIDE DEF lifted
<1> QED
  BY <1>3, <1>4 DEF Least

LEMMA EntryEnergyType ==
  ASSUME NEW pt \in Routes, NEW i \in 1..Len(pt)
  PROVE  EntryEnergy(pt, i) \in Int
PROOF
<1>1. VDefault \in Nat /\ VMax \in Nat
  BY ReferenceAssumption
<1>2. Turn(pt, i) \in Int
  BY TurnType
<1>3. Completed(VDefault, VMax, Turn(pt, i)) \in Int
  BY <1>1, <1>2, CompletedType
<1> QED
  BY <1>3, SquareType DEF EntryEnergy

LEMMA DemandedType ==
  ASSUME NEW pt \in Routes
  PROVE  Demanded(pt) \in [1..Len(pt) -> Int]
BY EntryEnergyType DEF Demanded

LEMMA EnergyType ==
  ASSUME NEW pt \in Routes, NEW i \in 1..Len(pt)
  PROVE  TurnAt(pt, i) \in Int /\ EnergyAt(pt, i) \in Int
PROOF
<1>1. /\ VDefault \in Nat /\ VMax \in Nat /\ VRecorded \in Nat /\ VFloor \in Nat
      /\ VAdapted \in Nat /\ CurveSpeed \in Nat /\ OmegaMax \in Nat
  BY ReferenceAssumption
<1>2. Turn(pt, i) \in Int
  BY TurnType
<1>3. InnerTurn(pt, i) \in Int
  BY <1>2 DEF InnerTurn
<1>4. TurnAt(pt, i) \in Int
  BY <1>2, <1>3 DEF TurnAt
<1>5. Most(VRecorded, VFloor) \in Nat
  BY <1>1 DEF Most
<1>6. CompletedEnergy(pt, i) \in Int
  <2>1. Asked \in Nat /\ Ceiling \in Nat
    BY <1>1, <1>5 DEF Asked, Ceiling
  <2>2. Completed(Asked, Ceiling, Turn(pt, i)) \in Int
    BY <1>2, <2>1, CompletedType
  <2> QED
    BY <2>2, SquareType DEF CompletedEnergy
<1>7. PlannedEnergy(pt, i) \in Int
  <2>1. Completed(VRecorded, Most(VRecorded, VFloor), InnerTurn(pt, i)) \in Int
    BY <1>1, <1>3, <1>5, CompletedType
  <2> DEFINE energy == Square(Completed(VRecorded, Most(VRecorded, VFloor),
                                        InnerTurn(pt, i)))
  <2>2. energy \in Int
    BY <2>1, SquareType
  <2>3. PlannedEnergy(pt, i) = (IF i < Len(pt) THEN 1 ELSE -1) * energy
    BY DEF PlannedEnergy
  <2> HIDE DEF energy
  <2> QED
    BY <2>2, <2>3
<1>8. AdaptedEnergy(pt, i) \in Int
  <2> DEFINE turn == Size(Turn(pt, i))
             rate == Least(CurveSpeed, OmegaMax)
             v == IF turn = 0 THEN VAdapted ELSE Least(VAdapted, rate \div turn)
  <2>1. turn \in Nat /\ rate \in Nat
    BY <1>1, <1>2 DEF Size, Least
  <2>2. Size(turn) = turn
    BY <2>1 DEF Size
  <2>3. AdaptedEnergy(pt, i) = Square(v)
    BY Zenon DEF AdaptedEnergy
  <2> HIDE DEF turn, rate
  <2>4. (IF turn = 0 THEN VAdapted ELSE Least(VAdapted, rate \div Size(turn))) \in Int
    BY <1>1, <2>1, CapType
  <2>5. v \in Int
    BY <2>2, <2>4
  <2> QED
    BY <2>3, <2>5, SquareType
<1>9. Square(VDefault) \in Int
  BY <1>1, SquareType
<1> QED
  BY <1>4, <1>6, <1>7, <1>8, <1>9 DEF EnergyAt

-----------------------------------------------------------------------------
(***************************************************************************)
(* No turn is taken too fast.                                              *)
(***************************************************************************)

\* The turn rate of a sample is within bounds, in either direction.
Slow(turn, energy) == Square(turn) * Size(energy) <= Square(OmegaMax)

LEMMA SizeType ==
  ASSUME NEW x \in Int
  PROVE  Size(x) \in Nat /\ Square(x) = Size(x) * Size(x) /\ Size(-x) = Size(x)
PROOF
<1>1. Size(x) \in Nat /\ Size(-x) = Size(x)
  BY DEF Size
<1>2. CASE x < 0
  <2>1. Size(x) = -x /\ x * x = (-x) * (-x)
    BY <1>2 DEF Size
  <2> QED
    BY <1>1, <2>1 DEF Square
<1>3. CASE x >= 0
  BY <1>1, <1>3 DEF Size, Square
<1> QED
  BY <1>2, <1>3

LEMMA SlowEnough ==
  ASSUME NEW turn \in Int, NEW v \in Nat, Size(turn) * v <= OmegaMax
  PROVE  /\ Square(v) \in Nat
         /\ Slow(turn, Square(v)) /\ Slow(turn, -Square(v))
PROOF
<1> DEFINE t == Size(turn)
           e == Square(v)
<1>1. t \in Nat /\ Square(turn) = t * t /\ OmegaMax \in Nat
  BY SizeType, ReferenceAssumption
<1>2. e = v * v /\ e \in Nat
  BY DEF Square
<1> HIDE DEF t, e
<1>3. Size(e) = e /\ Size(-e) = e
  BY <1>2 DEF Size
<1>4. (t * t) * e = (t * v) * (t * v)
  BY <1>1, <1>2
<1>5. (t * v) * (t * v) <= OmegaMax * OmegaMax
  <2> DEFINE x == t * v
  <2>1. x \in Nat /\ x <= OmegaMax
    BY <1>1 DEF t
  <2> HIDE DEF x
  <2>2. x * x <= x * OmegaMax /\ x * OmegaMax <= OmegaMax * OmegaMax
    BY <1>1, <2>1
  <2>3. x * x \in Nat /\ x * OmegaMax \in Nat /\ OmegaMax * OmegaMax \in Nat
    BY <1>1, <2>1
  <2>4. x * x <= OmegaMax * OmegaMax
    BY <2>2, <2>3
  <2> QED
    BY <2>4 DEF x
<1>6. Square(turn) * Size(e) <= Square(OmegaMax)
      /\ Square(turn) * Size(-e) <= Square(OmegaMax)
  BY Zenon, <1>1, <1>3, <1>4, <1>5 DEF Square
<1> QED
  BY <1>2, <1>6 DEF Slow, e

\* Going slower is no faster.
LEMMA SlowerYet ==
  ASSUME NEW turn \in Int, NEW e \in Nat, NEW f \in Nat, f <= e, Slow(turn, e)
  PROVE  Slow(turn, f)
PROOF
<1> DEFINE t == Square(turn)
<1>1. t \in Nat
  <2>1. Size(turn) \in Nat /\ t = Size(turn) * Size(turn)
    BY SizeType
  <2> QED
    BY <2>1
<1>2. Square(OmegaMax) \in Int
  BY ReferenceAssumption DEF Square
<1>3. Size(e) = e /\ Size(f) = f
  BY DEF Size
<1> HIDE DEF t
<1>4. t * f <= t * e /\ t * e \in Int /\ t * f \in Int
  BY <1>1
<1>5. t * e <= Square(OmegaMax)
  BY <1>3 DEF Slow, t
<1>6. t * f <= Square(OmegaMax)
  BY <1>2, <1>4, <1>5
<1> QED
  BY <1>3, <1>6 DEF Slow, t

LEMMA RateOf ==
  ASSUME NEW rate \in Nat, NEW t \in Nat \ {0}
  PROVE  rate \div t \in Nat /\ t * (rate \div t) <= rate
PROOF
<1>1. rate = t * (rate \div t) + (rate % t) /\ 0 <= rate % t
      /\ rate \div t \in Nat /\ rate % t \in Int
  OBVIOUS
<1> QED
  BY <1>1

LEMMA CompletedSlow ==
  ASSUME NEW v \in Nat, NEW top \in Nat, NEW turn \in Int
  PROVE  /\ Completed(v, top, turn) \in Nat
         /\ Size(turn) * Completed(v, top, turn) <= OmegaMax
PROOF
<1> DEFINE t == Size(turn)
           cap == IF turn = 0 THEN v ELSE Least(v, OmegaMax \div t)
           lifted == IF t * VFloor <= OmegaMax THEN Most(cap, VFloor) ELSE cap
           w == Least(lifted, top)
<1>1. VFloor \in Nat /\ OmegaMax \in Nat
  BY ReferenceAssumption
<1>2. t \in Nat /\ (turn = 0 <=> t = 0)
  BY DEF Size
<1>3. Completed(v, top, turn) = w
  BY Zenon DEF Completed
<1> HIDE DEF t
<1>4. cap \in Nat /\ t * cap <= OmegaMax
  <2>1. CASE turn = 0
    BY <1>1, <1>2, <2>1
  <2>2. CASE turn # 0
    <3>1. OmegaMax \div t \in Nat /\ t * (OmegaMax \div t) <= OmegaMax
      BY <1>1, <1>2, <2>2, RateOf
    <3>2. cap \in Nat /\ cap <= OmegaMax \div t
      BY <2>2, <3>1 DEF Least
    <3> HIDE DEF cap
    <3>3. t * cap <= t * (OmegaMax \div t) /\ t * cap \in Int
      BY <1>2, <3>1, <3>2
    <3> QED
      BY <1>1, <1>2, <3>1, <3>2, <3>3
  <2> QED
    BY <2>1, <2>2
<1> HIDE DEF cap
<1>5. lifted \in Nat /\ t * lifted <= OmegaMax
  BY <1>1, <1>2, <1>4 DEF Most
<1> HIDE DEF lifted
<1>6. w \in Nat /\ w <= lifted
  BY <1>5 DEF Least
<1> HIDE DEF w
<1>7. t * w <= t * lifted /\ t * w \in Int /\ t * lifted \in Int
  BY <1>2, <1>5, <1>6
<1>8. t * w <= OmegaMax
  BY <1>1, <1>5, <1>7
<1> QED
  BY <1>3, <1>6, <1>8 DEF t

LEMMA AdaptedSlow ==
  ASSUME NEW turn \in Int
  PROVE  LET v == IF Size(turn) = 0 THEN VAdapted
                  ELSE Least(VAdapted, Least(CurveSpeed, OmegaMax) \div Size(turn))
         IN  v \in Nat /\ Size(turn) * v <= OmegaMax
PROOF
<1> DEFINE t == Size(turn)
           rate == Least(CurveSpeed, OmegaMax)
           v == IF t = 0 THEN VAdapted ELSE Least(VAdapted, rate \div t)
<1>1. VAdapted \in Nat /\ OmegaMax \in Nat /\ rate \in Nat /\ rate <= OmegaMax
  BY ReferenceAssumption DEF Least
<1>2. t \in Nat
  BY SizeType
<1> HIDE DEF t, rate
<1>3. CASE t = 0
  BY <1>1, <1>2, <1>3 DEF t, rate
<1>4. CASE t # 0
  <2>1. rate \div t \in Nat /\ t * (rate \div t) <= rate
    BY <1>1, <1>2, <1>4, RateOf
  <2>2. v \in Nat /\ v <= rate \div t
    BY <1>1, <1>4, <2>1 DEF Least
  <2> HIDE DEF v
  <2>3. t * v <= t * (rate \div t) /\ t * v \in Int /\ t * (rate \div t) \in Int
    BY <1>2, <2>1, <2>2
  <2>4. t * v <= OmegaMax
    BY <1>1, <2>1, <2>3
  <2> QED
    BY Zenon, <2>2, <2>4 DEF v, t, rate
<1> QED
  BY <1>3, <1>4

\* What a path is completed with keeps every turn rate within bounds, and
\* drives no sample backwards, except the last one of a planned path.
LEMMA EnergySlow ==
  ASSUME NEW pt \in Routes, NEW i \in 1..Len(pt), recipe # "scenario"
  PROVE  /\ Slow(TurnAt(pt, i), EnergyAt(pt, i))
         /\ recipe \notin Planned \/ i < Len(pt) => EnergyAt(pt, i) >= 0
PROOF
<1>1. /\ VDefault \in Nat /\ VMax \in Nat /\ VRecorded \in Nat /\ VFloor \in Nat
      /\ Most(VRecorded, VFloor) \in Nat /\ Asked \in Nat /\ Ceiling \in Nat
  BY ReferenceAssumption DEF Most, Asked, Ceiling
<1>2. Turn(pt, i) \in Int /\ InnerTurn(pt, i) \in Int /\ i <= Len(pt) /\ Len(pt) \in Nat
  <2>1. Turn(pt, i) \in Int
    BY TurnType
  <2>2. Len(pt) \in Nat
    BY RouteType
  <2> QED
    BY <2>1, <2>2 DEF InnerTurn
<1>3. CASE recipe \in Planned
  <2> DEFINE turn == InnerTurn(pt, i)
             v == Completed(VRecorded, Most(VRecorded, VFloor), turn)
  <2>1. TurnAt(pt, i) = turn
    BY <1>3 DEF TurnAt
  <2>2. EnergyAt(pt, i) = (IF i < Len(pt) THEN 1 ELSE -1) * Square(v)
    BY <1>3 DEF EnergyAt, PlannedEnergy, Planned, Adapted
  <2>3. v \in Nat /\ Size(turn) * v <= OmegaMax
    BY <1>1, <1>2, CompletedSlow
  <2> HIDE DEF v, turn
  <2>4. /\ Square(v) \in Nat /\ Slow(turn, Square(v)) /\ Slow(turn, -Square(v))
    BY <1>2, <2>3, SlowEnough DEF turn
  <2>5. /\ i < Len(pt) => EnergyAt(pt, i) = Square(v)
        /\ ~(i < Len(pt)) => EnergyAt(pt, i) = -Square(v)
    BY <2>2, <2>4
  <2>6. Slow(turn, EnergyAt(pt, i))
    BY Zenon, <2>4, <2>5
  <2>7. i < Len(pt) => EnergyAt(pt, i) >= 0
    BY <2>4, <2>5
  <2> QED
    BY <1>3, <2>1, <2>6, <2>7
<1>4. CASE recipe \in Adapted
  <2> DEFINE turn == Turn(pt, i)
             v == IF Size(turn) = 0 THEN VAdapted
                  ELSE Least(VAdapted, Least(CurveSpeed, OmegaMax) \div Size(turn))
  <2>1. TurnAt(pt, i) = turn
    BY <1>4 DEF TurnAt, Adapted, Planned
  <2>2. EnergyAt(pt, i) = Square(v)
    BY <1>4 DEF EnergyAt, AdaptedEnergy, Adapted, Planned
  <2>3. v \in Nat /\ Size(turn) * v <= OmegaMax
    BY <1>2, AdaptedSlow
  <2> HIDE DEF v, turn
  <2>4. Square(v) \in Nat /\ Slow(turn, Square(v))
    BY <1>2, <2>3, SlowEnough DEF turn
  <2> QED
    BY <2>1, <2>2, <2>4
<1>5. CASE recipe \notin Planned \cup Adapted
  <2> DEFINE turn == Turn(pt, i)
             v == Completed(Asked, Ceiling, turn)
  <2>1. TurnAt(pt, i) = turn
    BY <1>5 DEF TurnAt
  <2>2. EnergyAt(pt, i) = Square(v)
    BY <1>5 DEF EnergyAt, CompletedEnergy
  <2>3. v \in Nat /\ Size(turn) * v <= OmegaMax
    BY <1>1, <1>2, CompletedSlow
  <2> HIDE DEF v, turn
  <2>4. Square(v) \in Nat /\ Slow(turn, Square(v))
    BY <1>2, <2>3, SlowEnough DEF turn
  <2> QED
    BY <2>1, <2>2, <2>4
<1> QED
  BY <1>3, <1>4, <1>5

\* Shaping only lowers, and never below nothing.
LEMMA ShapingLowers ==
  ASSUME NEW n \in Nat \ {0}, NEW e \in [1..n -> Int], NEW arc \in [1..n -> Int],
         Len(arc) = n, \A i \in 1..n : e[i] >= 0
  PROVE  \A i \in 1..n : /\ Braked(Ramped(e, arc), arc)[i] >= 0
                         /\ Braked(Ramped(e, arc), arc)[i] <= e[i]
PROOF
<1> DEFINE f == Ramped(e, arc)
           b == Braked(f, arc)
<1>1. /\ Ramp \in Nat /\ Brake \in Nat /\ VEnd \in Nat
      /\ Square(VEnd) \in Int /\ Square(VEnd) >= 0
  BY ShapingConstants DEF Square
<1>2. /\ f \in [1..n -> Int]
      /\ \A i \in 1..n : f[i] =
           IF i = 1 \/ arc[i] <= arc[i - 1] THEN e[i]
           ELSE Least(e[i], f[i - 1] + Ramp * (arc[i] - arc[i - 1]))
  BY SMTT(30), RampedSteps
<1> HIDE DEF f
<1>3. b \in [1..n -> Int] /\ BrakeRule(n, f, arc, b)
  BY Zenon, <1>2, BrakedSteps
<1> HIDE DEF b
<1>4. \A r \in Nat, d \in Int : d > 0 => r * d >= 0 /\ r * d \in Int
  OBVIOUS
<1>5. 1..n \subseteq {i \in 1..n : f[i] >= 0 /\ f[i] <= e[i]}
  <2> DEFINE S == {i \in 1..n : f[i] >= 0 /\ f[i] <= e[i]}
  <2>1. 1 \in S
    <3>1. 1 \in 1..n /\ e[1] \in Int
      OBVIOUS
    <3>2. f[1] = e[1]
      BY Zenon, <1>2, <3>1
    <3> QED
      BY <3>1, <3>2
  <2>2. ASSUME NEW i \in 1..n, i \in S, i + 1 \in 1..n
        PROVE  i + 1 \in S
    <3> DEFINE d == arc[i + 1] - arc[i]
    <3>1. (i + 1) - 1 = i /\ i + 1 # 1
      BY <2>2
    <3>2. /\ e[i + 1] \in Int /\ e[i + 1] >= 0 /\ f[i] \in Int /\ f[i] >= 0
          /\ d \in Int /\ arc[i] \in Int /\ arc[i + 1] \in Int
      BY <1>2, <2>2
    <3>3. CASE arc[i + 1] <= arc[i]
      <4>1. f[i + 1] = e[i + 1]
        BY Zenon, <1>2, <2>2, <3>1, <3>3
      <4> QED
        BY <2>2, <3>2, <4>1
    <3>4. CASE ~(arc[i + 1] <= arc[i])
      <4>1. f[i + 1] = Least(e[i + 1], f[i] + Ramp * d)
        BY Zenon, <1>2, <2>2, <3>1, <3>4
      <4>2. d > 0
        BY <3>2, <3>4
      <4> HIDE DEF d
      <4>3. Ramp * d >= 0 /\ Ramp * d \in Int
        BY <1>1, <1>4, <3>2, <4>2
      <4>4. f[i + 1] >= 0 /\ f[i + 1] <= e[i + 1]
        BY <3>2, <4>1, <4>3 DEF Least
      <4> QED
        BY <2>2, <4>4
    <3> QED
      BY <3>3, <3>4
  <2> HIDE DEF S
  <2>3. 1..n \subseteq S
    BY <2>1, <2>2, Upwards
  <2> QED
    BY <2>3 DEF S
<1>6. 1..n \subseteq {i \in 1..n : b[i] >= 0 /\ b[i] <= f[i]}
  <2> DEFINE S == {i \in 1..n : b[i] >= 0 /\ b[i] <= f[i]}
  <2>1. n \in S
    <3>1. n \in 1..n /\ f[n] \in Int /\ f[n] >= 0
      BY <1>2, <1>5
    <3>2. b[n] = Least(f[n], Square(VEnd))
      BY Zenon, <1>3, <3>1 DEF BrakeRule
    <3>3. b[n] >= 0 /\ b[n] <= f[n]
      BY <1>1, <3>1, <3>2 DEF Least
    <3> QED
      BY <3>1, <3>3
  <2>2. ASSUME NEW i \in 1..n, i \in S, i - 1 \in 1..n
        PROVE  i - 1 \in S
    <3> DEFINE j == i - 1
               d == arc[j + 1] - arc[j]
    <3>1. j \in 1..n /\ j # n /\ j + 1 = i
      BY <2>2
    <3> HIDE DEF j
    <3>2. /\ f[j] \in Int /\ f[j] >= 0 /\ b[j + 1] \in Int /\ b[j + 1] >= 0
          /\ d \in Int /\ arc[j] \in Int /\ arc[j + 1] \in Int
      <4>1. f[j] \in Int /\ b[i] \in Int /\ arc[j] \in Int /\ arc[i] \in Int
        BY <1>2, <1>3, <3>1
      <4>2. f[j] >= 0 /\ b[i] >= 0
        BY <1>5, <2>2, <3>1
      <4> QED
        BY <3>1, <4>1, <4>2
    <3>3. CASE arc[j + 1] <= arc[j]
      <4>1. b[j] = f[j]
        BY Zenon, <1>3, <3>1, <3>3 DEF BrakeRule
      <4> QED
        BY <3>1, <3>2, <4>1 DEF j
    <3>4. CASE ~(arc[j + 1] <= arc[j])
      <4>1. b[j] = Least(f[j], b[j + 1] + Brake * d)
        BY Zenon, <1>3, <3>1, <3>4 DEF BrakeRule
      <4>2. d > 0
        BY <3>2, <3>4
      <4> HIDE DEF d
      <4>3. Brake * d >= 0 /\ Brake * d \in Int
        BY <1>1, <1>4, <3>2, <4>2
      <4>4. b[j] >= 0 /\ b[j] <= f[j]
        BY <3>2, <4>1, <4>3 DEF Least
      <4> QED
        BY <3>1, <4>4 DEF j
    <3> QED
      BY <3>3, <3>4
  <2> HIDE DEF S
  <2>3. 1..n \subseteq S
    BY <2>1, <2>2, Downwards
  <2> QED
    BY <2>3 DEF S
<1>7. ASSUME NEW i \in 1..n
      PROVE  b[i] >= 0 /\ b[i] <= e[i]
  <2>1. b[i] >= 0 /\ b[i] <= f[i] /\ f[i] <= e[i]
    BY <1>5, <1>6
  <2>2. b[i] \in Int /\ f[i] \in Int /\ e[i] \in Int
    BY <1>2, <1>3
  <2> QED
    BY <2>1, <2>2
<1> QED
  BY <1>7 DEF b, f

-----------------------------------------------------------------------------
(***************************************************************************)
(* Whatever the recipe, a reference has one entry of each kind per point.  *)
(***************************************************************************)

Profiles == UNION {[1..n -> Int] : n \in Nat}

References ==
    [pt : Routes, arc : Profiles, heading : Profiles, turn : Profiles,
     energy : Profiles, gear : Profiles, bad : SUBSET Nat]

Fits(r) ==
    /\ {r.arc, r.heading, r.turn, r.energy} \subseteq [1..Len(r.pt) -> Int]
    /\ r.gear \in [1..(Len(r.pt) - 1) -> {-1, 1}]
    /\ r.bad \subseteq 1..Len(r.pt)

\* The type invariant of the reference.
RefTypeInv == ref \in References /\ Fits(ref)

LEMMA ProfileType ==
  ASSUME NEW n \in Nat, NEW f \in [1..n -> Int]
  PROVE  f \in Profiles
BY DEF Profiles

\* A record whose parts fit is a reference.
LEMMA Fitting ==
  ASSUME NEW pt \in Routes,
         NEW arc \in [1..Len(pt) -> Int], NEW heading \in [1..Len(pt) -> Int],
         NEW turn \in [1..Len(pt) -> Int], NEW energy \in [1..Len(pt) -> Int],
         NEW gear \in [1..(Len(pt) - 1) -> {-1, 1}], NEW bad \in SUBSET (1..Len(pt)),
         NEW r,
         r = [pt |-> pt, arc |-> arc, heading |-> heading, turn |-> turn,
              energy |-> energy, gear |-> gear, bad |-> bad]
  PROVE  r \in References /\ Fits(r)
PROOF
<1> DEFINE n == Len(pt)
<1>1. n \in Nat /\ n - 1 \in Nat
  BY RouteType
<1>2. gear \in [1..(n - 1) -> Int]
  OBVIOUS
<1>3. bad \in SUBSET Nat
  OBVIOUS
<1> HIDE DEF n
<1>4. /\ arc \in Profiles /\ heading \in Profiles /\ turn \in Profiles
      /\ energy \in Profiles /\ gear \in Profiles
  BY <1>1, <1>2, ProfileType DEF n
<1> QED
  BY <1>3, <1>4 DEF References, Fits

LEMMA WaypointsType ==
  ASSUME NEW pt \in Routes
  PROVE  /\ Waypoints(pt) \in References /\ Fits(Waypoints(pt))
         /\ Waypoints(pt).pt = pt
         /\ Waypoints(pt).arc = Arcs(pt)
PROOF
<1> DEFINE n == Len(pt)
           g == [i \in 1..(n - 1) |-> 1]
<1>1. n \in Nat \ {0} /\ pt \in [1..n -> Points]
  BY RouteType
<1>2. Arcs(pt) \in [1..n -> Int]
  <2>1. Arcs(pt) \in [1..n -> Nat]
    BY <1>1, ArcSteps
  <2> QED
    BY <2>1
<1>3. Zeros(n) \in [1..n -> Int]
  BY DEF Zeros
<1>4. g \in [1..(n - 1) -> {-1, 1}]
  OBVIOUS
<1>5. Waypoints(pt) =
        [pt |-> pt, arc |-> Arcs(pt), heading |-> Zeros(n), turn |-> Zeros(n),
         energy |-> Zeros(n), gear |-> g, bad |-> {}]
  BY DEF Waypoints
<1> HIDE DEF g
<1>6. Waypoints(pt) \in References /\ Fits(Waypoints(pt))
  BY <1>2, <1>3, <1>4, <1>5, Fitting
<1> QED
  BY <1>5, <1>6

\* The members of a reference that another one is made of.
LEMMA Parts ==
  ASSUME NEW r, r \in References, Fits(r)
  PROVE  /\ r.pt \in Routes
         /\ r.arc \in [1..Len(r.pt) -> Int] /\ r.heading \in [1..Len(r.pt) -> Int]
         /\ r.turn \in [1..Len(r.pt) -> Int] /\ r.energy \in [1..Len(r.pt) -> Int]
         /\ r.gear \in [1..(Len(r.pt) - 1) -> {-1, 1}]
         /\ r.bad \in SUBSET (1..Len(r.pt))
         /\ r = [pt |-> r.pt, arc |-> r.arc, heading |-> r.heading, turn |-> r.turn,
                 energy |-> r.energy, gear |-> r.gear, bad |-> r.bad]
BY DEF References, Fits

LEMMA OfferedRoutes == WaypointLists \cup Tracks \subseteq Routes
BY PathsAssumption DEF Routes, Points

LEMMA RawType ==
  ASSUME NEW r \in RawReferences
  PROVE  r \in References /\ Fits(r)
PROOF
<1> DEFINE n == Len(r.pt)
<1>1. /\ r \in [pt : Seq(Int \X Int), arc : [1..n -> Int], heading : [1..n -> 0..7],
                turn : [1..n -> Int], energy : [1..n -> Int],
                gear : [1..(n - 1) -> {-1, 1}], bad : SUBSET (1..n)]
      /\ r.pt # <<>>
  BY Zenon, PathsAssumption
<1>2. r.pt \in Routes
  BY <1>1 DEF Routes, Points
<1>3. r.heading \in [1..n -> Int]
  <2>1. r.heading \in [1..n -> 0..7]
    BY <1>1
  <2> QED
    BY <2>1
<1>4. r = [pt |-> r.pt, arc |-> r.arc, heading |-> r.heading, turn |-> r.turn,
           energy |-> r.energy, gear |-> r.gear, bad |-> r.bad]
  BY <1>1
<1>5. /\ r.arc \in [1..n -> Int] /\ r.turn \in [1..n -> Int]
      /\ r.energy \in [1..n -> Int] /\ r.gear \in [1..(n - 1) -> {-1, 1}]
      /\ r.bad \in SUBSET (1..n)
  BY <1>1
<1> QED
  BY <1>2, <1>3, <1>4, <1>5, Fitting

\* What the server leaves of a track.
LEMMA OpenedType ==
  ASSUME NEW pt \in Routes
  PROVE  /\ Opened(pt) \in Routes
         /\ Apart(pt) => Apart(Opened(pt))
         /\ Meshed(pt) => Meshed(Opened(pt))
PROOF
<1> DEFINE n == Len(pt)
           Near(i) == Square(pt[i][1] - pt[1][1]) + Square(pt[i][2] - pt[1][2])
                        < Square(OpenGap)
           kept == {i \in DOMAIN pt : i <= 2 \/ ~Near(i)}
<1>1. n \in Nat \ {0} /\ pt \in [1..n -> Points] /\ DOMAIN pt = 1..n
  BY RouteType
<1>2. kept \subseteq 1..n /\ 1 \in kept
  BY <1>1
<1>3. Opened(pt) = SubSeq(pt, 1, Max(kept))
  BY Zenon DEF Opened
<1> HIDE DEF n, kept
<1>4. \E m \in kept : \A y \in kept : m >= y
  <2> DEFINE T == {n - i : i \in kept}
  <2>1. T \subseteq Nat /\ T # {}
    BY <1>1, <1>2
  <2>2. PICK x \in T : \A y \in T : x <= y
    <3> HIDE DEF T
    <3> QED
      BY <2>1, LeastNatural
  <2>3. PICK m \in kept : x = n - m
    OBVIOUS
  <2>4. ASSUME NEW y \in kept
        PROVE  m >= y
    <3>1. n - y \in T
      OBVIOUS
    <3>2. n - m <= n - y
      BY <2>2, <2>3, <3>1
    <3>3. m \in Int /\ y \in Int /\ n \in Int
      BY <1>1, <1>2
    <3> QED
      BY <3>2, <3>3
  <2> QED
    BY <2>4
<1> DEFINE m == Max(kept)
<1>5. m \in kept
  BY Zenon, <1>4 DEF Max
<1> HIDE DEF m
<1>6. m \in 1..n
  BY <1>2, <1>5
<1>7. \A i \in 1..m : pt[i] \in Points
  BY <1>1, <1>6
<1>8. /\ SubSeq(pt, 1, m) \in Seq(Points) /\ Len(SubSeq(pt, 1, m)) = m
      /\ \A i \in 1..m : SubSeq(pt, 1, m)[i] = pt[i]
  BY <1>6, <1>7, SubSeqProperties
<1>9. SubSeq(pt, 1, m) # <<>>
  <2>1. m # 0
    BY <1>1, <1>6
  <2>2. Len(<<>>) = 0
    OBVIOUS
  <2> QED
    BY Zenon, <1>8, <2>1, <2>2
<1>10. Opened(pt) = SubSeq(pt, 1, m)
  BY Zenon, <1>3 DEF m
<1>11. SubSeq(pt, 1, m) \in Routes
  BY Zenon, <1>8, <1>9 DEF Routes
<1>12. ASSUME NEW i \in 1..(m - 1)
       PROVE  /\ i \in 1..(n - 1) /\ SubSeq(pt, 1, m)[i] = pt[i]
              /\ SubSeq(pt, 1, m)[i + 1] = pt[i + 1]
  <2>1. i \in 1..m /\ i + 1 \in 1..m /\ i \in 1..(n - 1)
    BY <1>1, <1>6
  <2> QED
    BY Zenon, <1>8, <2>1
<1>13. Apart(pt) => Apart(SubSeq(pt, 1, m))
  BY Zenon, <1>8, <1>12 DEF Apart, n
<1>14. Meshed(pt) => Meshed(SubSeq(pt, 1, m))
  BY Zenon, <1>8, <1>12 DEF Meshed, n
<1> QED
  BY Zenon, <1>10, <1>11, <1>13, <1>14

\* A length that is a positive multiple of the mesh is at least one sample.
LEMMA AtLeastOne ==
  ASSUME NEW x \in Nat \ {0}, NEW d \in Nat \ {0}, x % d = 0
  PROVE  x \div d \in Nat \ {0}
PROOF
<1>1. x = d * (x \div d) + (x % d) /\ x \div d \in Nat
  OBVIOUS
<1>2. x \div d # 0
  <2>1. SUFFICES ASSUME x \div d = 0
                 PROVE  FALSE
    OBVIOUS
  <2>2. x = d * 0 + 0
    BY <1>1, <2>1
  <2> QED
    BY <2>2
<1> QED
  BY <1>1, <1>2

LEMMA WholeQuotient ==
  ASSUME NEW m \in Int, NEW n \in Nat \ {0}
  PROVE  (m * n) \div n = m
PROOF
<1> DEFINE x == m * n
           q == x \div n
           r == x % n
<1>1. x \in Int
  OBVIOUS
<1> HIDE DEF x
<1>2. x = n * q + r /\ q \in Int /\ r \in Int /\ 0 <= r /\ r < n
  BY <1>1
<1> HIDE DEF q, r
<1>3. n * (m - q) = r
  BY <1>2 DEF x
<1>4. ~(m - q >= 1)
  <2>1. m - q >= 1 => n * (m - q) >= n
    BY <1>2
  <2> QED
    BY <1>2, <1>3, <2>1
<1>5. ~(m - q <= -1)
  <2>1. m - q <= -1 => n * (m - q) <= -n
    BY <1>2
  <2> QED
    BY <1>2, <1>3, <2>1
<1>6. m - q = 0 \/ m - q >= 1 \/ m - q <= -1
  BY <1>2
<1>7. m = q
  BY <1>2, <1>4, <1>5, <1>6
<1> QED
  BY <1>7 DEF q, x

\* A row goes from one end to the other, and never stands.
LEMMA RowType ==
  ASSUME NEW a \in Points, NEW b \in Points, a[1] = b[1] \/ a[2] = b[2],
         Chord(a, b) > 0, Chord(a, b) % Ds = 0
  PROVE  /\ Row(a, b) \in Routes /\ Stepwise(Row(a, b))
         /\ Len(Row(a, b)) \in Nat /\ Len(Row(a, b)) >= 2
         /\ Row(a, b)[1] = a /\ Row(a, b)[Len(Row(a, b))] = b
PROOF
<1> DEFINE n == Chord(a, b) \div Ds
           x == SignOf(b[1] - a[1])
           y == SignOf(b[2] - a[2])
           At(k) == <<a[1] + x * Ds * (k - 1), a[2] + y * Ds * (k - 1)>>
           row == Row(a, b)
<1>1. Ds \in Nat \ {0} /\ Chord(a, b) \in Nat \ {0}
  BY ChordType, ReferenceAssumption
<1>2. n \in Nat \ {0} /\ Chord(a, b) = n * Ds
  <2> DEFINE c == Chord(a, b)
  <2>1. c \div Ds \in Nat \ {0}
    BY <1>1, AtLeastOne
  <2>2. c % Ds = 0 /\ c \in Nat
    BY <1>1
  <2> HIDE DEF c
  <2>3. c = Ds * (c \div Ds) + (c % Ds)
    BY <1>1, <2>2
  <2>4. c = (c \div Ds) * Ds
    BY <1>1, <2>1, <2>2, <2>3
  <2> QED
    BY <2>1, <2>4 DEF c
<1>3. a[1] \in Int /\ a[2] \in Int /\ b[1] \in Int /\ b[2] \in Int
  BY DEF Points
<1>4. x \in {-1, 0, 1} /\ y \in {-1, 0, 1} /\ (x # 0 \/ y # 0) /\ (x = 0 \/ y = 0)
  BY <1>1, <1>3 DEF SignOf, Chord, Size
<1>5. /\ b[1] - a[1] = x * Chord(a, b) /\ b[2] - a[2] = y * Chord(a, b)
  <2>1. \A c \in Int : 0 * c = 0 /\ 1 * c = c /\ (-1) * c = -c
    OBVIOUS
  <2>2. Size(b[1] - a[1]) = Size(a[1] - b[1]) /\ Size(b[2] - a[2]) = Size(a[2] - b[2])
    <3>1. \A u, v \in Int : Size(u - v) = Size(v - u)
      BY DEF Size
    <3> QED
      BY Zenon, <1>3, <3>1
  <2>3. b[1] - a[1] = x * Size(b[1] - a[1]) /\ b[2] - a[2] = y * Size(b[2] - a[2])
    BY <1>3 DEF SignOf, Size
  <2>4. CASE a[1] = b[1]
    <3>1. x = 0 /\ b[1] - a[1] = 0 /\ Chord(a, b) = Size(a[2] - b[2])
      BY <1>3, <2>4 DEF SignOf, Chord, Size
    <3> QED
      BY <1>1, <2>2, <2>3, <3>1
  <2>5. CASE a[2] = b[2]
    <3>1. y = 0 /\ b[2] - a[2] = 0 /\ Chord(a, b) = Size(a[1] - b[1])
      BY <1>3, <2>5 DEF SignOf, Chord, Size
    <3> QED
      BY <1>1, <2>2, <2>3, <3>1
  <2> QED
    BY <2>4, <2>5
<1> HIDE DEF x, y
<1>6. row = [k \in 1..(n + 1) |->
               <<a[1] + ((b[1] - a[1]) * (k - 1)) \div n,
                 a[2] + ((b[2] - a[2]) * (k - 1)) \div n>>]
  BY DEF Row
<1> HIDE DEF n, row
<1>7. ASSUME NEW k \in 1..(n + 1), NEW d \in Int, NEW z \in {-1, 0, 1},
             d = z * Chord(a, b)
      PROVE  (d * (k - 1)) \div n = z * Ds * (k - 1)
  <2> DEFINE m == z * Ds * (k - 1)
  <2>1. m \in Int
    BY <1>1, <1>2
  <2>2. d * (k - 1) = m * n
    <3>1. d = z * (n * Ds)
      BY <1>2, <1>7
    <3> DEFINE t == k - 1
    <3>2. z \in Int /\ n \in Int /\ Ds \in Int /\ t \in Int
      BY <1>1, <1>2
    <3> HIDE DEF t
    <3>3. (z * (n * Ds)) * t = (z * Ds * t) * n
      BY <3>2
    <3> QED
      BY Zenon, <3>1, <3>3 DEF t
  <2> HIDE DEF m
  <2>3. (m * n) \div n = m
    BY <1>2, <2>1, WholeQuotient
  <2> QED
    BY Zenon, <2>2, <2>3 DEF m
<1>8. \A k \in 1..(n + 1) : row[k] = At(k)
  <2>1. b[1] - a[1] \in Int /\ b[2] - a[2] \in Int
    BY <1>3
  <2>2. ASSUME NEW k \in 1..(n + 1)
        PROVE  row[k] = At(k)
    <3>1. ((b[1] - a[1]) * (k - 1)) \div n = x * Ds * (k - 1)
      BY Zenon, <1>4, <1>5, <1>7, <2>1
    <3>2. ((b[2] - a[2]) * (k - 1)) \div n = y * Ds * (k - 1)
      BY Zenon, <1>4, <1>5, <1>7, <2>1
    <3>3. row[k] = <<a[1] + ((b[1] - a[1]) * (k - 1)) \div n,
                     a[2] + ((b[2] - a[2]) * (k - 1)) \div n>>
      BY Zenon, <1>6
    <3> QED
      BY Zenon, <3>1, <3>2, <3>3
  <2> QED
    BY <2>2
<1>9. \A k \in 1..(n + 1) : At(k) \in Points
  <2>1. \A k \in Int : x * Ds * (k - 1) \in Int /\ y * Ds * (k - 1) \in Int
    BY <1>1, <1>4
  <2> QED
    BY <1>3, <2>1 DEF Points
<1>10. row \in [1..(n + 1) -> Points] /\ n + 1 \in Nat \ {0} /\ n + 1 >= 2
  <2>1. \A k \in 1..(n + 1) : row[k] \in Points
    BY Zenon, <1>8, <1>9
  <2> QED
    BY <1>2, <1>6, <2>1
<1>11. row \in Routes /\ Len(row) = n + 1
  BY <1>10, RouteOf
<1>12. ASSUME NEW k \in 1..n
       PROVE  OneStep(row[k], row[k + 1])
  <2>1. k \in 1..(n + 1) /\ k + 1 \in 1..(n + 1)
    BY <1>2
  <2>2. row[k] = At(k) /\ row[k + 1] = At(k + 1)
    BY <1>8, <2>1
  <2> DEFINE s == x * Ds * (k - 1)
             t == y * Ds * (k - 1)
  <2>3. s \in Int /\ t \in Int
    BY <1>1, <1>4
  <2>4. x * Ds * ((k + 1) - 1) = s + x * Ds /\ y * Ds * ((k + 1) - 1) = t + y * Ds
    <3>1. \A u, v, w \in Int : u * v * ((w + 1) - 1) = u * v * (w - 1) + u * v
      OBVIOUS
    <3>2. x \in Int /\ y \in Int /\ Ds \in Int /\ k \in Int
      BY <1>1, <1>4
    <3> QED
      BY Zenon, <3>1, <3>2
  <2>5. At(k + 1) = <<a[1] + (s + x * Ds), a[2] + (t + y * Ds)>>
    BY Zenon, <2>4
  <2>6. At(k) = <<a[1] + s, a[2] + t>>
    OBVIOUS
  <2> DEFINE c == x * Ds
             d == y * Ds
             p == <<a[1] + s, a[2] + t>>
             q == <<a[1] + (s + c), a[2] + (t + d)>>
  <2>7. At(k) = p /\ At(k + 1) = q
    BY Zenon, <2>5, <2>6
  <2>8. /\ p[1] = a[1] + s /\ p[2] = a[2] + t
        /\ q[1] = a[1] + (s + c) /\ q[2] = a[2] + (t + d)
    OBVIOUS
  <2> HIDE DEF At, p, q
  <2>9. /\ c \in Int /\ d \in Int /\ (c # 0 \/ d # 0)
        /\ \/ c = 0 /\ Size(d) = Ds
           \/ d = 0 /\ Size(c) = Ds
    <3>1. \A z \in {-1, 0, 1} : /\ z * Ds \in Int /\ (z # 0 => z * Ds # 0)
                              /\ (z = 0 => z * Ds = 0)
                              /\ (z # 0 => Size(z * Ds) = Ds)
      BY <1>1 DEF Size
    <3> HIDE DEF c, d
    <3>2. /\ c \in Int /\ (x # 0 => c # 0 /\ Size(c) = Ds) /\ (x = 0 => c = 0)
          /\ d \in Int /\ (y # 0 => d # 0 /\ Size(d) = Ds) /\ (y = 0 => d = 0)
      BY Zenon, <1>4, <3>1 DEF c, d
    <3> QED
      BY Zenon, <1>4, <3>2
  <2> HIDE DEF s, t, c, d
  <2>10. At(k) # At(k + 1)
    <3>1. a[1] + s # a[1] + (s + c) \/ a[2] + t # a[2] + (t + d)
      BY <1>3, <2>3, <2>9
    <3> QED
      BY Zenon, <2>7, <2>8, <3>1
  <2>11. Chord(At(k), At(k + 1)) <= Ds
    <3>1. /\ (a[1] + s) - (a[1] + (s + c)) = -c
          /\ (a[2] + t) - (a[2] + (t + d)) = -d
      BY <1>3, <2>3, <2>9
    <3>2. \A z \in Int : Size(-z) = Size(z)
      BY DEF Size
    <3>3. Chord(At(k), At(k + 1)) = Size(c) + Size(d)
      <4>1. Chord(At(k), At(k + 1)) = Size(-c) + Size(-d)
        <5>1. Chord(p, q) = Size(-c) + Size(-d)
          BY Zenon, <2>8, <3>1 DEF Chord
        <5> QED
          BY Zenon, <2>7, <5>1
      <4> QED
        BY Zenon, <2>9, <3>2, <4>1
    <3>4. Size(0) = 0
      BY DEF Size
    <3> QED
      BY <1>1, <2>9, <3>3, <3>4
  <2>12. OnMesh(At(k), At(k + 1))
    <3>1. p[1] = q[1] \/ p[2] = q[2]
      BY <1>3, <2>3, <2>8, <2>9
    <3>2. Chord(p, q) = Ds
      <4>1. /\ p[1] - q[1] = -c /\ p[2] - q[2] = -d
        BY <1>3, <2>3, <2>8, <2>9
      <4>2. Chord(p, q) = Size(-c) + Size(-d)
        BY Zenon, <4>1 DEF Chord
      <4> QED
        BY <1>1, <2>9, <4>2 DEF Size
    <3>3. Ds % Ds = 0
      BY <1>1
    <3> QED
      BY Zenon, <2>7, <3>1, <3>2, <3>3 DEF OnMesh
  <2> QED
    BY <2>2, <2>10, <2>11, <2>12 DEF OneStep
<1>13. Stepwise(row)
  <2>1. Len(row) - 1 = n
    BY <1>2, <1>11
  <2> QED
    BY <1>12, <2>1 DEF Stepwise
<1>14. row[1] = a /\ row[n + 1] = b
  <2>1. 1 \in 1..(n + 1) /\ n + 1 \in 1..(n + 1)
    BY <1>2
  <2>2. row[1] = At(1) /\ row[n + 1] = At(n + 1)
    BY Zenon, <1>8, <2>1
  <2>3. At(1) = a
    <3>1. x * Ds * (1 - 1) = 0 /\ y * Ds * (1 - 1) = 0
      BY <1>1, <1>4
    <3>2. At(1) = <<a[1] + 0, a[2] + 0>>
      BY Zenon, <3>1
    <3>3. a = <<a[1], a[2]>>
      BY DEF Points
    <3> HIDE DEF At
    <3> QED
      BY <1>3, <3>2, <3>3
  <2>4. At(n + 1) = b
    <3>1. \A z \in {-1, 0, 1} : z * Ds * ((n + 1) - 1) = z * (n * Ds)
      BY <1>1, <1>2
    <3>2. x * Ds * ((n + 1) - 1) = b[1] - a[1] /\ y * Ds * ((n + 1) - 1) = b[2] - a[2]
      BY Zenon, <1>2, <1>4, <1>5, <3>1
    <3>3. At(n + 1) = <<a[1] + (b[1] - a[1]), a[2] + (b[2] - a[2])>>
      BY Zenon, <3>2
    <3>4. b = <<b[1], b[2]>>
      BY DEF Points
    <3> HIDE DEF At
    <3> QED
      BY <1>3, <3>3, <3>4
  <2> QED
    BY <2>2, <2>3, <2>4
<1> QED
  BY <1>10, <1>11, <1>13, <1>14 DEF row

LEMMA PushType ==
  ASSUME NEW pt \in Routes, NEW piece \in Routes
  PROVE  Push(pt, piece) \in Routes
PROOF
<1>1. pt \in Seq(Points) /\ piece \in Seq(Points) /\ pt # <<>> /\ piece # <<>>
  BY DEF Routes
<1>2. Tail(piece) \in Seq(Points)
  BY <1>1, HeadTailProperties
<1>3. /\ Push(pt, piece) \in Seq(Points)
      /\ Len(Push(pt, piece)) = Len(pt) + Len(Tail(piece))
  BY <1>1, <1>2, ConcatProperties DEF Push
<1>4. Len(pt) \in Nat \ {0} /\ Len(Tail(piece)) \in Nat
  BY <1>1, <1>2
<1>5. Len(Push(pt, piece)) # 0
  BY <1>3, <1>4
<1>6. Push(pt, piece) # <<>>
  <2>1. Len(<<>>) = 0
    OBVIOUS
  <2> QED
    BY Zenon, <1>5, <2>1
<1> QED
  BY <1>3, <1>6 DEF Routes

\* What is pushed goes on from where the path ended.
LEMMA PushStepwise ==
  ASSUME NEW pt \in Routes, NEW piece \in Routes, Stepwise(pt), Stepwise(piece),
         Len(piece) >= 2, piece[1] = pt[Len(pt)]
  PROVE  /\ Stepwise(Push(pt, piece))
         /\ Push(pt, piece)[Len(Push(pt, piece))] = piece[Len(piece)]
PROOF
<1> DEFINE m == Len(pt)
           n == Len(piece)
           whole == Push(pt, piece)
<1>1. pt \in Seq(Points) /\ piece \in Seq(Points) /\ pt # <<>> /\ piece # <<>>
      /\ m \in Nat \ {0} /\ n \in Nat \ {0}
  BY RouteType DEF Routes
<1>2. /\ Tail(piece) \in Seq(Points) /\ Len(Tail(piece)) = n - 1
      /\ \A i \in 1..(n - 1) : Tail(piece)[i] = piece[i + 1]
  BY <1>1, HeadTailProperties
<1>3. /\ whole \in Seq(Points) /\ Len(whole) = m + (n - 1)
      /\ \A i \in 1..(m + (n - 1)) :
            whole[i] = IF i <= m THEN pt[i] ELSE Tail(piece)[i - m]
  BY <1>1, <1>2, ConcatProperties DEF Push
<1> HIDE DEF m, n, whole
<1>4. ASSUME NEW i \in 1..(m + (n - 1))
      PROVE  /\ i <= m => whole[i] = pt[i]
             /\ i >= m => whole[i] = piece[(i - m) + 1]
  <2>1. CASE i < m
    BY <1>1, <1>3, <2>1
  <2>2. CASE i = m
    <3>1. whole[m] = pt[m] /\ (m - m) + 1 = 1
      BY <1>1, <1>3, <2>2
    <3> QED
      BY <2>2, <3>1 DEF m
  <2>3. CASE i > m
    <3>1. i - m \in 1..(n - 1) /\ ~(i <= m)
      BY <1>1, <2>3
    <3> QED
      BY Zenon, <1>2, <1>3, <3>1
  <2> QED
    BY <1>1, <2>1, <2>2, <2>3
<1>5. ASSUME NEW i \in 1..((m + (n - 1)) - 1)
      PROVE  OneStep(whole[i], whole[i + 1])
  <2>1. i \in 1..(m + (n - 1)) /\ i + 1 \in 1..(m + (n - 1))
    BY <1>1
  <2>2. CASE i < m
    <3>1. i \in 1..(m - 1) /\ i <= m /\ i + 1 <= m
      BY <1>1, <2>2
    <3>2. OneStep(pt[i], pt[i + 1])
      BY <3>1 DEF Stepwise, m
    <3> QED
      BY Zenon, <1>4, <2>1, <3>1, <3>2
  <2>3. CASE i >= m
    <3> DEFINE k == (i - m) + 1
    <3>1. k \in 1..(n - 1) /\ i + 1 >= m /\ ((i + 1) - m) + 1 = k + 1
      BY <1>1, <2>3
    <3>2. OneStep(piece[k], piece[k + 1])
      BY <3>1 DEF Stepwise, n
    <3>3. whole[i] = piece[k] /\ whole[i + 1] = piece[((i + 1) - m) + 1]
      BY Zenon, <1>4, <2>1, <2>3, <3>1
    <3> HIDE DEF k
    <3> QED
      BY Zenon, <3>1, <3>2, <3>3
  <2> QED
    BY <1>1, <2>2, <2>3
<1>6. Stepwise(whole)
  BY <1>3, <1>5 DEF Stepwise
<1>7. whole[Len(whole)] = piece[n]
  <2> DEFINE e == m + (n - 1)
  <2>1. e \in 1..e /\ e >= m /\ (e - m) + 1 = n
    BY <1>1
  <2>2. whole[e] = piece[(e - m) + 1]
    BY Zenon, <1>4, <2>1
  <2> QED
    BY <1>3, <2>1, <2>2
<1> QED
  BY <1>6, <1>7 DEF whole, n

\* Every serpentine of the generator is a path that never stands.
LEMMA SerpentineType ==
  ASSUME NEW rows \in Nat \ {0}, NEW length \in Nat \ {0}, length % Ds = 0
  PROVE  Serpentine(rows, length) \in Routes /\ Stepwise(Serpentine(rows, length))
PROOF
<1> DEFINE Edge(k) == IF k % 2 = 0 THEN length ELSE 0
           first == Row(<<0, 0>>, <<length, 0>>)
           To(k, v) ==
             IF k = 0 THEN first
             ELSE LET e == Edge(k - 1)  y == k * LaneW IN
                  Push(Push(v, Row(<<e, y - LaneW>>, <<e, y>>)),
                       Row(<<e, y>>, <<Edge(k), y>>))
           Drawing(g) == [k \in 0..(rows - 1) |-> To(k, g[k - 1])]
           next == [p \in (1..rows) \X Routes |-> To(p[1] - 1, p[2])]
<1>1. LaneW \in Nat \ {0} /\ LaneW % Ds = 0
  BY ReferenceAssumption, PathsAssumption
<1> DEFINE Upto(k, v) == /\ v \in Routes /\ Stepwise(v)
                         /\ v[Len(v)] = <<Edge(k), k * LaneW>>
<1>2. Upto(0, first)
  <2> DEFINE a == <<0, 0>>
             b == <<length, 0>>
  <2>1. a \in Points /\ b \in Points
    BY DEF Points
  <2>2. Chord(a, b) = length
    BY DEF Chord, Size
  <2>3. a[2] = b[2] /\ <<Edge(0), 0 * LaneW>> = b
    BY <1>1
  <2> HIDE DEF a, b
  <2>4. Row(a, b) \in Routes /\ Stepwise(Row(a, b)) /\ Row(a, b)[Len(Row(a, b))] = b
    BY <2>1, <2>2, <2>3, RowType
  <2> QED
    BY Zenon, <2>3, <2>4 DEF a, b
<1>3. ASSUME NEW k \in Nat, NEW v \in Routes
      PROVE  /\ To(k, v) \in Routes
             /\ k > 0 /\ Upto(k - 1, v) => Upto(k, To(k, v))
  <2>1. CASE k = 0
    BY <1>2, <2>1
  <2>2. CASE k # 0
    <3> DEFINE e == Edge(k - 1)
               f == Edge(k)
               y == k * LaneW
               a == <<e, y - LaneW>>
               b == <<e, y>>
               c == <<f, y>>
               lane == Row(a, b)
               row == Row(b, c)
    <3>1. e \in Int /\ f \in Int /\ Size(e - f) = length
      BY DEF Size
    <3>2. y \in Int /\ y - LaneW \in Int /\ (k - 1) * LaneW = y - LaneW
      BY <1>1
    <3>3. Upto(k - 1, v) => v[Len(v)] = a
      BY Zenon, <3>2
    <3>4. To(k, v) = Push(Push(v, lane), row)
      BY Zenon, <2>2
    <3>5. c = <<Edge(k), k * LaneW>>
      OBVIOUS
    <3> HIDE DEF e, f, y
    <3>6. /\ a \in Points /\ b \in Points /\ c \in Points
          /\ a[1] = b[1] /\ b[2] = c[2]
      BY <3>1, <3>2 DEF Points
    <3>7. Chord(a, b) = LaneW /\ Chord(b, c) = length
      BY <1>1, <3>1, <3>2 DEF Chord, Size
    <3> HIDE DEF a, b, c, Edge
    <3>8. /\ lane \in Routes /\ Stepwise(lane) /\ Len(lane) >= 2
          /\ lane[1] = a /\ lane[Len(lane)] = b
      BY <1>1, <3>6, <3>7, RowType
    <3>9. /\ row \in Routes /\ Stepwise(row) /\ Len(row) >= 2
          /\ row[1] = b /\ row[Len(row)] = c
      BY <1>1, <3>6, <3>7, RowType
    <3> HIDE DEF lane, row
    <3>10. Push(v, lane) \in Routes /\ Push(Push(v, lane), row) \in Routes
      BY <3>8, <3>9, PushType
    <3>11. ASSUME Upto(k - 1, v)
           PROVE  Upto(k, To(k, v))
      <4> DEFINE w == Push(v, lane)
      <4>1. Stepwise(v) /\ v[Len(v)] = a
        BY <3>3, <3>11
      <4>2. Stepwise(w) /\ w[Len(w)] = b
        BY <3>8, <4>1, PushStepwise
      <4>3. Stepwise(Push(w, row)) /\ Push(w, row)[Len(Push(w, row))] = c
        BY <3>9, <3>10, <4>2, PushStepwise
      <4> QED
        BY Zenon, <3>4, <3>5, <3>10, <4>3
    <3> HIDE DEF Upto, To
    <3> QED
      BY Zenon, <3>4, <3>10, <3>11
  <2> QED
    BY <2>1, <2>2
<1>4. \A v : To(0, v) = first
  OBVIOUS
<1>5. Serpentine(rows, length) = (CHOOSE g : g = Drawing(g))[rows - 1]
  BY DEF Serpentine, To, Edge, first
<1> HIDE DEF To, first
<1>6. next \in StepsOn(rows, Routes)
  <2>1. \A k \in Nat, v \in Routes : To(k, v) \in Routes
    BY Zenon, <1>3
  <2>2. \A p \in (1..rows) \X Routes : p[1] - 1 \in Nat /\ p[2] \in Routes
    OBVIOUS
  <2>3. \A p \in (1..rows) \X Routes : To(p[1] - 1, p[2]) \in Routes
    BY Zenon, <2>1, <2>2
  <2> QED
    BY <2>3 DEF StepsOn
<1>7. ASSUME NEW k \in 0..(rows - 1), NEW v \in Routes
      PROVE  next[<<k + 1, v>>] = To(k, v)
  <2>1. k + 1 \in 1..rows /\ (k + 1) - 1 = k
    OBVIOUS
  <2>2. next[<<k + 1, v>>] = To((k + 1) - 1, v)
    BY <2>1
  <2> HIDE DEF next
  <2> QED
    BY <2>1, <2>2
<1> HIDE DEF next
<1>8. PICK f \in [1..rows -> Routes] : Begins(f, rows, first, next)
  BY <1>2, <1>6, DefinedUpwards
<1> DEFINE h == [k \in 0..(rows - 1) |-> f[k + 1]]
<1>9. ASSUME NEW k \in 0..(rows - 1)
      PROVE  h[k] = To(k, h[k - 1])
  <2>1. CASE k = 0
    <3>1. h[0] = f[1]
      OBVIOUS
    <3>2. f[1] = first
      <4>1. 1 \in 1..rows
        OBVIOUS
      <4> QED
        BY Zenon, <1>8, <4>1 DEF Begins
    <3> HIDE DEF h
    <3> QED
      BY Zenon, <1>4, <2>1, <3>1, <3>2
  <2>2. CASE k # 0
    <3>1. k + 1 \in 1..rows /\ k \in 1..rows /\ k + 1 # 1 /\ (k + 1) - 1 = k
          /\ k - 1 \in 0..(rows - 1) /\ (k - 1) + 1 = k
      BY <2>2
    <3>2. f[k + 1] = next[<<k + 1, f[k]>>]
      BY Zenon, <1>8, <3>1 DEF Begins
    <3>3. f[k] \in Routes
      BY <3>1
    <3>4. f[k + 1] = To(k, f[k])
      BY Zenon, <1>7, <3>1, <3>2, <3>3
    <3>5. h[k] = f[k + 1] /\ h[k - 1] = f[k]
      BY <3>1
    <3> QED
      BY Zenon, <3>4, <3>5
  <2> QED
    BY <2>1, <2>2
<1>10. h = Drawing(h)
  BY <1>9
<1> DEFINE drawn == CHOOSE g : g = Drawing(g)
<1>11. drawn = Drawing(drawn)
  BY Zenon, <1>10
<1> HIDE DEF drawn, h
<1>12. \A k \in 0..(rows - 1) : drawn[k] = To(k, drawn[k - 1])
  BY <1>11
<1> DEFINE S == {k \in 1..rows : Upto(k - 1, drawn[k - 1])}
<1> HIDE DEF Upto
<1>13. 1 \in S
  <2>1. 1 \in 1..rows /\ 0 \in 0..(rows - 1) /\ 1 - 1 = 0
    OBVIOUS
  <2>2. drawn[0] = first
    BY Zenon, <1>4, <1>12, <2>1
  <2>3. Upto(1 - 1, drawn[1 - 1])
    BY Zenon, <1>2, <2>1, <2>2
  <2> QED
    BY <2>1, <2>3
<1>14. ASSUME NEW k \in 1..rows, k \in S, k + 1 \in 1..rows
       PROVE  k + 1 \in S
  <2>1. k \in 0..(rows - 1) /\ k \in Nat /\ k > 0 /\ (k + 1) - 1 = k
    BY <1>14
  <2>2. Upto(k - 1, drawn[k - 1]) /\ drawn[k - 1] \in Routes
    BY <1>14 DEF Upto
  <2>3. Upto(k, To(k, drawn[k - 1]))
    BY Zenon, <1>3, <2>1, <2>2
  <2>4. Upto((k + 1) - 1, drawn[(k + 1) - 1])
    BY Zenon, <1>12, <2>1, <2>3
  <2> QED
    BY <1>14, <2>4
<1>15. 1..rows \subseteq S
  <2> HIDE DEF S
  <2> QED
    BY <1>13, <1>14, Upwards
<1>16. Upto(rows - 1, drawn[rows - 1])
  BY <1>15
<1> QED
  BY <1>5, <1>16 DEF drawn, Upto

-----------------------------------------------------------------------------
(***************************************************************************)
(* Whatever is made is a reference: arrays that fit the points.            *)
(***************************************************************************)

LEMMA RefTypeInit ==
  TrackInit => RefTypeInv
PROOF
<1> SUFFICES ASSUME TrackInit
             PROVE  ref \in References /\ Fits(ref)
  BY DEF RefTypeInv
<1>1. CASE FromWaypoints
  <2>1. PICK pt \in WaypointLists : ref = Waypoints(pt)
    BY <1>1 DEF FromWaypoints
  <2> QED
    BY <2>1, OfferedRoutes, WaypointsType
<1>2. CASE FromRows
  <2>1. PICK size \in Serpentines : ref = Waypoints(Serpentine(size[1], size[2]))
    BY <1>2 DEF FromRows
  <2>2. size[1] \in Nat \ {0} /\ size[2] \in Nat \ {0} /\ size[2] % Ds = 0
    BY PathsAssumption, ReferenceAssumption
  <2>3. Serpentine(size[1], size[2]) \in Routes
    BY <2>2, SerpentineType
  <2> QED
    BY <2>1, <2>3, WaypointsType
<1>3. CASE FromScenario
  <2>1. PICK pt \in Tracks : ref = Waypoints(pt)
    BY <1>3 DEF FromScenario
  <2> QED
    BY <2>1, OfferedRoutes, WaypointsType
<1>4. CASE FromTrack
  <2>1. PICK pt \in Tracks : ref = Waypoints(pt)
    BY <1>4 DEF FromTrack
  <2> QED
    BY <2>1, OfferedRoutes, WaypointsType
<1>5. CASE FromElsewhere
  BY <1>5, RawType DEF FromElsewhere
<1> QED
  BY <1>1, <1>2, <1>3, <1>4, <1>5 DEF TrackInit, RefInit

LEMMA RefTypeComplete ==
  RefTypeInv /\ Complete => RefTypeInv'
PROOF
<1> SUFFICES ASSUME RefTypeInv, Complete
             PROVE  ref' \in References /\ Fits(ref')
  BY DEF RefTypeInv
<1> DEFINE n == Len(ref.pt)
           heading == [i \in Indices(ref) |-> Heading(ref.pt, i)]
           turn == [i \in Indices(ref) |-> TurnAt(ref.pt, i)]
           energy == [i \in Indices(ref) |-> EnergyAt(ref.pt, i)]
<1>1. /\ ref.pt \in Routes /\ ref.arc \in [1..n -> Int]
      /\ ref.gear \in [1..(n - 1) -> {-1, 1}] /\ ref.bad \in SUBSET (1..n)
      /\ ref = [pt |-> ref.pt, arc |-> ref.arc, heading |-> ref.heading,
                turn |-> ref.turn, energy |-> ref.energy, gear |-> ref.gear,
                bad |-> ref.bad]
  BY Parts DEF RefTypeInv
<1>2. Indices(ref) = 1..n
  BY DEF Indices
<1>3. heading \in [1..n -> Int]
  <2>1. \A i \in 1..n : Heading(ref.pt, i) \in Octants
    BY <1>1, HeadingType
  <2> QED
    BY <1>2, <2>1 DEF Octants
<1>4. turn \in [1..n -> Int] /\ energy \in [1..n -> Int]
  BY <1>1, <1>2, EnergyType
<1> HIDE DEF heading, turn, energy, n
<1>5. ref' = [ref EXCEPT !.heading = heading, !.turn = turn, !.energy = energy]
  BY DEF Complete, heading, turn, energy
<1>6. ref' = [pt |-> ref.pt, arc |-> ref.arc, heading |-> heading, turn |-> turn,
              energy |-> energy, gear |-> ref.gear, bad |-> ref.bad]
  BY <1>1, <1>5
<1> QED
  BY <1>1, <1>3, <1>4, <1>6, Fitting DEF n

LEMMA RefTypeShape ==
  RefTypeInv /\ Shape => RefTypeInv'
PROOF
<1> SUFFICES ASSUME RefTypeInv, Shape
             PROVE  ref' \in References /\ Fits(ref')
  BY DEF RefTypeInv
<1> DEFINE n == Len(ref.pt)
           energy == Braked(Ramped(ref.energy, ref.arc), ref.arc)
<1>1. /\ ref.pt \in Routes /\ ref.arc \in [1..n -> Int]
      /\ ref.heading \in [1..n -> Int] /\ ref.turn \in [1..n -> Int]
      /\ ref.energy \in [1..n -> Int]
      /\ ref.gear \in [1..(n - 1) -> {-1, 1}] /\ ref.bad \in SUBSET (1..n)
      /\ ref = [pt |-> ref.pt, arc |-> ref.arc, heading |-> ref.heading,
                turn |-> ref.turn, energy |-> ref.energy, gear |-> ref.gear,
                bad |-> ref.bad]
  BY Parts DEF RefTypeInv
<1>2. n \in Nat \ {0}
  BY <1>1, RouteType
<1>3. energy \in [1..n -> Int]
  <2> DEFINE arc == ref.arc
             e == ref.energy
  <2>1. arc \in [1..n -> Int] /\ e \in [1..n -> Int]
    BY <1>1
  <2> HIDE DEF n, arc, e
  <2>2. Len(arc) = n
    <3>1. arc \in Seq(Int) /\ DOMAIN arc = 1..n
      BY <1>2, <2>1
    <3> QED
      BY <1>2, <3>1
  <2>3. Ramped(e, arc) \in [1..n -> Int]
    BY <1>2, <2>1, <2>2, RampedSteps
  <2>4. Braked(Ramped(e, arc), arc) \in [1..n -> Int]
    BY <1>2, <2>1, <2>2, <2>3, BrakedSteps
  <2> QED
    BY <2>4 DEF arc, e
<1> HIDE DEF energy, n
<1>4. ref' = [ref EXCEPT !.energy = energy]
  BY DEF Shape, energy
<1>5. ref' = [pt |-> ref.pt, arc |-> ref.arc, heading |-> ref.heading,
              turn |-> ref.turn, energy |-> energy, gear |-> ref.gear,
              bad |-> ref.bad]
  BY <1>1, <1>4
<1> QED
  BY <1>1, <1>3, <1>5, Fitting DEF n

LEMMA RefTypeNext ==
  RefTypeInv /\ [TrackNext]_<<refVars, trackVars>> => RefTypeInv'
PROOF
<1> SUFFICES ASSUME RefTypeInv, [TrackNext]_<<refVars, trackVars>>
             PROVE  RefTypeInv'
  OBVIOUS
<1>1. ref.pt \in Routes
  BY Parts DEF RefTypeInv
<1>2. CASE Resample
  BY <1>1, <1>2, ResampledType, WaypointsType DEF Resample, RefTypeInv
<1>3. CASE ServeTrack
  BY <1>1, <1>3, OpenedType, WaypointsType DEF ServeTrack, RefTypeInv
<1>4. CASE ServeFile
  BY <1>1, <1>4, WaypointsType DEF ServeFile, RefTypeInv
<1>5. CASE Complete
  BY <1>5, RefTypeComplete
<1>6. CASE Shape
  BY <1>6, RefTypeShape
<1>7. ASSUME NEW by \in {"guarded", "entry"}, Improve(by)
      PROVE  RefTypeInv'
  BY <1>1, <1>7, WaypointsType DEF Improve, RefTypeInv
\* Nothing else touches the reference.
<1>8. ASSUME ref' = ref
      PROVE  RefTypeInv'
  BY <1>8 DEF RefTypeInv
<1>9. CASE Judge
  BY <1>8, <1>9 DEF Judge
<1>10. ASSUME NEW p \in SeedPoses, NEW heading \in SeedYaws, Seed(p, heading)
       PROVE  RefTypeInv'
  BY <1>8, <1>10 DEF Seed
<1>11. ASSUME NEW k \in Indices(ref), NEW offset \in Offsets, NEW slant \in Slants,
              Follow(k, offset, slant)
       PROVE  RefTypeInv'
  BY <1>8, <1>11 DEF Follow
<1>12. CASE UNCHANGED <<refVars, trackVars>>
  BY <1>8, <1>12 DEF refVars
<1> QED
  BY <1>2, <1>3, <1>4, <1>5, <1>6, <1>7, <1>9, <1>10, <1>11, <1>12
     DEF TrackNext, Prepare, RefNext

\* Whatever a recipe starts from, and at whatever point of it, the arrays of
\* the reference have the length of its points: resample_uniform, serpentine,
\* the opening of a loop, complete_speed_curvature, adaptPath and the shaping
\* never index past an end.
THEOREM ReferenceTypeInvariance == TrackSpec => []RefTypeInv
PROOF
<1> QED
  BY RefTypeInit, RefTypeNext, PTL DEF TrackSpec

-----------------------------------------------------------------------------
(***************************************************************************)
(* What is shaped is the fastest profile.                                  *)
(***************************************************************************)

Shaped(pt, arc) == Braked(Ramped(Demanded(pt), arc), arc)

\* What the production entry, and the scenarios it is given, have made so far.
EntryInv ==
    /\ recipe \in {"entry", "scenario"} => ref.arc = Arcs(ref.pt)
    /\ phase = "completed" => recipe = "entry"
    /\ phase = "track" => recipe = "served"
    /\ recipe = "entry" =>
        /\ phase = "completed" => ref.energy = Demanded(ref.pt)
        /\ phase \in {"processed", "judged"} => ref.energy = Shaped(ref.pt, ref.arc)
        /\ phase = "judged" /\ verdict.feasible => ZeroLength(ref) = {}

LEMMA EntryInvInit ==
  TrackInit => EntryInv
PROOF
<1> SUFFICES ASSUME TrackInit
             PROVE  EntryInv
  OBVIOUS
<1>1. CASE FromWaypoints
  <2>1. PICK pt \in WaypointLists : ref = Waypoints(pt)
    BY <1>1 DEF FromWaypoints
  <2>2. ref.arc = Arcs(ref.pt)
    BY <2>1, OfferedRoutes, WaypointsType
  <2> QED
    BY <1>1, <2>2 DEF FromWaypoints, EntryInv
<1>2. CASE FromRows
  BY <1>2 DEF FromRows, EntryInv
<1>3. CASE FromScenario
  <2>1. PICK pt \in Tracks : ref = Waypoints(pt)
    BY <1>3 DEF FromScenario
  <2>2. ref.arc = Arcs(ref.pt)
    BY <2>1, OfferedRoutes, WaypointsType
  <2> QED
    BY <1>3, <2>2 DEF FromScenario, EntryInv
<1>4. CASE FromTrack
  BY <1>4 DEF FromTrack, EntryInv
<1>5. CASE FromElsewhere
  BY <1>5 DEF FromElsewhere, EntryInv
<1> QED
  BY <1>1, <1>2, <1>3, <1>4, <1>5 DEF TrackInit, RefInit

LEMMA EntryInvNext ==
  RefTypeInv /\ EntryInv /\ [TrackNext]_<<refVars, trackVars>> => EntryInv'
PROOF
<1> SUFFICES ASSUME RefTypeInv, EntryInv, [TrackNext]_<<refVars, trackVars>>
             PROVE  EntryInv'
  OBVIOUS
<1>0. /\ ref \in References /\ ref.pt \in Routes
      /\ ref.energy \in [1..Len(ref.pt) -> Int]
  BY Parts DEF RefTypeInv
<1>1. CASE Resample
  <2>1. CASE recipe \notin {"entry", "scenario"}
    BY <1>1, <2>1 DEF Resample, EntryInv
  <2>2. CASE recipe \in {"entry", "scenario"}
    <3>1. Resampled(ref.pt) \in Routes
      BY <1>0, ResampledType
    <3>2. ref'.arc = Arcs(ref'.pt)
      BY <1>1, <3>1, WaypointsType DEF Resample
    <3> QED
      BY <1>1, <3>2 DEF Resample, EntryInv
  <2> QED
    BY <2>1, <2>2
<1>2. CASE ServeTrack
  BY <1>2 DEF ServeTrack, EntryInv
<1>3. CASE ServeFile
  BY <1>3 DEF ServeFile, EntryInv
<1>4. CASE Complete
  <2> DEFINE heading == [i \in Indices(ref) |-> Heading(ref.pt, i)]
             turn == [i \in Indices(ref) |-> TurnAt(ref.pt, i)]
             energy == [i \in Indices(ref) |-> EnergyAt(ref.pt, i)]
  <2>1. recipe = "entry" => energy = Demanded(ref.pt)
    <3>1. SUFFICES ASSUME recipe = "entry"
                   PROVE  energy = Demanded(ref.pt)
      OBVIOUS
    <3>2. Asked = VDefault /\ Ceiling = VMax
      BY <3>1 DEF Asked, Ceiling
    <3>3. ASSUME NEW i \in 1..Len(ref.pt)
          PROVE  EnergyAt(ref.pt, i) = EntryEnergy(ref.pt, i)
      <4>1. EnergyAt(ref.pt, i) = CompletedEnergy(ref.pt, i)
        BY <3>1 DEF EnergyAt, Planned, Adapted
      <4> QED
        BY <3>2, <4>1 DEF CompletedEnergy, EntryEnergy
    <3> QED
      BY <3>3 DEF Demanded, Indices
  <2> HIDE DEF heading, turn, energy
  <2>2. ref' = [ref EXCEPT !.heading = heading, !.turn = turn, !.energy = energy]
    BY <1>4 DEF Complete, heading, turn, energy
  <2>3. ref'.pt = ref.pt /\ ref'.arc = ref.arc /\ ref'.energy = energy
    BY <1>0, <2>2 DEF References
  <2>4. /\ recipe' = recipe
        /\ phase' = IF recipe = "entry" THEN "completed" ELSE "processed"
    BY <1>4 DEF Complete
  <2> QED
    BY <2>1, <2>3, <2>4 DEF EntryInv
<1>5. CASE Shape
  <2> DEFINE energy == Shaped(ref.pt, ref.arc)
  <2>1. recipe = "entry" /\ phase = "completed"
    BY <1>5 DEF Shape, EntryInv
  <2>2. ref.arc = Arcs(ref.pt) /\ ref.energy = Demanded(ref.pt)
    BY <2>1 DEF EntryInv
  <2>3. ref' = [ref EXCEPT !.energy = energy]
    BY <1>5, <2>2 DEF Shape, Shaped
  <2> HIDE DEF energy
  <2>4. ref'.pt = ref.pt /\ ref'.arc = ref.arc /\ ref'.energy = energy
    BY <1>0, <2>3 DEF References
  <2>5. recipe' = "entry" /\ phase' = "processed"
    BY <1>5, <2>1 DEF Shape
  <2> QED
    BY <2>2, <2>4, <2>5 DEF EntryInv, energy
<1>6. CASE Judge
  <2>1. ref' = ref /\ recipe' = recipe /\ phase = "processed" /\ phase' = "judged"
    BY <1>6 DEF Judge
  <2>2. recipe = "entry" /\ verdict'.feasible => ZeroLength(ref) = {}
    <3>1. SUFFICES ASSUME recipe = "entry", verdict'.feasible
                   PROVE  ZeroLength(ref) = {}
      OBVIOUS
    <3> DEFINE c == Certified(ref)
    <3>2. verdict' = IF ~c.feasible
                     THEN [c EXCEPT !.codes = @ \cup ProfileCodes(ref)] ELSE c
      BY <1>6, <3>1 DEF Judge, Planned
    <3>3. c = [feasible |-> PathCodes(ref) \cup MotionCodes(ref) = {},
               codes |-> PathCodes(ref) \cup MotionCodes(ref)]
      BY DEF Certified
    <3>4. verdict'.feasible = c.feasible
      BY <3>2, <3>3
    <3>5. PathCodes(ref) = {}
      <4> DEFINE codes == PathCodes(ref) \cup MotionCodes(ref)
      <4> HIDE DEF codes
      <4>1. c.feasible <=> codes = {}
        <5>1. \A x, y : [feasible |-> x, codes |-> y].feasible = x
          OBVIOUS
        <5> QED
          BY Zenon, <5>1 DEF Certified, codes
      <4>2. PathCodes(ref) \cup MotionCodes(ref) = {}
        BY Zenon, <3>1, <3>4, <4>1 DEF codes
      <4> QED
        BY Zenon, <4>2
    <3>6. "zero_length_segment" \in PathCodes(ref) <=> ZeroLength(ref) # {}
      BY Zenon DEF PathCodes
    <3> QED
      BY Zenon, <3>5, <3>6
  <2>3. ZeroLength(ref)' = ZeroLength(ref)
    BY <2>1 DEF ZeroLength, SegmentsOf, Degenerate
  <2> QED
    BY <2>1, <2>2, <2>3 DEF EntryInv
<1>7. ASSUME NEW by \in {"guarded", "entry"}, Improve(by)
      PROVE  EntryInv'
  <2>1. ref'.arc = Arcs(ref'.pt)
    BY <1>0, <1>7, WaypointsType DEF Improve
  <2> QED
    BY <1>7, <2>1 DEF Improve, EntryInv
<1>8. ASSUME UNCHANGED <<recipe, ref, verdict>>,
             phase' \in {"seeded", "followed"}
      PROVE  EntryInv'
  BY <1>8 DEF EntryInv
<1>9. CASE UNCHANGED <<refVars, trackVars>>
  <2>1. UNCHANGED <<recipe, phase, ref, verdict>>
    BY <1>9 DEF refVars
  <2>2. ZeroLength(ref)' = ZeroLength(ref)
    BY <2>1 DEF ZeroLength, SegmentsOf, Degenerate
  <2> QED
    BY <2>1, <2>2 DEF EntryInv
<1>10. ASSUME NEW p \in SeedPoses, NEW heading \in SeedYaws, Seed(p, heading)
       PROVE  EntryInv'
  BY <1>8, <1>10 DEF Seed
<1>11. ASSUME NEW k \in Indices(ref), NEW offset \in Offsets, NEW slant \in Slants,
              Follow(k, offset, slant)
       PROVE  EntryInv'
  BY <1>8, <1>11 DEF Follow
<1> QED
  BY <1>1, <1>2, <1>3, <1>4, <1>5, <1>6, <1>7, <1>9, <1>10, <1>11
     DEF TrackNext, Prepare, RefNext

THEOREM EntryInvariance == TrackSpec => []EntryInv
PROOF
<1> QED
  BY ReferenceTypeInvariance, EntryInvInit, EntryInvNext, PTL DEF TrackSpec

LEMMA EntryInvShaped ==
  RefTypeInv /\ EntryInv => ShapedIsGreatest
PROOF
<1> SUFFICES ASSUME RefTypeInv, EntryInv, phase = "judged", recipe = "entry", verdict.feasible,
                    NEW i \in Indices(ref)
             PROVE  ref.energy[i] = GreatestProfile(ref, i)
  BY DEF ShapedIsGreatest
<1> DEFINE n == Len(ref.pt)
           e == Demanded(ref.pt)
           arc == ref.arc
           b == Braked(Ramped(e, arc), arc)
           cap == Ended(e, n)
<1>1. /\ ref.pt \in Routes /\ arc = Arcs(ref.pt)
      /\ ref.energy = b /\ ZeroLength(ref) = {}
  BY Parts DEF RefTypeInv, EntryInv, Shaped
<1>2. ref.pt \in Routes /\ n \in Nat \ {0} /\ ref.pt \in [1..n -> Points]
  BY <1>1, RouteType
<1>3. e \in [1..n -> Int]
  BY <1>2, DemandedType
<1>4. Arcs(ref.pt) \in [1..n -> Nat] /\ Len(Arcs(ref.pt)) = n
      /\ ArcRule(n, ref.pt, Arcs(ref.pt))
  BY <1>2, ArcSteps
<1>5. arc \in [1..n -> Int] /\ Len(arc) = n
  <2>1. Arcs(ref.pt) \in [1..n -> Int]
    BY <1>4
  <2> QED
    BY <1>1, <1>4, <2>1
\* No two points of what the guard lets pass coincide.
<1>6. ASSUME NEW k \in 1..n, k + 1 \in 1..n
      PROVE  arc[k] < arc[k + 1]
  <2>1. k \in SegmentsOf(ref)
    BY <1>2, <1>6 DEF SegmentsOf
  <2>2. ref.pt[k] # ref.pt[k + 1]
    BY <1>1, <2>1 DEF ZeroLength, Degenerate
  <2>3. ref.pt[k] \in Points /\ ref.pt[k + 1] \in Points
    BY <1>2, <1>6
  <2>4. Chord(ref.pt[k], ref.pt[k + 1]) \in Nat /\ Chord(ref.pt[k], ref.pt[k + 1]) > 0
    BY <2>2, <2>3, ChordType
  <2>5. k + 1 # 1 /\ (k + 1) - 1 = k
    OBVIOUS
  <2>6. arc[k + 1] = arc[k] + Chord(ref.pt[k], ref.pt[k + 1])
    BY Zenon, <1>1, <1>4, <1>6, <2>5 DEF ArcRule
  <2>7. arc[k] \in Int
    BY <1>5
  <2> HIDE DEF arc
  <2> QED
    BY <2>4, <2>6, <2>7
<1>7. i \in 1..n
  BY DEF Indices
<1> HIDE DEF e, arc, n
<1>8. /\ b \in [1..n -> Int] /\ cap \in [1..n -> Int]
      /\ \A j, k \in 1..n : b[j] <= cap[k] + Slack(arc, k, j)
      /\ \A j \in 1..n : \E k \in 1..n : b[j] = cap[k] + Slack(arc, k, j)
  BY <1>2, <1>3, <1>5, <1>6, PassesAreGreatest
<1>9. \A k \in 1..n : cap[k] = IF k = n THEN Least(e[n], Square(VEnd)) ELSE e[k]
  BY <1>3 DEF Ended
<1> HIDE DEF b, cap
<1>10. ASSUME NEW k \in 1..n
       PROVE  CompletedEnergy(ref.pt, k) = e[k]
  <2>1. Asked = VDefault /\ Ceiling = VMax
    BY DEF Asked, Ceiling
  <2>2. e[k] = EntryEnergy(ref.pt, k)
    BY DEF e, Demanded, n
  <2> QED
    BY <2>1, <2>2 DEF CompletedEnergy, EntryEnergy
<1> DEFINE allowed == {cap[k] + Slack(arc, k, i) : k \in 1..n}
           caps == [k \in Indices(ref) |->
                  IF k = n THEN Least(CompletedEnergy(ref.pt, n), Square(VEnd))
                  ELSE CompletedEnergy(ref.pt, k)]
<1>11. Indices(ref) = 1..n /\ n \in 1..n
  BY <1>2 DEF Indices, n
<1>12. \A k \in 1..n : caps[k] = cap[k]
  BY <1>9, <1>10, <1>11
<1>13. GreatestProfile(ref, i) =
          Min({caps[k] + (IF k <= i THEN Ramp * (arc[i] - arc[k])
                                   ELSE Brake * (arc[k] - arc[i]))
                : k \in Indices(ref)})
  BY DEF GreatestProfile, n, arc
<1> HIDE DEF caps
<1>14. GreatestProfile(ref, i) = Min(allowed)
  BY <1>11, <1>12, <1>13 DEF Slack
<1>15. b[i] \in allowed /\ \A y \in allowed : b[i] <= y
  BY <1>7, <1>8
<1>16. allowed \subseteq Int
  <2>1. ASSUME NEW k \in 1..n
        PROVE  Slack(arc, k, i) \in Int
    <3>1. arc[i] \in Int /\ arc[k] \in Int /\ Ramp \in Int /\ Brake \in Int
      BY <1>5, <1>7, ShapingConstants
    <3> QED
      BY <3>1 DEF Slack
  <2> QED
    BY <1>8, <2>1
<1> HIDE DEF allowed
<1>17. ASSUME NEW x \in allowed, \A y \in allowed : x <= y
       PROVE  x = b[i]
  <2>1. x <= b[i] /\ b[i] <= x /\ x \in Int /\ b[i] \in Int
    BY <1>15, <1>16, <1>17
  <2> QED
    BY <2>1
<1>18. Min(allowed) = b[i]
  BY <1>15, <1>17 DEF Min
<1> QED
  BY <1>1, <1>14, <1>18

\* ShapedIsGreatest: of every path that the production entry certifies, the
\* two passes of accel_limited_profile make the fastest profile that respects
\* every turn, the end of the path and the limits on speeding up and braking,
\* whatever the path, the limits and the sample distance.
THEOREM ShapedSound == TrackSpec => []ShapedIsGreatest
PROOF
<1> QED
  BY ReferenceTypeInvariance, EntryInvariance, EntryInvShaped, PTL
-----------------------------------------------------------------------------
(***************************************************************************)
(* What is certified can be driven.                                        *)
(***************************************************************************)

\* The arcs of a path never decrease.
Forward(r) == \A i \in 1..(Len(r.pt) - 1) : r.arc[i] <= r.arc[i + 1]

\* What a sample adds to the length driven backwards.
Backwards(r, i) ==
    IF i > 1 /\ i \in Sound(r) /\ r.energy[i] < 0 THEN r.arc[i] - r.arc[i - 1] ELSE 0

DrivenRule(r, d) ==
    \A i \in 1..Len(r.pt) : d[i] = (IF i = 1 THEN 0 ELSE d[i - 1]) + Backwards(r, i)

\* The length driven backwards is summed sample by sample.
LEMMA ReverseSteps ==
  ASSUME NEW r, r \in References, Fits(r)
  PROVE  /\ \A i \in 1..Len(r.pt) : Backwards(r, i) \in Int
         /\ \E d \in [1..Len(r.pt) -> Int] :
               DrivenRule(r, d) /\ ReverseArc(r) = d[Len(r.pt)]
PROOF
<1> DEFINE n == Len(r.pt)
           To(i, v) == (IF i = 1 THEN 0 ELSE v)
                         + (IF i > 1 /\ i \in Sound(r) /\ r.energy[i] < 0
                            THEN r.arc[i] - r.arc[i - 1] ELSE 0)
           Sum(f) == [i \in Indices(r) |-> To(i, f[i - 1])]
           next == [p \in (1..n) \X Int |-> To(p[1], p[2])]
<1>1. n \in Nat \ {0} /\ r.arc \in [1..n -> Int]
  BY Parts, RouteType
<1>2. Indices(r) = 1..n
  BY DEF Indices
<1>3. ASSUME NEW i \in 1..n
      PROVE  Backwards(r, i) \in Int
  <2>1. i > 1 => i - 1 \in 1..n
    BY <1>1
  <2>2. i > 1 => r.arc[i] \in Int /\ r.arc[i - 1] \in Int
    BY <1>1, <2>1
  <2>3. i > 1 => r.arc[i] - r.arc[i - 1] \in Int
    BY <2>2
  <2>4. 0 \in Int
    OBVIOUS
  <2> QED
    BY Zenon, <2>3, <2>4 DEF Backwards
<1>4. \A i, v : To(i, v) = (IF i = 1 THEN 0 ELSE v) + Backwards(r, i)
  BY Zenon DEF Backwards
<1>5. ASSUME NEW i \in 1..n, NEW v \in Int
      PROVE  To(i, v) \in Int
  <2>1. To(i, v) = (IF i = 1 THEN 0 ELSE v) + Backwards(r, i)
    BY Zenon, <1>4
  <2> HIDE DEF To
  <2> QED
    BY <1>3, <2>1
<1>6. next \in StepsOn(n, Int)
  <2> HIDE DEF To
  <2> QED
    BY <1>5 DEF StepsOn
<1>7. \A i \in 1..n, v \in Int : next[<<i, v>>] = To(i, v)
  <2> HIDE DEF To
  <2> QED
    OBVIOUS
<1>8. \A v \in Int : To(1, v) = 0
  <2>1. ~(1 > 1) /\ 0 + 0 = 0
    OBVIOUS
  <2> QED
    BY Zenon, <2>1
<1>9. ReverseArc(r) = (CHOOSE g : g = Sum(g))[n]
  BY Zenon DEF ReverseArc
<1>10. \A v : To(1, v) = To(1, 0)
  BY Zenon
<1> HIDE DEF To, next, n
<1>11. 1 \in 1..n /\ 0 \in Int
  BY <1>1
<1>12. PICK f \in [1..n -> Int] : Begins(f, n, 0, next)
  <2>1. n \in Nat
    BY <1>1
  <2> QED
    BY <1>6, <1>11, <2>1, DefinedUpwards
<1>13. ASSUME NEW i \in 1..n
       PROVE  f[i] = To(i, f[i - 1])
  <2>1. CASE i = 1
    <3>1. f[1] = 0
      BY Zenon, <1>11, <1>12 DEF Begins
    <3> QED
      BY Zenon, <1>8, <1>10, <1>11, <2>1, <3>1
  <2>2. CASE i # 1
    <3>1. i - 1 \in 1..n
      BY <1>1, <2>2
    <3>2. f[i - 1] \in Int
      BY <3>1
    <3>3. f[i] = next[<<i, f[i - 1]>>]
      BY Zenon, <1>12, <2>2 DEF Begins
    <3> QED
      BY Zenon, <1>7, <3>2, <3>3
  <2> QED
    BY <2>1, <2>2
<1>14. f = Sum(f)
  BY <1>2, <1>13
<1> DEFINE d == CHOOSE g : g = Sum(g)
<1>15. d = Sum(d)
  BY Zenon, <1>14
<1>16. ReverseArc(r) = d[n]
  BY <1>9
<1> HIDE DEF d
<1>17. \A i \in 1..n : d[i] = To(i, d[i - 1])
  BY <1>2, <1>15
<1>18. \A i \in 1..n : d[i] \in Int
  <2> DEFINE S == {i \in 1..n : d[i] \in Int}
  <2>1. 1 \in S
    <3>1. d[1] = 0
      BY Zenon, <1>8, <1>10, <1>11, <1>17
    <3> QED
      BY <1>11, <3>1
  <2>2. ASSUME NEW i \in 1..n, i \in S, i + 1 \in 1..n
        PROVE  i + 1 \in S
    <3>1. (i + 1) - 1 = i
      BY <1>1
    <3>2. d[i + 1] = To(i + 1, d[i])
      BY Zenon, <1>17, <2>2, <3>1
    <3> QED
      BY <1>5, <2>2, <3>2
  <2>3. 1..n \subseteq S
    <3>1. n \in Nat
      BY <1>1
    <3> HIDE DEF S
    <3> QED
      BY <2>1, <2>2, <3>1, Upwards
  <2> QED
    BY <2>3
<1>19. d \in [1..n -> Int]
  BY <1>2, <1>15, <1>18
<1>20. DrivenRule(r, d)
  BY Zenon, <1>4, <1>17 DEF DrivenRule, n
<1> QED
  BY Zenon, <1>3, <1>16, <1>19, <1>20 DEF n

\* Where only the last sample may be driven backwards, no more is than the arc
\* that leads to it.
LEMMA ReverseAtMost ==
  ASSUME NEW r, r \in References, Fits(r), NEW most \in Nat,
         \A i \in 1..(Len(r.pt) - 1) : r.energy[i] >= 0,
         r.energy[Len(r.pt)] >= 0 \/ Len(r.pt) = 1
           \/ r.arc[Len(r.pt)] - r.arc[Len(r.pt) - 1] <= most
  PROVE  ReverseArc(r) <= most /\ ReverseArc(r) \in Int
PROOF
<1> DEFINE n == Len(r.pt)
<1>1. /\ n \in Nat \ {0} /\ r.arc \in [1..n -> Int] /\ r.energy \in [1..n -> Int]
  BY Parts, RouteType
<1>2. PICK d \in [1..n -> Int] : DrivenRule(r, d) /\ ReverseArc(r) = d[n]
  BY ReverseSteps
<1> HIDE DEF n
<1>3. ASSUME NEW i \in 1..n, i < n
      PROVE  Backwards(r, i) = 0
  <2>1. i \in 1..(n - 1)
    BY <1>1, <1>3
  <2>2. r.energy[i] >= 0 /\ r.energy[i] \in Int
    BY <1>1, <2>1 DEF n
  <2>3. ~(r.energy[i] < 0)
    BY <2>2
  <2> QED
    BY Zenon, <2>3 DEF Backwards
<1> DEFINE S == {i \in 1..n : i < n => d[i] = 0}
<1>4. 1 \in S
  <2>1. 1 \in 1..n
    BY <1>1
  <2>2. d[1] = 0 + Backwards(r, 1)
    BY Zenon, <1>2, <2>1 DEF DrivenRule, n
  <2> QED
    BY <1>3, <2>1, <2>2
<1>5. ASSUME NEW i \in 1..n, i \in S, i + 1 \in 1..n
      PROVE  i + 1 \in S
  <2>1. (i + 1) - 1 = i /\ i + 1 # 1 /\ i < n
    BY <1>1, <1>5
  <2>2. d[i + 1] = d[i] + Backwards(r, i + 1)
    BY Zenon, <1>2, <1>5, <2>1 DEF DrivenRule, n
  <2> QED
    BY <1>3, <1>5, <2>1, <2>2
<1>6. 1..n \subseteq S
  <2>1. n \in Nat
    BY <1>1
  <2> HIDE DEF S
  <2> QED
    BY <1>4, <1>5, <2>1, Upwards
<1>7. d[n] = Backwards(r, n)
  <2>1. CASE n = 1
    <3>1. 1 \in 1..n
      BY <1>1
    <3>2. d[1] = 0 + Backwards(r, 1) /\ Backwards(r, 1) \in Int
      <4>1. d[1] = 0 + Backwards(r, 1)
        BY Zenon, <1>2, <3>1 DEF DrivenRule, n
      <4> QED
        BY <3>1, <4>1, ReverseSteps DEF n
    <3> QED
      BY <2>1, <3>2
  <2>2. CASE n # 1
    <3>1. n \in 1..n /\ n - 1 \in 1..n /\ n - 1 < n
      BY <1>1, <2>2
    <3>2. d[n] = d[n - 1] + Backwards(r, n)
      BY Zenon, <1>2, <2>2, <3>1 DEF DrivenRule, n
    <3>3. d[n - 1] = 0
      BY <1>6, <3>1
    <3>4. Backwards(r, n) \in Int
      BY <3>1, ReverseSteps DEF n
    <3> QED
      BY <3>2, <3>3, <3>4
  <2> QED
    BY <2>1, <2>2
<1>8. Backwards(r, n) <= most
  <2>1. CASE r.energy[n] < 0 /\ n # 1
    <3>1. ~(r.energy[n] >= 0)
      <4>1. n \in 1..n
        BY <1>1
      <4>2. r.energy[n] \in Int
        BY <1>1, <4>1
      <4> QED
        BY <2>1, <4>2
    <3>2. r.arc[n] - r.arc[n - 1] <= most
      BY Zenon, <2>1, <3>1 DEF n
    <3>3. 0 <= most
      OBVIOUS
    <3> QED
      BY Zenon, <3>2, <3>3 DEF Backwards
  <2>2. CASE ~(r.energy[n] < 0 /\ n # 1)
    <3>1. ~(1 > 1) /\ 0 <= most
      OBVIOUS
    <3>2. Backwards(r, n) = 0
      BY Zenon, <2>2, <3>1 DEF Backwards
    <3> QED
      BY Zenon, <3>1, <3>2
  <2> QED
    BY <2>1, <2>2
<1>9. d[n] \in Int
  <2>1. n \in 1..n
    BY <1>1
  <2> QED
    BY <2>1
<1> QED
  BY Zenon, <1>2, <1>7, <1>8, <1>9 DEF n

\* A stretch that is driven backwards throughout is no longer than all that is.
LEMMA StretchBound ==
  ASSUME NEW r, r \in References, Fits(r), Forward(r), r.bad = {},
         NEW i \in 1..Len(r.pt), NEW k \in 1..Len(r.pt), i <= k,
         \A l \in i..k : r.energy[l] < 0
  PROVE  r.arc[k] - r.arc[i] <= ReverseArc(r)
PROOF
<1> DEFINE n == Len(r.pt)
           arc == r.arc
<1>1. n \in Nat \ {0} /\ arc \in [1..n -> Int]
  BY Parts, RouteType
<1>2. PICK d \in [1..n -> Int] : DrivenRule(r, d) /\ ReverseArc(r) = d[n]
  BY ReverseSteps
<1>3. i \in 1..n /\ k \in 1..n
  OBVIOUS
<1> HIDE DEF n
<1>4. ASSUME NEW j \in 1..n
      PROVE  Backwards(r, j) \in Nat
  <2>1. CASE j > 1
    <3>1. j - 1 \in 1..(n - 1) /\ j - 1 \in 1..n /\ (j - 1) + 1 = j
      BY <1>1, <2>1
    <3>2. arc[j - 1] <= arc[j]
      BY Zenon, <3>1 DEF Forward, n
    <3>3. arc[j] \in Int /\ arc[j - 1] \in Int
      BY <1>1, <3>1
    <3> HIDE DEF arc
    <3>4. arc[j] - arc[j - 1] \in Nat /\ 0 \in Nat
      BY <3>2, <3>3
    <3> QED
      BY Zenon, <3>4 DEF Backwards, arc
  <2>2. CASE ~(j > 1)
    <3>1. Backwards(r, j) = 0
      BY Zenon, <2>2 DEF Backwards
    <3> QED
      BY <3>1
  <2> QED
    BY <2>1, <2>2
<1>5. ASSUME NEW j \in 1..n, j > i, j <= k
      PROVE  Backwards(r, j) = arc[j] - arc[j - 1]
  <2>1. j > 1 /\ j \in i..k
    BY <1>1, <1>3, <1>5
  <2>2. j \in Sound(r)
    BY DEF Sound, Indices, n
  <2>3. r.energy[j] < 0
    BY <2>1
  <2> QED
    BY Zenon, <2>1, <2>2, <2>3 DEF Backwards
<1> DEFINE far == arc[k] - arc[i]
           S == {j \in 1..n : /\ d[j] >= 0
                              /\ i <= j /\ j <= k => arc[j] - arc[i] <= d[j]
                              /\ k <= j => far <= d[j]}
<1>6. arc[i] \in Int /\ arc[k] \in Int /\ far \in Int
  BY <1>1, <1>3
<1> HIDE DEF arc
<1>7. 1 \in S
  <2>1. 1 \in 1..n
    BY <1>1
  <2>2. d[1] = 0 + Backwards(r, 1) /\ d[1] \in Int
    BY Zenon, <1>2, <2>1 DEF DrivenRule, n
  <2>3. d[1] >= 0
    BY <1>4, <2>1, <2>2
  <2>4. i <= 1 => i = 1
    BY <1>1, <1>3
  <2>5. k <= 1 => k = 1 /\ i = 1
    BY <1>1, <1>3
  <2>6. \A x \in Int : x - x = 0
    OBVIOUS
  <2>7. i <= 1 => arc[1] - arc[i] = 0
    BY Zenon, <1>6, <2>4, <2>6
  <2>8. k <= 1 => far = 0
    BY Zenon, <1>6, <2>5, <2>6
  <2> HIDE DEF far
  <2> QED
    BY <2>1, <2>2, <2>3, <2>7, <2>8
<1>8. ASSUME NEW j \in 1..n, j \in S, j + 1 \in 1..n
      PROVE  j + 1 \in S
  <2> DEFINE x == d[j]
             y == d[j + 1]
             z == Backwards(r, j + 1)
             u == arc[j]
             v == arc[j + 1]
             o == arc[i]
  <2>1. (j + 1) - 1 = j /\ j + 1 # 1 /\ j \in Int
    BY <1>8
  <2>2. y = x + z /\ x \in Int /\ y \in Int /\ z \in Nat
    <3>1. y = x + z
      BY Zenon, <1>2, <1>8, <2>1 DEF DrivenRule, n
    <3> QED
      BY <1>4, <1>8, <3>1
  <2>3. u \in Int /\ v \in Int /\ o \in Int
    BY <1>1, <1>3, <1>8 DEF arc
  <2>4. /\ x >= 0
        /\ i <= j /\ j <= k => u - o <= x
        /\ k <= j => far <= x
    BY <1>8
  <2>5. j + 1 > i /\ j + 1 <= k => z = v - u
    <3>1. j + 1 > i /\ j + 1 <= k => z = v - arc[(j + 1) - 1]
      BY Zenon, <1>5, <1>8
    <3> QED
      BY Zenon, <2>1, <3>1
  <2>6. j + 1 = i => v = o
    OBVIOUS
  <2>7. j + 1 = k => far = v - o
    OBVIOUS
  <2>8. i \in Int /\ k \in Int /\ i <= k /\ far \in Int
    BY <1>3, <1>6
  <2> HIDE DEF x, y, z, u, v, o, far
  <2>9. y >= 0
    BY <2>2, <2>4
  <2>10. ASSUME i <= j + 1, j + 1 <= k
         PROVE  v - o <= y
    <3>1. CASE j + 1 = i
      BY <2>3, <2>6, <2>9, <3>1
    <3>2. CASE j + 1 # i
      <4>1. j + 1 > i /\ i <= j /\ j <= k
        BY <2>1, <2>8, <2>10, <3>2
      <4> QED
        BY <2>2, <2>3, <2>4, <2>5, <2>10, <4>1
    <3> QED
      BY <3>1, <3>2
  <2>11. ASSUME k <= j + 1
         PROVE  far <= y
    <3>1. CASE j + 1 = k
      BY <2>1, <2>7, <2>8, <2>10, <3>1
    <3>2. CASE j + 1 # k
      <4>1. k <= j
        BY <2>1, <2>8, <2>11, <3>2
      <4> QED
        BY <2>2, <2>4, <2>8, <4>1
    <3> QED
      BY <3>1, <3>2
  <2> QED
    BY <1>8, <2>9, <2>10, <2>11 DEF y, v, o
<1>9. 1..n \subseteq S
  <2>1. n \in Nat
    BY <1>1
  <2> HIDE DEF S
  <2> QED
    BY <1>7, <1>8, <2>1, Upwards
<1>10. n \in 1..n /\ k <= n
  BY <1>1, <1>3
<1>11. far <= d[n]
  BY <1>9, <1>10
<1> QED
  BY Zenon, <1>2, <1>11 DEF arc

\* What is asked of a reference before it is certified.
MotionClear(r) ==
    r.bad = {} /\ OmegaViolations(r) = {} /\ ~(ReverseArc(r) > ReverseArcMax)

Passes(r) ==
    IF recipe = "recorded" THEN Moves(r) /\ OmegaViolations(r) = {}
    ELSE MotionClear(r) /\ (recipe \in Planned \/ ZeroLength(r) = {})

\* What has been certified was asked for.
VerdictInv ==
    /\ phase \in {"waypoints", "track", "resampled", "completed", "processed"}
         => ~verdict.feasible
    /\ verdict.feasible => recipe \notin Adapted /\ Passes(ref)

Sampled == {"entry", "guarded", "recorded", "planned"}

\* Where the points of a reference come from, and what that says of them.
MadeInv ==
    /\ recipe \in Sampled \cup Adapted \cup {"drawn", "scenario", "raw"}
    /\ phase \in {"waypoints", "track", "resampled", "completed", "processed",
                 "judged", "seeded", "followed"}
    /\ at # 0 => phase = "followed"
    /\ recipe = "raw" => /\ phase \in {"processed", "judged", "seeded", "followed"}
                         /\ ref \in RawReferences
    /\ recipe # "raw" => ref.arc = Arcs(ref.pt) /\ ref.bad = {}
    /\ recipe # "raw" => Meshed(ref.pt)
    /\ phase = "waypoints" => recipe \in Sampled
    /\ recipe \in Adapted \cup {"scenario"} => Apart(ref.pt)
    /\ recipe = "drawn" => Stepwise(ref.pt)
    /\ recipe \in Sampled /\ phase # "waypoints" /\ Moves(ref) => Stepwise(ref.pt)

LEMMA OfferedMeshed ==
  /\ \A pt \in WaypointLists \cup Tracks : Meshed(pt)
  /\ \A pt \in Tracks : Apart(pt)
BY MeshAssumption DEF Meshed, OnMesh, Apart

LEMMA WaypointsMade ==
  ASSUME NEW pt \in Routes
  PROVE  /\ Waypoints(pt).pt = pt /\ Waypoints(pt).arc = Arcs(pt)
         /\ Waypoints(pt).bad = {}
BY WaypointsType DEF Waypoints

\* Points one step apart do not coincide.
LEMMA StepwiseApart ==
  ASSUME NEW pt, Stepwise(pt)
  PROVE  Apart(pt)
BY DEF Stepwise, OneStep, Apart

LEMMA StepwiseMeshed ==
  ASSUME NEW pt, Stepwise(pt)
  PROVE  Meshed(pt)
BY DEF Stepwise, OneStep, Meshed

LEMMA MadeInvInit ==
  TrackInit => MadeInv
PROOF
<1> SUFFICES ASSUME TrackInit
             PROVE  MadeInv
  OBVIOUS
<1>0. at = 0
  BY DEF TrackInit
<1>1. CASE FromWaypoints
  <2>1. PICK pt \in WaypointLists : ref = Waypoints(pt)
    BY <1>1 DEF FromWaypoints
  <2>2. recipe \in Sampled /\ phase = "waypoints"
    BY <1>1 DEF FromWaypoints, Sampled
  <2>3. /\ ref.arc = Arcs(ref.pt) /\ ref.bad = {} /\ Meshed(ref.pt)
    BY <2>1, OfferedRoutes, OfferedMeshed, WaypointsMade
  <2> QED
    BY <1>0, <2>2, <2>3 DEF MadeInv, Sampled, Adapted
<1>2. CASE FromRows
  <2>1. PICK size \in Serpentines : ref = Waypoints(Serpentine(size[1], size[2]))
    BY <1>2 DEF FromRows
  <2>2. size[1] \in Nat \ {0} /\ size[2] \in Nat \ {0} /\ size[2] % Ds = 0
    BY PathsAssumption, ReferenceAssumption
  <2>3. /\ Serpentine(size[1], size[2]) \in Routes
        /\ Stepwise(Serpentine(size[1], size[2]))
    BY <2>2, SerpentineType
  <2>4. recipe = "drawn" /\ phase = "resampled"
    BY <1>2 DEF FromRows
  <2>5. /\ ref.arc = Arcs(ref.pt) /\ ref.bad = {} /\ Stepwise(ref.pt) /\ Meshed(ref.pt)
    BY <2>1, <2>3, WaypointsMade, StepwiseMeshed
  <2> QED
    BY <1>0, <2>4, <2>5 DEF MadeInv, Sampled, Adapted
<1>3. CASE FromScenario \/ FromTrack
  <2>1. PICK pt \in Tracks : ref = Waypoints(pt)
    BY <1>3 DEF FromScenario, FromTrack
  <2>2. /\ recipe \in {"scenario", "plan", "served"}
        /\ phase \in {"resampled", "track"}
    BY <1>3 DEF FromScenario, FromTrack
  <2>3. /\ ref.arc = Arcs(ref.pt) /\ ref.bad = {}
        /\ Meshed(ref.pt) /\ Apart(ref.pt)
    BY <2>1, OfferedRoutes, OfferedMeshed, WaypointsMade
  <2> QED
    BY <1>0, <2>2, <2>3 DEF MadeInv, Sampled, Adapted
<1>4. CASE FromElsewhere
  BY <1>0, <1>4 DEF FromElsewhere, MadeInv, Sampled, Adapted
<1> QED
  BY <1>1, <1>2, <1>3, <1>4 DEF TrackInit, RefInit

LEMMA MadeInvNext ==
  RefTypeInv /\ EntryInv /\ MadeInv /\ VerdictInv /\ [TrackNext]_<<refVars, trackVars>>
     => MadeInv'
PROOF
<1> SUFFICES ASSUME RefTypeInv, EntryInv, MadeInv, VerdictInv,
                    [TrackNext]_<<refVars, trackVars>>
             PROVE  MadeInv'
  OBVIOUS
<1>0. ref \in References /\ ref.pt \in Routes
  BY Parts DEF RefTypeInv
<1> USE DEF Sampled, Adapted
<1>1. CASE Resample /\ UNCHANGED trackVars
  <2> DEFINE pt == Resampled(ref.pt)
  <2>1. recipe \in Sampled /\ Meshed(ref.pt) /\ ref.arc = Arcs(ref.pt)
    BY <1>1 DEF Resample, MadeInv
  <2>2. pt \in Routes
    BY <1>0, ResampledType
  <2>3. ref'.pt = pt /\ ref'.arc = Arcs(pt) /\ ref'.bad = {}
    <3> HIDE DEF pt
    <3>1. ref' = Waypoints(pt)
      BY <1>1 DEF Resample, pt
    <3> QED
      BY <2>2, <3>1, WaypointsMade
  <2> HIDE DEF pt
  <2>4. (Moves(ref)' => Stepwise(pt)) /\ Meshed(pt)
    <3> DEFINE total == Arcs(ref.pt)[Len(ref.pt)]
    <3>1. total \in Nat
      <4>1. Len(ref.pt) \in Nat \ {0} /\ ref.pt \in [1..Len(ref.pt) -> Points]
        BY <1>0, RouteType
      <4>2. Arcs(ref.pt) \in [1..Len(ref.pt) -> Nat]
        BY <4>1, ArcSteps
      <4> QED
        BY <4>1, <4>2
    <3>2. CASE total = 0
      <4>1. pt = ref.pt
        BY Zenon, <3>2 DEF Resampled, pt
      <4>2. ~(Arcs(pt)[Len(pt)] > 0)
        BY <3>2, <4>1
      <4> QED
        BY <2>1, <2>3, <4>1, <4>2 DEF Moves
    <3>3. CASE total # 0
      <4>1. Arcs(ref.pt)[Len(ref.pt)] > 0
        BY <3>1, <3>3
      <4> QED
        BY <1>0, <2>1, <4>1, ResampledStepwise, StepwiseMeshed DEF pt
    <3> QED
      BY <3>2, <3>3
  <2>5. recipe' = recipe /\ phase' = "resampled" /\ at' = at /\ at = 0
    BY <1>1 DEF Resample, trackVars, MadeInv
  <2> QED
    BY <2>1, <2>3, <2>4, <2>5 DEF MadeInv
<1>2. CASE ServeTrack /\ UNCHANGED trackVars
  <2> DEFINE pt == Opened(ref.pt)
  <2>1. recipe = "served" /\ phase = "track" /\ recipe' = "served" /\ phase' = "resampled"
        /\ at' = 0
    BY <1>2 DEF ServeTrack, EntryInv, MadeInv, trackVars
  <2>2. pt \in Routes /\ Apart(pt) /\ Meshed(pt)
    BY <1>0, <2>1, OpenedType DEF MadeInv
  <2>3. ref'.pt = pt /\ ref'.arc = Arcs(pt) /\ ref'.bad = {}
    <3> HIDE DEF pt
    <3>1. ref' = Waypoints(pt)
      BY <1>2 DEF ServeTrack, pt
    <3> QED
      BY <2>2, <3>1, WaypointsMade
  <2> HIDE DEF pt
  <2> QED
    BY <2>1, <2>2, <2>3 DEF MadeInv
<1>3. CASE ServeFile /\ UNCHANGED trackVars
  <2>1. recipe = "recorded" /\ phase = "judged" /\ recipe' = "filed" /\ phase' = "resampled"
        /\ at' = 0
    BY <1>3 DEF ServeFile, MadeInv, trackVars
  <2>2. Moves(ref)
    <3>1. Passes(ref)
      BY Zenon, <1>3 DEF ServeFile, VerdictInv
    <3> QED
      BY <2>1, <3>1 DEF Passes
  <2>3. Apart(ref.pt)
    <3>1. Stepwise(ref.pt)
      BY <2>1, <2>2 DEF MadeInv
    <3> QED
      BY <3>1, StepwiseApart
  <2>4. ref'.pt = ref.pt /\ ref'.arc = Arcs(ref.pt) /\ ref'.bad = {}
    <3>1. ref' = Waypoints(ref.pt)
      BY <1>3 DEF ServeFile
    <3> QED
      BY <1>0, <3>1, WaypointsMade
  <2> QED
    BY <2>1, <2>3, <2>4 DEF MadeInv
\* The points stay where they are.
<1>4. ASSUME recipe' = recipe, ref'.pt = ref.pt, ref'.arc = ref.arc, ref'.bad = ref.bad,
             recipe # "raw", phase # "waypoints",
             phase' \in {"completed", "processed", "judged", "seeded", "followed"},
             at' # 0 => phase' = "followed"
      PROVE  MadeInv'
  <2>1. Moves(ref)' <=> Moves(ref)
    BY <1>4 DEF Moves
  <2> QED
    BY <1>4, <2>1 DEF MadeInv
<1>5. CASE Complete /\ UNCHANGED trackVars
  <2>1. ref'.pt = ref.pt /\ ref'.arc = ref.arc /\ ref'.bad = ref.bad
    <3> DEFINE heading == [i \in Indices(ref) |-> Heading(ref.pt, i)]
               turn == [i \in Indices(ref) |-> TurnAt(ref.pt, i)]
               energy == [i \in Indices(ref) |-> EnergyAt(ref.pt, i)]
    <3> HIDE DEF heading, turn, energy
    <3>1. ref' = [ref EXCEPT !.heading = heading, !.turn = turn, !.energy = energy]
      BY <1>5 DEF Complete, heading, turn, energy
    <3> QED
      BY <1>0, <3>1 DEF References
  <2>2. recipe' = recipe /\ phase = "resampled" /\ phase' \in {"completed", "processed"}
        /\ at' = 0 /\ recipe # "raw"
    BY <1>5 DEF Complete, MadeInv, trackVars
  <2> QED
    BY <1>4, <2>1, <2>2
<1>6. CASE Shape /\ UNCHANGED trackVars
  <2>1. ref'.pt = ref.pt /\ ref'.arc = ref.arc /\ ref'.bad = ref.bad
    <3> DEFINE energy == Braked(Ramped(ref.energy, ref.arc), ref.arc)
    <3> HIDE DEF energy
    <3>1. ref' = [ref EXCEPT !.energy = energy]
      BY <1>6 DEF Shape, energy
    <3> QED
      BY <1>0, <3>1 DEF References
  <2>2. recipe' = recipe /\ phase = "completed" /\ phase' = "processed"
        /\ at' = 0 /\ recipe # "raw"
    BY <1>6 DEF Shape, MadeInv, trackVars
  <2> QED
    BY <1>4, <2>1, <2>2
\* Nothing else touches the reference.
<1>7. ASSUME UNCHANGED <<recipe, ref>>, phase' \in {"judged", "seeded", "followed"},
             at' # 0 => phase' = "followed", phase # "waypoints"
      PROVE  MadeInv'
  <2>1. CASE recipe # "raw"
    BY <1>4, <1>7, <2>1
  <2>2. CASE recipe = "raw"
    BY <1>7, <2>2 DEF MadeInv
  <2> QED
    BY <2>1, <2>2
<1>8. CASE Judge /\ UNCHANGED trackVars
  <2>1. UNCHANGED <<recipe, ref>> /\ phase = "processed" /\ phase' = "judged" /\ at' = 0
    BY <1>8 DEF Judge, MadeInv, trackVars
  <2> QED
    BY <1>7, <2>1
<1>9. ASSUME NEW by \in {"guarded", "entry"}, Improve(by), UNCHANGED trackVars
      PROVE  MadeInv'
  <2>1. /\ recipe = "scenario" /\ phase = "judged" /\ recipe' \in {"guarded", "entry"}
        /\ phase' = "waypoints" /\ at' = 0
    BY <1>9 DEF Improve, MadeInv, trackVars
  <2>2. ref'.pt = ref.pt /\ ref'.arc = Arcs(ref.pt) /\ ref'.bad = {}
    <3>1. ref' = Waypoints(ref.pt)
      BY <1>9 DEF Improve
    <3> QED
      BY <1>0, <3>1, WaypointsMade
  <2>3. Meshed(ref.pt)
    BY <2>1 DEF MadeInv
  <2> QED
    BY <2>1, <2>2, <2>3 DEF MadeInv
<1>10. ASSUME NEW p \in SeedPoses, NEW heading \in SeedYaws, Seed(p, heading)
       PROVE  MadeInv'
  BY <1>7, <1>10 DEF Seed, HandedOver
<1>11. ASSUME NEW k \in Indices(ref), NEW offset \in Offsets, NEW slant \in Slants,
              Follow(k, offset, slant)
       PROVE  MadeInv'
  <2>1. phase # "waypoints"
    <3>1. CASE at = 0
      BY <1>11, <3>1 DEF Follow, HandedOver
    <3>2. CASE at # 0
      BY <3>2 DEF MadeInv
    <3> QED
      BY <3>1, <3>2
  <2>2. UNCHANGED <<recipe, ref>> /\ phase' = "followed"
    BY <1>11 DEF Follow
  <2> QED
    BY <1>7, <2>1, <2>2
<1>12. CASE UNCHANGED <<refVars, trackVars>>
  <2>1. UNCHANGED <<recipe, phase, ref, at>>
    BY <1>12 DEF refVars, trackVars
  <2>2. Moves(ref)' <=> Moves(ref)
    BY <2>1 DEF Moves
  <2> QED
    BY <2>1, <2>2 DEF MadeInv
<1> QED
  BY <1>1, <1>2, <1>3, <1>5, <1>6, <1>8, <1>9, <1>10, <1>11, <1>12
     DEF TrackNext, Prepare, RefNext

\* Once completed, no turn is taken too fast, and no sample is driven backwards
\* but the last one of a planned path.
Steady(r) ==
    \A i \in 1..Len(r.pt) :
        /\ Slow(r.turn[i], r.energy[i])
        /\ recipe \notin Planned \/ i < Len(r.pt) => r.energy[i] >= 0

TurnsInv ==
    phase \in {"completed", "processed", "judged", "seeded", "followed"}
      /\ recipe \notin {"raw", "scenario"} => Steady(ref)

LEMMA TurnsInvInit ==
  TrackInit => TurnsInv
BY DEF TrackInit, RefInit, FromWaypoints, FromRows, FromScenario, FromTrack,
       FromElsewhere, TurnsInv

LEMMA TurnsInvComplete ==
  RefTypeInv /\ Complete => TurnsInv'
PROOF
<1> SUFFICES ASSUME RefTypeInv, Complete, recipe \notin {"raw", "scenario"}
             PROVE  Steady(ref)'
  BY DEF TurnsInv, Complete
<1> DEFINE heading == [i \in Indices(ref) |-> Heading(ref.pt, i)]
           turn == [i \in Indices(ref) |-> TurnAt(ref.pt, i)]
           energy == [i \in Indices(ref) |-> EnergyAt(ref.pt, i)]
<1>1. ref \in References /\ ref.pt \in Routes
  BY Parts DEF RefTypeInv
<1>2. ASSUME NEW i \in 1..Len(ref.pt)
      PROVE  /\ Slow(turn[i], energy[i])
             /\ recipe \notin Planned \/ i < Len(ref.pt) => energy[i] >= 0
  <2>1. turn[i] = TurnAt(ref.pt, i) /\ energy[i] = EnergyAt(ref.pt, i)
    BY Zenon DEF Indices
  <2>2. /\ Slow(TurnAt(ref.pt, i), EnergyAt(ref.pt, i))
        /\ recipe \notin Planned \/ i < Len(ref.pt) => EnergyAt(ref.pt, i) >= 0
    BY <1>1, EnergySlow
  <2> QED
    BY Zenon, <2>1, <2>2
<1> HIDE DEF heading, turn, energy
<1>3. ref' = [ref EXCEPT !.heading = heading, !.turn = turn, !.energy = energy]
  BY DEF Complete, heading, turn, energy
<1>4. ref'.pt = ref.pt /\ ref'.turn = turn /\ ref'.energy = energy
  BY <1>1, <1>3 DEF References
<1>5. recipe' = recipe
  BY DEF Complete
<1> QED
  BY Zenon, <1>2, <1>4, <1>5 DEF Steady

LEMMA TurnsInvShape ==
  RefTypeInv /\ EntryInv /\ TurnsInv /\ Shape => TurnsInv'
PROOF
<1> SUFFICES ASSUME RefTypeInv, EntryInv, TurnsInv, Shape
             PROVE  Steady(ref)'
  BY DEF TurnsInv
<1> DEFINE n == Len(ref.pt)
           arc == ref.arc
           e == ref.energy
           energy == Braked(Ramped(e, arc), arc)
<1>1. /\ ref \in References /\ ref.pt \in Routes /\ n \in Nat \ {0}
      /\ arc \in [1..n -> Int] /\ e \in [1..n -> Int] /\ ref.turn \in [1..n -> Int]
  BY Parts, RouteType DEF RefTypeInv
<1>2. recipe = "entry" /\ phase = "completed" /\ recipe' = recipe
  BY DEF Shape, EntryInv
<1>3. \A i \in 1..n : Slow(ref.turn[i], e[i]) /\ e[i] >= 0
  <2>1. Steady(ref)
    BY <1>2 DEF TurnsInv
  <2>2. recipe \notin Planned
    BY <1>2 DEF Planned
  <2> QED
    BY Zenon, <2>1, <2>2 DEF Steady
<1>4. ref' = [ref EXCEPT !.energy = energy]
  BY DEF Shape
<1> HIDE DEF energy
<1>5. ref'.pt = ref.pt /\ ref'.turn = ref.turn /\ ref'.energy = energy
  BY <1>1, <1>4 DEF References
<1> HIDE DEF n, arc, e
<1>6. Len(arc) = n
  <2>1. arc \in Seq(Int) /\ DOMAIN arc = 1..n
    BY <1>1
  <2> QED
    BY <1>1, <2>1
<1>7. \A i \in 1..n : energy[i] >= 0 /\ energy[i] <= e[i]
  <2>1. \A i \in 1..n : e[i] >= 0
    BY <1>3
  <2> QED
    BY <1>1, <1>6, <2>1, ShapingLowers DEF energy
<1>8. energy \in [1..n -> Int]
  <2>1. Ramped(e, arc) \in [1..n -> Int]
    BY <1>1, <1>6, RampedSteps
  <2> QED
    BY <1>1, <1>6, <2>1, BrakedSteps DEF energy
<1>9. ASSUME NEW i \in 1..n
      PROVE  Slow(ref.turn[i], energy[i]) /\ energy[i] >= 0
  <2> DEFINE x == e[i]
             y == energy[i]
             t == ref.turn[i]
  <2>1. x \in Int /\ y \in Int /\ t \in Int
    BY <1>1, <1>8
  <2>2. Slow(t, x) /\ x >= 0 /\ y >= 0 /\ y <= x
    BY <1>3, <1>7
  <2> HIDE DEF x, y, t
  <2>3. x \in Nat /\ y \in Nat
    BY <2>1, <2>2
  <2>4. Slow(t, y)
    BY <2>1, <2>2, <2>3, SlowerYet
  <2> QED
    BY <2>2, <2>4 DEF y, t
<1> QED
  BY Zenon, <1>5, <1>9 DEF Steady, n

LEMMA TurnsInvNext ==
  RefTypeInv /\ EntryInv /\ MadeInv /\ TurnsInv /\ [TrackNext]_<<refVars, trackVars>>
     => TurnsInv'
PROOF
<1> SUFFICES ASSUME RefTypeInv, EntryInv, MadeInv, TurnsInv,
                    [TrackNext]_<<refVars, trackVars>>
             PROVE  TurnsInv'
  OBVIOUS
<1>1. CASE Resample \/ ServeTrack \/ ServeFile
  BY <1>1 DEF Resample, ServeTrack, ServeFile, TurnsInv
<1>2. CASE Complete
  BY <1>2, TurnsInvComplete
<1>3. CASE Shape
  BY <1>3, TurnsInvShape
<1>4. ASSUME NEW by \in {"guarded", "entry"}, Improve(by)
      PROVE  TurnsInv'
  BY <1>4 DEF Improve, TurnsInv
\* Nothing else touches the reference.
<1>5. ASSUME UNCHANGED <<recipe, ref>>,
             phase \in {"completed", "processed", "judged", "seeded", "followed"}
      PROVE  TurnsInv'
  BY <1>5 DEF TurnsInv, Steady
<1>6. CASE Judge
  BY <1>5, <1>6 DEF Judge
<1>7. ASSUME NEW p \in SeedPoses, NEW heading \in SeedYaws, Seed(p, heading)
      PROVE  TurnsInv'
  BY <1>5, <1>7 DEF Seed, HandedOver
<1>8. ASSUME NEW k \in Indices(ref), NEW offset \in Offsets, NEW slant \in Slants,
             Follow(k, offset, slant)
      PROVE  TurnsInv'
  BY <1>5, <1>8 DEF Follow, HandedOver, MadeInv
<1>9. CASE UNCHANGED <<refVars, trackVars>>
  BY <1>9 DEF refVars, TurnsInv, Steady
<1> QED
  BY <1>1, <1>2, <1>3, <1>4, <1>6, <1>7, <1>8, <1>9 DEF TrackNext, Prepare, RefNext

LEMMA MotionCodesClear ==
  ASSUME NEW r
  PROVE  /\ MotionCodes(r) = {} <=> MotionClear(r)
         /\ PathCodes(r) = {} <=> ZeroLength(r) = {}
PROOF
<1>1. /\ "nonfinite" \in MotionCodes(r) <=> r.bad # {}
      /\ "omega_bound" \in MotionCodes(r) <=> OmegaViolations(r) # {}
      /\ "sustained_reverse" \in MotionCodes(r) <=> ReverseArc(r) > ReverseArcMax
      /\ MotionCodes(r) \subseteq {"nonfinite", "omega_bound", "sustained_reverse"}
  BY DEF MotionCodes
<1>2. MotionCodes(r) = {} <=> MotionClear(r)
  BY Zenon, <1>1 DEF MotionClear
<1>3. /\ "zero_length_segment" \in PathCodes(r) <=> ZeroLength(r) # {}
      /\ "inplace_rotation" \in PathCodes(r) => ZeroLength(r) # {}
      /\ PathCodes(r) \subseteq {"zero_length_segment", "inplace_rotation"}
  BY DEF PathCodes
<1>4. PathCodes(r) = {} <=> ZeroLength(r) = {}
  BY Zenon, <1>3
<1> QED
  BY <1>2, <1>4

\* The guard lets a reference pass when it passes.
LEMMA JudgedClear ==
  Judge => (verdict'.feasible <=> Passes(ref))
PROOF
<1> SUFFICES ASSUME Judge
             PROVE  verdict'.feasible <=> Passes(ref)
  OBVIOUS
<1>1. \A x, y : [feasible |-> x, codes |-> y].feasible = x
  OBVIOUS
<1>2. CASE recipe = "recorded"
  <2>1. verdict' = Guarded(ref)
    BY Zenon, <1>2 DEF Judge
  <2>2. verdict'.feasible <=> Moves(ref) /\ OmegaViolations(ref) = {}
    BY Zenon, <1>1, <2>1 DEF Guarded, Moves
  <2> QED
    BY Zenon, <1>2, <2>2 DEF Passes
<1>3. CASE recipe # "recorded" /\ recipe \in Planned
  <2>1. verdict' = Emitted(ref)
    BY Zenon, <1>3 DEF Judge
  <2>2. verdict'.feasible <=> MotionCodes(ref) = {}
    BY Zenon, <1>1, <2>1 DEF Emitted
  <2> QED
    BY Zenon, <1>3, <2>2, MotionCodesClear DEF Passes
<1>4. CASE recipe # "recorded" /\ recipe \notin Planned
  <2> DEFINE c == Certified(ref)
             codes == PathCodes(ref) \cup MotionCodes(ref)
             more == [c EXCEPT !.codes = @ \cup ProfileCodes(ref)]
  <2>1. verdict' = more \/ verdict' = c
    BY Zenon, <1>4 DEF Judge
  <2>2. c = [feasible |-> codes = {}, codes |-> codes]
    BY DEF Certified
  <2>3. more.feasible = c.feasible
    BY <2>2
  <2> HIDE DEF more
  <2>4. c.feasible <=> codes = {}
    BY Zenon, <1>1, <2>2
  <2>5. codes = {} <=> PathCodes(ref) = {} /\ MotionCodes(ref) = {}
    BY Zenon
  <2> HIDE DEF c, codes
  <2>6. verdict'.feasible <=> PathCodes(ref) = {} /\ MotionCodes(ref) = {}
    BY Zenon, <2>1, <2>3, <2>4, <2>5
  <2> QED
    BY Zenon, <1>4, <2>6, MotionCodesClear DEF Passes
<1> QED
  BY <1>2, <1>3, <1>4

LEMMA VerdictInvInit ==
  TrackInit => VerdictInv
PROOF
<1> SUFFICES ASSUME TrackInit
             PROVE  VerdictInv
  OBVIOUS
<1>1. verdict = NotJudged
  BY DEF TrackInit, RefInit
<1>2. ~NotJudged.feasible
  BY DEF NotJudged
<1> QED
  BY Zenon, <1>1, <1>2 DEF VerdictInv

LEMMA VerdictInvNext ==
  VerdictInv /\ [TrackNext]_<<refVars, trackVars>> => VerdictInv'
PROOF
<1> SUFFICES ASSUME VerdictInv, [TrackNext]_<<refVars, trackVars>>
             PROVE  VerdictInv'
  OBVIOUS
<1>1. ~NotJudged.feasible
  BY DEF NotJudged
<1>2. ASSUME verdict' = NotJudged
      PROVE  VerdictInv'
  BY Zenon, <1>1, <1>2 DEF VerdictInv
<1>3. ASSUME phase \in {"waypoints", "track", "resampled", "completed", "processed"},
             verdict' = verdict
      PROVE  VerdictInv'
  BY Zenon, <1>3 DEF VerdictInv
<1>4. CASE Resample
  BY <1>3, <1>4 DEF Resample
<1>5. CASE ServeTrack
  BY <1>3, <1>5 DEF ServeTrack
<1>6. CASE ServeFile
  BY <1>2, <1>6 DEF ServeFile
<1>7. CASE Complete
  BY <1>3, <1>7 DEF Complete
<1>8. CASE Shape
  BY <1>3, <1>8 DEF Shape
<1>9. ASSUME UNCHANGED <<recipe, ref>>
      PROVE  Passes(ref)' <=> Passes(ref)
  BY <1>9 DEF Passes, MotionClear, OmegaViolations, ReverseArc, ZeroLength, Moves,
              Sound, Indices, SegmentsOf, Degenerate
<1>10. CASE Judge
  <2>1. UNCHANGED <<recipe, ref>> /\ phase' = "judged" /\ recipe \notin Adapted
    BY Zenon, <1>10 DEF Judge
  <2>2. verdict'.feasible <=> Passes(ref)'
    BY Zenon, <1>9, <1>10, <2>1, JudgedClear
  <2>3. phase' \notin {"waypoints", "track", "resampled", "completed", "processed"}
    BY <2>1
  <2> QED
    BY Zenon, <2>1, <2>2, <2>3 DEF VerdictInv
<1>11. ASSUME NEW by \in {"guarded", "entry"}, Improve(by)
       PROVE  VerdictInv'
  BY <1>2, <1>11 DEF Improve
<1>12. ASSUME UNCHANGED <<recipe, ref, verdict>>, phase' \in {"seeded", "followed"}
       PROVE  VerdictInv'
  <2>1. phase' \notin {"waypoints", "track", "resampled", "completed", "processed"}
    BY <1>12
  <2> QED
    BY Zenon, <1>9, <1>12, <2>1 DEF VerdictInv
<1>13. ASSUME NEW p \in SeedPoses, NEW heading \in SeedYaws, Seed(p, heading)
       PROVE  VerdictInv'
  BY <1>12, <1>13 DEF Seed
<1>14. ASSUME NEW k \in Indices(ref), NEW offset \in Offsets, NEW slant \in Slants,
              Follow(k, offset, slant)
       PROVE  VerdictInv'
  BY <1>12, <1>14 DEF Follow
<1>15. CASE UNCHANGED <<refVars, trackVars>>
  <2>1. UNCHANGED <<recipe, phase, ref, verdict>>
    BY <1>15 DEF refVars
  <2> QED
    BY Zenon, <1>9, <2>1 DEF VerdictInv
<1> QED
  BY <1>4, <1>5, <1>6, <1>7, <1>8, <1>10, <1>11, <1>13, <1>14, <1>15
     DEF TrackNext, Prepare, RefNext

\* Whatever the recipe, the points of a reference are those its arcs belong to,
\* no two neighbours coincide once it has been sampled, and it drives no turn
\* faster than allowed; what the guard lets pass is what it asks for.
PreparedInv == MadeInv /\ TurnsInv /\ VerdictInv

THEOREM PreparedInvariance == TrackSpec => []PreparedInv
PROOF
<1>1. TrackInit => PreparedInv
  BY MadeInvInit, TurnsInvInit, VerdictInvInit DEF PreparedInv
<1>2. RefTypeInv /\ EntryInv /\ PreparedInv /\ [TrackNext]_<<refVars, trackVars>>
         => PreparedInv'
  BY MadeInvNext, TurnsInvNext, VerdictInvNext DEF PreparedInv
<1> QED
  BY <1>1, <1>2, ReferenceTypeInvariance, EntryInvariance, PTL DEF TrackSpec

\* The arcs of every reference never decrease.
LEMMA MadeForward ==
  ASSUME RefTypeInv, MadeInv
  PROVE  Forward(ref)
PROOF
<1> DEFINE n == Len(ref.pt)
<1>1. ref.pt \in Routes /\ n \in Nat \ {0} /\ ref.pt \in [1..n -> Points]
  BY Parts, RouteType DEF RefTypeInv
<1>2. CASE recipe = "raw"
  <2>1. ref \in RawReferences
    BY <1>2 DEF MadeInv
  <2>2. \A r \in RawReferences : \A i \in 1..(Len(r.pt) - 1) : r.arc[i] <= r.arc[i + 1]
    BY Zenon, PathsAssumption
  <2> QED
    BY Zenon, <2>1, <2>2 DEF Forward
<1>3. CASE recipe # "raw"
  <2> DEFINE arc == Arcs(ref.pt)
  <2>1. ref.arc = arc
    BY <1>3 DEF MadeInv
  <2>2. arc \in [1..n -> Nat] /\ ArcRule(n, ref.pt, arc)
    BY <1>1, ArcSteps
  <2> HIDE DEF arc
  <2>3. ASSUME NEW i \in 1..(n - 1)
        PROVE  arc[i] <= arc[i + 1]
    <3>1. i \in 1..n /\ i + 1 \in 1..n /\ i + 1 # 1 /\ (i + 1) - 1 = i
      BY <1>1
    <3>2. ref.pt[i] \in Points /\ ref.pt[i + 1] \in Points
      BY <1>1, <3>1
    <3>3. Chord(ref.pt[i], ref.pt[i + 1]) \in Nat
      BY <3>2, ChordType
    <3>4. arc[i + 1] = arc[i] + Chord(ref.pt[i], ref.pt[i + 1])
      BY Zenon, <2>2, <3>1 DEF ArcRule
    <3>5. arc[i] \in Int
      BY <2>2, <3>1
    <3> QED
      BY <3>3, <3>4, <3>5
  <2> QED
    BY Zenon, <2>1, <2>3 DEF Forward
<1> QED
  BY <1>2, <1>3

\* What the code calls drivable.
Drivable(r) ==
    /\ r.bad = {}
    /\ \A i \in SegmentsOf(r) : r.pt[i] # r.pt[i + 1]
    /\ \A i \in Indices(r) :
          Square(r.turn[i]) * Size(r.energy[i]) <= Square(OmegaMax)
    /\ \A i, k \in Indices(r) :
          i <= k /\ (\A l \in i..k : r.energy[l] < 0)
             => r.arc[k] - r.arc[i] <= ReverseArcMax

\* No violation of the turn rate is none.
LEMMA NoViolation ==
  ASSUME NEW r, r \in References, Fits(r), r.bad = {}, OmegaViolations(r) = {}
  PROVE  \A i \in Indices(r) : Slow(r.turn[i], r.energy[i])
PROOF
<1> SUFFICES ASSUME NEW i \in Indices(r)
             PROVE  Slow(r.turn[i], r.energy[i])
  OBVIOUS
<1> DEFINE t == Square(r.turn[i])
           e == Size(r.energy[i])
           limit == Square(OmegaMax)
<1>1. r.turn \in [1..Len(r.pt) -> Int] /\ r.energy \in [1..Len(r.pt) -> Int]
  BY Parts
<1>2. r.turn[i] \in Int /\ r.energy[i] \in Int
  BY <1>1 DEF Indices
<1>3. t \in Int /\ e \in Int
  <2>1. Square(r.turn[i]) \in Int
    BY <1>2 DEF Square
  <2>2. Size(r.energy[i]) \in Int
    BY <1>2, SizeType
  <2> QED
    BY <2>1, <2>2
<1>4. limit \in Int
  BY ReferenceAssumption DEF Square
<1>5. ~(t * e > limit)
  <2>1. i \in Sound(r)
    BY DEF Sound
  <2> QED
    BY <2>1 DEF OmegaViolations
<1> HIDE DEF t, e, limit
<1>6. t * e <= limit
  <2>1. t * e \in Int
    BY <1>3
  <2> QED
    BY <1>4, <1>5, <2>1
<1> QED
  BY <1>6 DEF Slow, t, e, limit

\* Where no sample is driven backwards, no stretch is.
LEMMA NothingBackwards ==
  ASSUME NEW r, r \in References, Fits(r), \A i \in 1..Len(r.pt) : r.energy[i] >= 0
  PROVE  \A i, k \in Indices(r) : ~(i <= k /\ (\A l \in i..k : r.energy[l] < 0))
PROOF
<1> SUFFICES ASSUME NEW i \in Indices(r), NEW k \in Indices(r), i <= k,
                    \A l \in i..k : r.energy[l] < 0
             PROVE  FALSE
  OBVIOUS
<1>1. r.energy \in [1..Len(r.pt) -> Int] /\ Len(r.pt) \in Nat
  BY Parts, RouteType
<1>2. i \in i..k /\ i \in 1..Len(r.pt)
  BY <1>1 DEF Indices
<1>3. r.energy[i] < 0 /\ r.energy[i] >= 0
  BY Zenon, <1>2
<1>4. r.energy[i] \in Int
  BY <1>1, <1>2
<1> QED
  BY <1>3, <1>4

LEMMA PreparedDrivable ==
  RefTypeInv /\ PreparedInv => CertifiedIsDrivable
PROOF
<1> SUFFICES ASSUME RefTypeInv, PreparedInv,
                    \/ verdict.feasible /\ (recipe \in Planned => Moves(ref))
                    \/ recipe \in Adapted /\ phase = "processed"
             PROVE  Drivable(ref)
  BY Zenon DEF CertifiedIsDrivable, Drivable
<1>0. MadeInv /\ TurnsInv /\ VerdictInv
  BY DEF PreparedInv
<1>1. ref \in References /\ Fits(ref)
  BY DEF RefTypeInv
<1>2. Apart(ref.pt) => \A i \in SegmentsOf(ref) : ref.pt[i] # ref.pt[i + 1]
  BY DEF Apart, SegmentsOf
<1>3. (\A i \in Indices(ref) : Slow(ref.turn[i], ref.energy[i]))
        => \A i \in Indices(ref) :
              Square(ref.turn[i]) * Size(ref.energy[i]) <= Square(OmegaMax)
  BY DEF Slow
<1>4. ASSUME Steady(ref), recipe \notin Planned
      PROVE  /\ \A i \in Indices(ref) : Slow(ref.turn[i], ref.energy[i])
             /\ \A i, k \in Indices(ref) :
                   ~(i <= k /\ (\A l \in i..k : ref.energy[l] < 0))
  <2>1. /\ \A i \in 1..Len(ref.pt) : Slow(ref.turn[i], ref.energy[i])
        /\ \A i \in 1..Len(ref.pt) : ref.energy[i] >= 0
    BY Zenon, <1>4 DEF Steady
  <2> QED
    BY <1>1, <2>1, NothingBackwards DEF Indices
<1>5. CASE recipe \in Adapted /\ phase = "processed"
  <2>1. recipe \notin Planned /\ recipe \notin {"raw", "scenario"}
    BY <1>5 DEF Adapted, Planned
  <2>2. ref.bad = {} /\ Apart(ref.pt)
    BY <1>0, <1>5, <2>1 DEF MadeInv
  <2>3. Steady(ref)
    BY <1>0, <1>5, <2>1 DEF TurnsInv
  <2> QED
    BY Zenon, <1>2, <1>3, <1>4, <2>1, <2>2, <2>3 DEF Drivable
<1>6. CASE verdict.feasible /\ (recipe \in Planned => Moves(ref))
  <2>1. Passes(ref) /\ recipe \notin Adapted
    BY Zenon, <1>0, <1>6 DEF VerdictInv
  <2>2. phase \notin {"waypoints", "track", "resampled", "completed", "processed"}
    BY Zenon, <1>0, <1>6 DEF VerdictInv
  <2>3. OmegaViolations(ref) = {}
    BY Zenon, <2>1 DEF Passes, MotionClear
  <2>4. CASE recipe = "recorded"
    <3>1. ref.bad = {} /\ Moves(ref) /\ phase # "waypoints" /\ recipe \notin Planned
      BY <1>0, <2>1, <2>2, <2>4 DEF MadeInv, Passes, Planned
    <3>2. Apart(ref.pt)
      <4>1. Stepwise(ref.pt)
        BY <1>0, <2>4, <3>1 DEF MadeInv, Sampled
      <4> QED
        BY <4>1, StepwiseApart
    <3>3. phase \in {"judged", "seeded", "followed"}
      BY <1>0, <2>2, <2>4 DEF MadeInv
    <3>4. Steady(ref)
      BY <1>0, <2>4, <3>3 DEF TurnsInv
    <3> QED
      BY Zenon, <1>2, <1>3, <1>4, <3>1, <3>2, <3>4 DEF Drivable
  <2>5. CASE recipe # "recorded"
    <3>1. ref.bad = {} /\ ~(ReverseArc(ref) > ReverseArcMax)
          /\ (recipe \in Planned \/ ZeroLength(ref) = {})
      BY Zenon, <2>1, <2>5 DEF Passes, MotionClear
    <3>2. \A i \in SegmentsOf(ref) : ref.pt[i] # ref.pt[i + 1]
      <4>1. CASE recipe \in Planned
        <5>1. Stepwise(ref.pt)
          BY <1>0, <1>6, <2>2, <4>1 DEF MadeInv, Sampled, Planned
        <5> QED
          BY <1>2, <5>1, StepwiseApart
      <4>2. CASE ZeroLength(ref) = {}
        BY <4>2 DEF ZeroLength, Degenerate
      <4> QED
        BY <3>1, <4>1, <4>2
    <3>3. \A i \in Indices(ref) : Slow(ref.turn[i], ref.energy[i])
      BY <1>1, <2>3, <3>1, NoViolation
    <3>4. ASSUME NEW i \in Indices(ref), NEW k \in Indices(ref), i <= k,
                 \A l \in i..k : ref.energy[l] < 0
          PROVE  ref.arc[k] - ref.arc[i] <= ReverseArcMax
      <4>1. Forward(ref)
        BY <1>0, MadeForward
      <4>2. i \in 1..Len(ref.pt) /\ k \in 1..Len(ref.pt)
        BY DEF Indices
      <4>3. ref.arc[k] - ref.arc[i] <= ReverseArc(ref)
        BY <1>1, <3>1, <3>4, <4>1, <4>2, StretchBound
      <4>4. ReverseArc(ref) \in Int
        <5>1. PICK d \in [1..Len(ref.pt) -> Int] : ReverseArc(ref) = d[Len(ref.pt)]
          BY <1>1, ReverseSteps
        <5>2. Len(ref.pt) \in 1..Len(ref.pt)
          BY <1>1, Parts, RouteType
        <5> QED
          BY <5>1, <5>2
      <4>5. ref.arc[k] \in Int /\ ref.arc[i] \in Int
        <5>1. ref.arc \in [1..Len(ref.pt) -> Int]
          BY <1>1, Parts
        <5> QED
          BY <4>2, <5>1
      <4>6. ReverseArcMax \in Int
        BY ReferenceAssumption
      <4>7. ~(ReverseArc(ref) > ReverseArcMax)
        BY <3>1
      <4> DEFINE x == ReverseArc(ref)
                 y == ref.arc[k] - ref.arc[i]
      <4>8. y \in Int
        BY <4>5
      <4> HIDE DEF x, y
      <4>9. x \in Int /\ y <= x /\ ~(x > ReverseArcMax)
        BY <4>3, <4>4, <4>7 DEF x, y
      <4>10. y <= ReverseArcMax
        BY <4>6, <4>8, <4>9
      <4> QED
        BY <4>10 DEF y
    <3> QED
      BY Zenon, <1>3, <3>1, <3>2, <3>3, <3>4 DEF Drivable
  <2> QED
    BY <2>4, <2>5
<1> QED
  BY <1>5, <1>6

\* CertifiedIsDrivable: whatever path was offered, with whatever limits, what
\* certify_reference, build_trajectory and real_plan_traj let pass, and what
\* adaptPath makes, is finite, nowhere stands still, turns nowhere faster than
\* allowed in either direction, and drives no stretch backwards that is longer
\* than allowed.
THEOREM DrivableSound == TrackSpec => []CertifiedIsDrivable
PROOF
<1> QED
  BY ReferenceTypeInvariance, PreparedInvariance, PreparedDrivable, PTL

\* The arcs of a path that nowhere stands still grow.
LEMMA ApartArcs ==
  ASSUME NEW pt \in Routes, Apart(pt), NEW k \in 1..Len(pt), k + 1 \in 1..Len(pt)
  PROVE  Arcs(pt)[k] < Arcs(pt)[k + 1]
PROOF
<1> DEFINE n == Len(pt)
           arc == Arcs(pt)
<1>1. n \in Nat \ {0} /\ pt \in [1..n -> Points]
  BY RouteType
<1>2. arc \in [1..n -> Nat] /\ ArcRule(n, pt, arc)
  BY <1>1, ArcSteps
<1>3. pt[k] # pt[k + 1]
  <2>1. k \in 1..(n - 1)
    BY <1>1
  <2> QED
    BY <2>1 DEF Apart
<1>4. pt[k] \in Points /\ pt[k + 1] \in Points /\ arc[k] \in Nat
  BY <1>1, <1>2
<1>5. Chord(pt[k], pt[k + 1]) \in Nat /\ Chord(pt[k], pt[k + 1]) > 0
  BY <1>3, <1>4, ChordType
<1>6. k + 1 # 1 /\ (k + 1) - 1 = k
  OBVIOUS
<1> HIDE DEF arc, n
<1>7. arc[k + 1] = arc[k] + Chord(pt[k], pt[k + 1])
  BY Zenon, <1>2, <1>6 DEF ArcRule, n
<1>8. arc[k] < arc[k + 1]
  BY <1>4, <1>5, <1>7
<1> QED
  BY <1>8 DEF arc

\* The fastest profile gains and sheds no more than allowed from any sample to
\* the next, and ends no faster than asked.
LEMMA ShapedProfile ==
  ASSUME NEW n \in Nat \ {0}, NEW e \in [1..n -> Int], NEW arc \in [1..n -> Int],
         Len(arc) = n,
         \A i \in 1..n : i + 1 \in 1..n => arc[i] < arc[i + 1]
  PROVE  LET b == Braked(Ramped(e, arc), arc) IN
         /\ b \in [1..n -> Int]
         /\ b[n] <= Square(VEnd)
         /\ \A i \in 1..n : i + 1 \in 1..n =>
               /\ b[i + 1] - b[i] <= Ramp * (arc[i + 1] - arc[i])
               /\ b[i] - b[i + 1] <= Brake * (arc[i + 1] - arc[i])
PROOF
<1> DEFINE b == Braked(Ramped(e, arc), arc)
           cap == Ended(e, n)
<1>1. /\ b \in [1..n -> Int] /\ cap \in [1..n -> Int]
      /\ \A i, k \in 1..n : b[i] <= cap[k] + Slack(arc, k, i)
      /\ \A i \in 1..n : \E k \in 1..n : b[i] = cap[k] + Slack(arc, k, i)
  BY PassesAreGreatest
<1>2. Ramp \in Nat /\ Brake \in Nat /\ Square(VEnd) \in Int
  BY ShapingConstants DEF Square
<1>3. n \in 1..n
  OBVIOUS
<1>4. cap[n] <= Square(VEnd)
  <2>1. cap[n] = Least(e[n], Square(VEnd)) /\ e[n] \in Int
    BY DEF Ended
  <2> HIDE DEF cap
  <2> QED
    BY <1>2, <2>1 DEF Least
<1> HIDE DEF b, cap
<1>5. b[n] <= Square(VEnd)
  <2>1. b[n] <= cap[n] + Slack(arc, n, n)
    BY Zenon, <1>1, <1>3
  <2>2. Slack(arc, n, n) = 0
    <3>1. arc[n] \in Int /\ n <= n
      OBVIOUS
    <3>2. Ramp * (arc[n] - arc[n]) = 0
      BY <1>2, <3>1
    <3> QED
      BY Zenon, <3>1, <3>2 DEF Slack
  <2>3. b[n] \in Int /\ cap[n] \in Int
    BY <1>1, <1>3
  <2> QED
    BY <1>2, <1>4, <2>1, <2>2, <2>3
<1>6. ASSUME NEW i \in 1..n, NEW k \in 1..n
      PROVE  Slack(arc, k, i) \in Int
  <2>1. arc[i] \in Int /\ arc[k] \in Int
    OBVIOUS
  <2> QED
    BY <1>2, <2>1 DEF Slack
<1>7. ASSUME NEW i \in 1..n, i + 1 \in 1..n, NEW k \in 1..n
      PROVE  /\ Slack(arc, k, i + 1) - Slack(arc, k, i) <= Ramp * (arc[i + 1] - arc[i])
             /\ Slack(arc, k, i) - Slack(arc, k, i + 1) <= Brake * (arc[i + 1] - arc[i])
  <2> DEFINE x == arc[i]
             y == arc[i + 1]
             z == arc[k]
             up == Ramp * (y - x)
             down == Brake * (y - x)
  <2>1. x \in Int /\ y \in Int /\ z \in Int /\ x < y /\ k \in Int /\ i \in Int
    BY <1>7
  <2>2. up \in Nat /\ down \in Nat
    <3>1. y - x \in Nat
      BY <2>1
    <3> HIDE DEF x, y
    <3> QED
      BY <1>2, <3>1
  <2>3. CASE k <= i
    <3>1. k <= i + 1
      BY <2>1, <2>3
    <3>2. Slack(arc, k, i) = Ramp * (x - z) /\ Slack(arc, k, i + 1) = Ramp * (y - z)
      BY Zenon, <2>3, <3>1 DEF Slack
    <3> HIDE DEF x, y, z
    <3>3. Ramp * (y - z) - Ramp * (x - z) = up
      BY <1>2, <2>1
    <3>4. Ramp * (y - z) \in Int /\ Ramp * (x - z) \in Int
      BY <1>2, <2>1
    <3> DEFINE p == Ramp * (y - z)
               q == Ramp * (x - z)
    <3> HIDE DEF up, down, p, q
    <3>5. p - q <= up /\ q - p <= down
      BY <2>2, <3>3, <3>4 DEF p, q
    <3> QED
      BY <3>2, <3>5 DEF p, q, up, down, x, y
  <2>4. CASE ~(k <= i)
    <3>1. Slack(arc, k, i) = Brake * (z - x)
      BY Zenon, <2>4 DEF Slack
    <3>2. Slack(arc, k, i + 1) = Brake * (z - y)
      <4>1. CASE k = i + 1
        <5>1. k <= i + 1 /\ z = y
          BY <2>1, <4>1
        <5>2. Slack(arc, k, i + 1) = Ramp * (y - z)
          BY Zenon, <5>1 DEF Slack
        <5> HIDE DEF y, z
        <5>3. Ramp * (y - z) = 0 /\ Brake * (z - y) = 0
          BY <1>2, <2>1, <5>1
        <5> QED
          BY <5>2, <5>3
      <4>2. CASE k # i + 1
        <5>1. ~(k <= i + 1)
          BY <2>1, <2>4, <4>2
        <5> QED
          BY Zenon, <5>1 DEF Slack
      <4> QED
        BY <4>1, <4>2
    <3> HIDE DEF x, y, z
    <3>3. Brake * (z - x) - Brake * (z - y) = down
      BY <1>2, <2>1
    <3>4. Brake * (z - x) \in Int /\ Brake * (z - y) \in Int
      BY <1>2, <2>1
    <3> DEFINE p == Brake * (z - y)
               q == Brake * (z - x)
    <3> HIDE DEF up, down, p, q
    <3>5. p - q <= up /\ q - p <= down
      BY <2>2, <3>3, <3>4 DEF p, q
    <3> QED
      BY <3>1, <3>2, <3>5 DEF p, q, up, down, x, y
  <2> QED
    BY <2>3, <2>4
<1>8. ASSUME NEW i \in 1..n, i + 1 \in 1..n
      PROVE  /\ b[i + 1] - b[i] <= Ramp * (arc[i + 1] - arc[i])
             /\ b[i] - b[i + 1] <= Brake * (arc[i + 1] - arc[i])
  <2> DEFINE up == Ramp * (arc[i + 1] - arc[i])
             down == Brake * (arc[i + 1] - arc[i])
  <2>1. up \in Int /\ down \in Int /\ b[i] \in Int /\ b[i + 1] \in Int
    <3>1. arc[i] \in Int /\ arc[i + 1] \in Int /\ b[i] \in Int /\ b[i + 1] \in Int
      BY <1>1, <1>8
    <3>2. \A x, y \in Int : Ramp * (y - x) \in Int /\ Brake * (y - x) \in Int
      BY <1>2
    <3> QED
      BY Zenon, <3>1, <3>2
  <2>2. b[i + 1] - b[i] <= up
    <3>1. PICK k \in 1..n : b[i] = cap[k] + Slack(arc, k, i)
      BY Zenon, <1>1
    <3>2. b[i + 1] <= cap[k] + Slack(arc, k, i + 1)
      BY Zenon, <1>1, <1>8
    <3> DEFINE s == Slack(arc, k, i)
               t == Slack(arc, k, i + 1)
    <3>3. t - s <= up
      BY <1>7, <1>8
    <3>4. s \in Int /\ t \in Int /\ cap[k] \in Int
      BY <1>1, <1>6, <1>8
    <3> DEFINE c == cap[k]
               x == b[i]
               y == b[i + 1]
    <3>5. x \in Int /\ y \in Int /\ c \in Int /\ s \in Int /\ t \in Int /\ up \in Int
      BY <2>1, <3>4
    <3>6. x = c + s /\ y <= c + t /\ t - s <= up
      BY Zenon, <3>1, <3>2, <3>3
    <3> HIDE DEF s, t, c, x, y, up
    <3>7. y - x <= up
      BY <3>5, <3>6
    <3> QED
      BY <3>7 DEF x, y, up
  <2>3. b[i] - b[i + 1] <= down
    <3>1. PICK k \in 1..n : b[i + 1] = cap[k] + Slack(arc, k, i + 1)
      BY Zenon, <1>1, <1>8
    <3>2. b[i] <= cap[k] + Slack(arc, k, i)
      BY Zenon, <1>1, <1>8
    <3> DEFINE s == Slack(arc, k, i)
               t == Slack(arc, k, i + 1)
    <3>3. s - t <= down
      BY <1>7, <1>8
    <3>4. s \in Int /\ t \in Int /\ cap[k] \in Int
      BY <1>1, <1>6, <1>8
    <3> DEFINE c == cap[k]
               x == b[i]
               y == b[i + 1]
    <3>5. x \in Int /\ y \in Int /\ c \in Int /\ s \in Int /\ t \in Int /\ down \in Int
      BY <2>1, <3>4
    <3>6. y = c + t /\ x <= c + s /\ s - t <= down
      BY Zenon, <3>1, <3>2, <3>3
    <3> HIDE DEF s, t, c, x, y, down
    <3>7. x - y <= down
      BY <3>5, <3>6
    <3> QED
      BY <3>7 DEF x, y, down
  <2> QED
    BY <2>2, <2>3
<1> QED
  BY Zenon, <1>1, <1>5, <1>8 DEF b

LEMMA ProfileClear ==
  ASSUME NEW r, r \in References, Fits(r), Apart(r.pt), r.arc = Arcs(r.pt),
         r.energy = Shaped(r.pt, r.arc), \A i \in 1..Len(r.pt) : r.energy[i] >= 0
  PROVE  ProfileCodes(r) = {}
PROOF
<1> DEFINE n == Len(r.pt)
           arc == r.arc
           b == r.energy
<1>1. r.pt \in Routes /\ n \in Nat \ {0} /\ r.pt \in [1..n -> Points]
  BY Parts, RouteType
<1>2. /\ arc \in [1..n -> Int] /\ b \in [1..n -> Int]
      /\ Demanded(r.pt) \in [1..n -> Int]
  BY <1>1, Parts, DemandedType
<1>3. \A i \in 1..n : i + 1 \in 1..n => arc[i] < arc[i + 1]
  BY <1>1, ApartArcs
<1>4. b = Braked(Ramped(Demanded(r.pt), arc), arc)
  BY DEF Shaped
<1> HIDE DEF n, arc, b
<1>5. Len(arc) = n
  <2>1. arc \in Seq(Int) /\ DOMAIN arc = 1..n
    BY <1>1, <1>2
  <2> QED
    BY <1>1, <2>1
<1>6. /\ b[n] <= Square(VEnd)
      /\ \A i \in 1..n : i + 1 \in 1..n =>
            /\ b[i + 1] - b[i] <= Ramp * (arc[i + 1] - arc[i])
            /\ b[i] - b[i + 1] <= Brake * (arc[i + 1] - arc[i])
  BY <1>1, <1>2, <1>3, <1>4, <1>5, ShapedProfile
<1>7. Ramp \in Nat /\ Brake \in Nat /\ Square(VEnd) \in Int
  BY ShapingConstants DEF Square
<1>8. n \in 1..n
  BY <1>1
<1>9. ~(b[n] > Square(VEnd))
  <2>1. b[n] \in Int
    BY <1>2, <1>8
  <2> QED
    BY <1>6, <1>7, <2>1
<1>10. ASSUME NEW i \in 1..n
       PROVE  ~(b[i] < 0)
  <2>1. b[i] >= 0 /\ b[i] \in Int
    BY <1>2 DEF b, n
  <2> QED
    BY <2>1
<1>11. ASSUME NEW i \in SegmentsOf(r)
       PROVE  /\ ~(b[i + 1] - b[i] > Ramp * (arc[i + 1] - arc[i]))
              /\ ~(b[i] - b[i + 1] > Brake * (arc[i + 1] - arc[i]))
  <2> DEFINE up == Ramp * (arc[i + 1] - arc[i])
             down == Brake * (arc[i + 1] - arc[i])
             x == b[i]
             y == b[i + 1]
  <2>1. i \in 1..n /\ i + 1 \in 1..n
    BY <1>1 DEF SegmentsOf, n
  <2>2. up \in Int /\ down \in Int /\ x \in Int /\ y \in Int
    <3>1. arc[i] \in Int /\ arc[i + 1] \in Int /\ b[i] \in Int /\ b[i + 1] \in Int
      BY <1>2, <2>1
    <3>2. \A u, v \in Int : Ramp * (v - u) \in Int /\ Brake * (v - u) \in Int
      BY <1>7
    <3> QED
      BY Zenon, <3>1, <3>2
  <2>3. y - x <= up /\ x - y <= down
    BY <1>6, <2>1
  <2> HIDE DEF up, down, x, y
  <2>4. ~(y - x > up) /\ ~(x - y > down)
    BY <2>2, <2>3
  <2> QED
    BY <2>4 DEF x, y, up, down
<1>12. /\ "accel_bound" \notin ProfileCodes(r) /\ "brake_bound" \notin ProfileCodes(r)
       /\ "terminal_speed" \notin ProfileCodes(r)
       /\ "negative_speed" \notin ProfileCodes(r)
       /\ ProfileCodes(r) \subseteq {"accel_bound", "brake_bound", "terminal_speed",
                                     "negative_speed"}
  BY <1>9, <1>10, <1>11 DEF ProfileCodes, Indices, n, arc, b
<1> QED
  BY Zenon, <1>12

\* What a recipe made of a path that leads anywhere has nothing to be refused for.
LEMMA MadePasses ==
  ASSUME RefTypeInv, MadeInv, TurnsInv, phase = "processed",
         recipe \notin {"raw", "scenario"} \cup Adapted, Moves(ref)
  PROVE  Passes(ref) /\ Stepwise(ref.pt) /\ Steady(ref)
PROOF
<1> DEFINE n == Len(ref.pt)
<1>1. /\ ref \in References /\ Fits(ref) /\ ref.pt \in Routes /\ n \in Nat \ {0}
      /\ ref.pt \in [1..n -> Points]
      /\ ref.energy \in [1..n -> Int] /\ ref.turn \in [1..n -> Int]
  BY Parts, RouteType DEF RefTypeInv
<1>2. Stepwise(ref.pt) /\ ref.bad = {} /\ ref.arc = Arcs(ref.pt)
  BY DEF MadeInv, Sampled
<1>3. Steady(ref)
  BY DEF TurnsInv
<1>4. ZeroLength(ref) = {}
  <2>1. Apart(ref.pt)
    BY <1>2, StepwiseApart
  <2> QED
    BY <2>1 DEF Apart, ZeroLength, SegmentsOf, Degenerate
<1> HIDE DEF n
<1>5. OmegaViolations(ref) = {}
  <2>1. ASSUME NEW i \in 1..n
        PROVE  ~(Square(ref.turn[i]) * Size(ref.energy[i]) > Square(OmegaMax))
    <3> DEFINE x == Square(ref.turn[i]) * Size(ref.energy[i])
    <3>1. x <= Square(OmegaMax)
      BY Zenon, <1>3 DEF Steady, Slow, n
    <3>2. x \in Int
      <4>1. ref.turn[i] \in Int /\ ref.energy[i] \in Int
        BY <1>1
      <4>2. Square(ref.turn[i]) \in Int
        BY <4>1 DEF Square
      <4>3. Size(ref.energy[i]) \in Int
        BY <4>1, SizeType
      <4> QED
        BY <4>2, <4>3
    <3>3. Square(OmegaMax) \in Int
      BY ReferenceAssumption DEF Square
    <3> HIDE DEF x
    <3>4. ~(x > Square(OmegaMax))
      BY <3>1, <3>2, <3>3
    <3> QED
      BY <3>4 DEF x
  <2> QED
    BY <2>1 DEF OmegaViolations, Sound, Indices, n
<1>6. ~(ReverseArc(ref) > ReverseArcMax)
  <2>1. ReverseArcMax \in Nat /\ Ds \in Nat /\ Ds <= ReverseArcMax
    BY ReferenceAssumption, MeshAssumption
  <2>2. \A i \in 1..(Len(ref.pt) - 1) : ref.energy[i] >= 0
    <3>1. \A i \in 1..(n - 1) : i \in 1..n /\ i < n
      BY <1>1
    <3> QED
      BY Zenon, <1>3, <3>1 DEF Steady, n
  <2>3. n = 1 \/ ref.arc[n] - ref.arc[n - 1] <= ReverseArcMax
    <3>1. SUFFICES ASSUME n # 1
                   PROVE  ref.arc[n] - ref.arc[n - 1] <= ReverseArcMax
      OBVIOUS
    <3> DEFINE arc == Arcs(ref.pt)
               k == n - 1
               c == Chord(ref.pt[k], ref.pt[n])
    <3>2. k \in 1..(n - 1) /\ k + 1 = n /\ k \in 1..n /\ n \in 1..n
      BY <1>1, <3>1
    <3>3. c <= Ds
      <4>1. OneStep(ref.pt[k], ref.pt[k + 1])
        BY Zenon, <1>2, <3>2 DEF Stepwise, n
      <4> QED
        BY Zenon, <3>2, <4>1 DEF OneStep
    <3>4. arc \in [1..n -> Nat] /\ ArcRule(n, ref.pt, arc)
      BY <1>1, ArcSteps DEF n
    <3> HIDE DEF arc
    <3>5. arc[n] = arc[k] + c
      BY Zenon, <3>1, <3>2, <3>4 DEF ArcRule
    <3>6. c \in Int
      <4>1. ref.pt[k] \in Points /\ ref.pt[n] \in Points
        BY <1>1, <3>2
      <4>2. c \in Nat
        BY <4>1, ChordType
      <4> QED
        BY <4>2
    <3>7. arc[k] \in Int
      BY <3>2, <3>4
    <3> DEFINE a == arc[k]
    <3>8. arc[n] = a + c /\ a \in Int
      BY <3>5, <3>7
    <3> HIDE DEF a, c
    <3>9. arc[n] - a <= ReverseArcMax
      BY <2>1, <3>3, <3>6, <3>8
    <3> QED
      BY <1>2, <3>9 DEF arc, a
  <2>4. ReverseArc(ref) <= ReverseArcMax /\ ReverseArc(ref) \in Int
    BY <1>1, <2>1, <2>2, <2>3, ReverseAtMost DEF n
  <2> QED
    BY <2>1, <2>4
<1>7. Passes(ref)
  BY <1>2, <1>4, <1>5, <1>6 DEF Passes, MotionClear
<1> QED
  BY <1>2, <1>3, <1>7

LEMMA GoodPathsInit ==
  TrackInit => GoodPathsAreCertified
BY DEF TrackInit, RefInit, FromWaypoints, FromRows, FromScenario, FromTrack,
       FromElsewhere, GoodPathsAreCertified

LEMMA GoodPathsNext ==
  RefTypeInv /\ EntryInv /\ PreparedInv /\ GoodPathsAreCertified
    /\ [TrackNext]_<<refVars, trackVars>> => GoodPathsAreCertified'
PROOF
<1> SUFFICES ASSUME RefTypeInv, EntryInv, PreparedInv, GoodPathsAreCertified,
                    [TrackNext]_<<refVars, trackVars>>
             PROVE  GoodPathsAreCertified'
  OBVIOUS
<1>1. ASSUME phase' # "judged"
      PROVE  GoodPathsAreCertified'
  BY <1>1 DEF GoodPathsAreCertified
<1>2. CASE Resample \/ ServeTrack \/ ServeFile \/ Complete \/ Shape
  BY <1>1, <1>2 DEF Resample, ServeTrack, ServeFile, Complete, Shape
<1>3. ASSUME NEW by \in {"guarded", "entry"}, Improve(by)
      PROVE  GoodPathsAreCertified'
  BY <1>1, <1>3 DEF Improve
<1>4. ASSUME NEW p \in SeedPoses, NEW heading \in SeedYaws, Seed(p, heading)
      PROVE  GoodPathsAreCertified'
  BY <1>1, <1>4 DEF Seed
<1>5. ASSUME NEW k \in Indices(ref), NEW offset \in Offsets, NEW slant \in Slants,
             Follow(k, offset, slant)
      PROVE  GoodPathsAreCertified'
  BY <1>1, <1>5 DEF Follow
<1>6. ASSUME UNCHANGED <<recipe, ref>>
      PROVE  (Moves(ref)' <=> Moves(ref)) /\ ProfileCodes(ref)' = ProfileCodes(ref)
  BY <1>6 DEF Moves, ProfileCodes, SegmentsOf, Indices
<1>7. CASE UNCHANGED <<refVars, trackVars>>
  <2>1. UNCHANGED <<recipe, phase, ref, verdict>>
    BY <1>7 DEF refVars
  <2> QED
    BY Zenon, <1>6, <2>1 DEF GoodPathsAreCertified
<1>8. CASE Judge
  <2>1. UNCHANGED <<recipe, ref>> /\ phase = "processed" /\ recipe \notin Adapted
    BY Zenon, <1>8 DEF Judge
  <2>2. ASSUME recipe \notin {"raw", "scenario"}, Moves(ref)
        PROVE  verdict'.feasible /\ (recipe = "entry" => ProfileCodes(ref) = {})
    <3>1. Passes(ref) /\ Stepwise(ref.pt) /\ Steady(ref)
      BY <2>1, <2>2, MadePasses DEF PreparedInv
    <3>2. verdict'.feasible
      BY Zenon, <1>8, <3>1, JudgedClear
    <3>3. ASSUME recipe = "entry"
          PROVE  ProfileCodes(ref) = {}
      <4>1. ref.arc = Arcs(ref.pt) /\ ref.energy = Shaped(ref.pt, ref.arc)
        BY <2>1, <3>3 DEF EntryInv
      <4>2. Apart(ref.pt)
        BY <3>1, StepwiseApart
      <4>3. \A i \in 1..Len(ref.pt) : ref.energy[i] >= 0
        <5>1. recipe \notin Planned
          BY <3>3 DEF Planned
        <5> QED
          BY Zenon, <3>1, <5>1 DEF Steady
      <4> QED
        BY <4>1, <4>2, <4>3, ProfileClear DEF RefTypeInv
    <3> QED
      BY Zenon, <3>2, <3>3
  <2> QED
    BY Zenon, <1>6, <2>1, <2>2 DEF GoodPathsAreCertified
<1> QED
  BY <1>2, <1>3, <1>4, <1>5, <1>7, <1>8 DEF TrackNext, Prepare, RefNext

\* GoodPathsAreCertified: no recipe (prepare_tracker_reference, guarded_reference,
\* build_trajectory, real_plan_traj, serpentine) turns a path that leads
\* anywhere into a reference its own guard refuses, and what the entry makes of
\* it also passes the check of the speed profile, whatever the path and limits.
THEOREM GoodPathsSound == TrackSpec => []GoodPathsAreCertified
PROOF
<1> QED
  BY ReferenceTypeInvariance, EntryInvariance, PreparedInvariance, GoodPathsInit,
     GoodPathsNext, PTL DEF TrackSpec

-----------------------------------------------------------------------------
(***************************************************************************)
(* The search answers only what it has reason for.                         *)
(***************************************************************************)

\* Lexicographically before: by value, then by index.
Ahead(f, i, k) == f[i] < f[k] \/ (f[i] = f[k] /\ i <= k)

\* Of every set of indices that is not empty one is ahead of all, the choice
\* of First and of the representative of a run.
LEMMA Foremost ==
  ASSUME NEW m \in Nat, NEW idx \in SUBSET (1..m), idx # {}, NEW f,
         \A i \in idx : f[i] \in Int
  PROVE  \E i \in idx : \A k \in idx : Ahead(f, i, k)
PROOF
<1> DEFINE Upto(j) == {i \in idx : i <= j}
           Has(j) == Upto(j) # {} => \E i \in Upto(j) : \A k \in Upto(j) : Ahead(f, i, k)
           S == {j \in 1..m : Has(j)}
<1>0. \A i \in idx : i \in 1..m /\ i \in Int
  OBVIOUS
<1>1. m > 0 => 1 \in S
  <2> SUFFICES ASSUME m > 0, Upto(1) # {}
               PROVE  \E i \in Upto(1) : \A k \in Upto(1) : Ahead(f, i, k)
    OBVIOUS
  <2>1. \A i \in Upto(1) : i = 1
    BY <1>0
  <2>2. 1 \in Upto(1)
    BY <2>1
  <2>3. Ahead(f, 1, 1)
    BY DEF Ahead
  <2> QED
    BY <2>1, <2>2, <2>3
<1>2. ASSUME NEW j \in 1..m, j \in S, j + 1 \in 1..m
      PROVE  j + 1 \in S
  <2> SUFFICES ASSUME Upto(j + 1) # {}
               PROVE  \E i \in Upto(j + 1) : \A k \in Upto(j + 1) : Ahead(f, i, k)
    BY <1>2
  <2>1. \A i \in Upto(j + 1) : i \in Upto(j) \/ i = j + 1
    BY <1>0
  <2>2. \A i \in Upto(j) : i \in Upto(j + 1)
    BY <1>0
  <2>3. CASE Upto(j) = {}
    <3>1. \A i \in Upto(j + 1) : i = j + 1
      BY <2>1, <2>3
    <3>2. j + 1 \in Upto(j + 1)
      BY <3>1
    <3>3. Ahead(f, j + 1, j + 1)
      BY DEF Ahead
    <3> QED
      BY <3>1, <3>2, <3>3
  <2>4. CASE Upto(j) # {}
    <3>1. PICK i \in Upto(j) : \A k \in Upto(j) : Ahead(f, i, k)
      BY <1>2, <2>4
    <3>2. CASE j + 1 \notin idx
      <4>1. \A k \in Upto(j + 1) : k \in Upto(j)
        BY <2>1, <3>2
      <4> QED
        BY <2>2, <3>1, <4>1
    <3>3. CASE j + 1 \in idx /\ f[i] <= f[j + 1]
      <4>1. Ahead(f, i, j + 1)
        BY <1>0, <3>3 DEF Ahead
      <4> QED
        BY <2>1, <2>2, <3>1, <4>1
    <3>4. CASE j + 1 \in idx /\ ~(f[i] <= f[j + 1])
      <4>1. ASSUME NEW k \in Upto(j)
            PROVE  Ahead(f, j + 1, k)
        <5>1. Ahead(f, i, k) /\ k \in idx
          BY <3>1
        <5> QED
          BY <3>4, <5>1 DEF Ahead
      <4>2. Ahead(f, j + 1, j + 1)
        BY DEF Ahead
      <4>3. j + 1 \in Upto(j + 1)
        BY <3>4, <1>2
      <4> QED
        BY <2>1, <4>1, <4>2, <4>3
    <3> QED
      BY <3>2, <3>3, <3>4
  <2> QED
    BY <2>3, <2>4
<1>3. 1..m \subseteq S
  <2>1. \A j \in 1..m : j \in S /\ j + 1 \in 1..m => j + 1 \in S
    BY <1>2
  <2> HIDE DEF S
  <2> QED
    BY <1>1, <2>1, Upwards
<1>4. m \in 1..m /\ Upto(m) = idx
  <2>1. PICK i \in idx : i \in 1..m
    BY <1>0
  <2>2. m \in 1..m
    BY <2>1
  <2>3. \A k \in idx : k <= m
    BY <1>0
  <2>4. Upto(m) = idx
    BY Zenon, <2>3
  <2> QED
    BY <2>2, <2>4
<1> QED
  BY <1>3, <1>4

\* The feet of a pose on m segments, as far as the choice among them goes.
FeetKnown(feet, m) ==
    \A i \in 1..m : feet[i].arc \in Int /\ feet[i].dist2 \in Int

LEMMA FeetType ==
  ASSUME NEW r \in References, Fits(r), NEW p \in Points
  PROVE  FeetKnown(Feet(r, p), Len(r.pt) - 1)
PROOF
<1> DEFINE n == Len(r.pt)
<1>1. n \in Nat \ {0} /\ r.pt \in [1..n -> Points] /\ r.arc \in [1..n -> Int]
  BY RouteType DEF References, Fits
<1> SUFFICES ASSUME NEW i \in 1..(n - 1)
             PROVE  Feet(r, p)[i].arc \in Int /\ Feet(r, p)[i].dist2 \in Int
  BY DEF FeetKnown
<1>2. Tangents(r)[i] \in Points
  BY <1>1, TangentType
<1> DEFINE a == r.pt[i]
           u == Tangents(r)[i]
           x == (p[1] - a[1]) * u[1] + (p[2] - a[2]) * u[2]
           span == r.arc[i + 1] - r.arc[i]
           along == Between(x, 0, span)
           foot == <<a[1] + along * u[1], a[2] + along * u[2]>>
<1>3. i \in 1..n /\ i + 1 \in 1..n
  BY <1>1
<1>4. a \in Points /\ r.arc[i] \in Int /\ span \in Int
  BY <1>1, <1>3
<1>5. u[1] \in Int /\ u[2] \in Int /\ a[1] \in Int /\ a[2] \in Int
        /\ p[1] \in Int /\ p[2] \in Int
  BY <1>2, <1>4 DEF Points
<1>0. \A y, z \in Int : y * z \in Int /\ y + z \in Int /\ y - z \in Int
  OBVIOUS
<1>6. x \in Int
  <2>1. p[1] - a[1] \in Int /\ p[2] - a[2] \in Int
    BY <1>0, <1>5
  <2>2. (p[1] - a[1]) * u[1] \in Int /\ (p[2] - a[2]) * u[2] \in Int
    BY <1>0, <1>5, <2>1
  <2> QED
    BY <1>0, <2>2
<1>7. along \in Int
  BY <1>4, <1>6 DEF Between
<1> HIDE DEF along
<1>8. foot[1] \in Int /\ foot[2] \in Int
  <2>1. along * u[1] \in Int /\ along * u[2] \in Int
    BY <1>0, <1>5, <1>7
  <2>2. a[1] + along * u[1] \in Int /\ a[2] + along * u[2] \in Int
    BY <1>0, <1>5, <2>1
  <2> QED
    BY <2>2
<1>9. Square(p[1] - foot[1]) + Square(p[2] - foot[2]) \in Int
  <2> HIDE DEF foot
  <2>1. p[1] - foot[1] \in Int /\ p[2] - foot[2] \in Int
    BY <1>0, <1>5, <1>8
  <2>2. Square(p[1] - foot[1]) \in Int /\ Square(p[2] - foot[2]) \in Int
    BY <1>0, <2>1 DEF Square
  <2> QED
    BY <1>0, <2>2
<1>10. r.arc[i] + along \in Int
  BY <1>4, <1>7
<1>11. i \in SegmentsOf(r)
  BY DEF SegmentsOf
<1>12. /\ Feet(r, p)[i].arc = r.arc[i] + along
       /\ Feet(r, p)[i].dist2 = Square(p[1] - foot[1]) + Square(p[2] - foot[2])
  BY <1>11 DEF Feet, along
<1> QED
  BY <1>9, <1>10, <1>12
\* Segment b comes before segment i in order of arcs.
Earlier(feet, b, i) ==
    feet[b].arc < feet[i].arc \/ (feet[b].arc = feet[i].arc /\ b < i)

Before(near, feet, i) == {b \in near : Earlier(feet, b, i)}

\* A list of the members of a set, in order of arcs.
Ordered(order, near, feet) ==
    LET n == Len(order) IN
    /\ n \in Nat /\ order \in [1..n -> near]
    /\ \A i \in near : \E k \in 1..n : order[k] = i
    /\ \A k, l \in 1..n : k <= l => feet[order[k]].arc <= feet[order[l]].arc

\* ByArc lists every candidate once, in order of arcs.
LEMMA Ranked ==
  ASSUME NEW m \in Nat, NEW near \in SUBSET (1..m), NEW feet, FeetKnown(feet, m)
  PROVE  Ordered(ByArc(near, feet), near, feet)
PROOF
<1> DEFINE n == Cardinality(near)
           B(i) == Before(near, feet, i)
           rank == [i \in near |-> Cardinality(B(i))]
           order == ByArc(near, feet)
<1>1. IsFiniteSet(near) /\ n \in Nat
  <2>1. IsFiniteSet(1..m)
    BY FS_Interval
  <2>2. IsFiniteSet(near)
    BY <2>1, FS_Subset
  <2> QED
    BY <2>2, FS_CardinalityType
<1>2. \A i \in near : i \in Int /\ feet[i].arc \in Int
  <2>1. \A i \in near : i \in 1..m /\ i \in Int
    OBVIOUS
  <2> QED
    BY Zenon, <2>1 DEF FeetKnown
<1>3. ASSUME NEW i \in near
      PROVE  /\ IsFiniteSet(B(i)) /\ Cardinality(B(i)) \in Nat
             /\ Cardinality(B(i)) < n
  <2>1. B(i) \in SUBSET near /\ B(i) \subseteq near \ {i}
    BY <1>2 DEF Before, Earlier
  <2>2. IsFiniteSet(near \ {i}) /\ Cardinality(near \ {i}) = n - 1
    BY <1>1, FS_RemoveElement
  <2>3. IsFiniteSet(B(i)) /\ Cardinality(B(i)) <= n - 1
    BY <2>1, <2>2, FS_Subset
  <2>4. Cardinality(B(i)) \in Nat
    BY <2>3, FS_CardinalityType
  <2> QED
    BY <1>1, <2>3, <2>4
<1>4. ASSUME NEW i \in near, NEW k \in near, Earlier(feet, i, k)
      PROVE  Cardinality(B(i)) < Cardinality(B(k))
  <2>1. i \notin B(i)
    BY <1>2 DEF Before, Earlier
  <2>2. B(i) \cup {i} \in SUBSET B(k)
    <3>1. \A x, y, z, u, v, w \in Int :
             (x < y \/ (x = y /\ u < v)) /\ (y < z \/ (y = z /\ v < w))
                => x < z \/ (x = z /\ u < w)
      OBVIOUS
    <3>2. ASSUME NEW b \in near, Earlier(feet, b, i)
          PROVE  Earlier(feet, b, k)
      <4>1. /\ b \in Int /\ i \in Int /\ k \in Int
            /\ feet[b].arc \in Int /\ feet[i].arc \in Int /\ feet[k].arc \in Int
        BY Zenon, <1>2
      <4> QED
        BY <1>4, <3>1, <3>2, <4>1 DEF Earlier
    <3> QED
      BY Zenon, <1>4, <3>2 DEF Before
  <2>3. Cardinality(B(i) \cup {i}) = Cardinality(B(i)) + 1
    BY <1>3, <2>1, FS_AddElement
  <2>4. Cardinality(B(i) \cup {i}) <= Cardinality(B(k))
    BY <1>3, <2>2, FS_Subset
  <2> QED
    BY <1>3, <2>3, <2>4
<1>5. \A i, k \in near : i = k \/ Earlier(feet, i, k) \/ Earlier(feet, k, i)
  BY <1>2 DEF Earlier
<1> HIDE DEF B
<1>6. rank \in [near -> 0..(n - 1)]
  <2>1. \A i \in near : Cardinality(B(i)) \in 0..(n - 1)
    BY <1>1, <1>3
  <2> QED
    BY <2>1
<1>7. \A i, k \in near : rank[i] = rank[k] => i = k
  <2> SUFFICES ASSUME NEW i \in near, NEW k \in near, rank[i] = rank[k], i # k
               PROVE  FALSE
    OBVIOUS
  <2>1. Cardinality(B(i)) = Cardinality(B(k))
    OBVIOUS
  <2>2. Cardinality(B(i)) \in Nat /\ Cardinality(B(k)) \in Nat
    BY <1>3
  <2>3. CASE Earlier(feet, i, k)
    BY <1>4, <2>1, <2>2, <2>3
  <2>4. CASE Earlier(feet, k, i)
    BY <1>4, <2>1, <2>2, <2>4
  <2> QED
    BY <1>5, <2>3, <2>4
<1>8. \A r \in 0..(n - 1) : \E i \in near : rank[i] = r
  <2> HIDE DEF rank
  <2>1. rank \in Injection(near, 0..(n - 1))
    BY <1>6, <1>7 DEF Injection, IsInjective
  <2>2. IsFiniteSet(0..(n - 1)) /\ Cardinality(0..(n - 1)) = n
    <3>1. 0 \in Int /\ n - 1 \in Int
      BY <1>1
    <3>2. /\ IsFiniteSet(0..(n - 1))
          /\ Cardinality(0..(n - 1)) = IF 0 > n - 1 THEN 0 ELSE n - 1 - 0 + 1
      BY <3>1, FS_Interval
    <3> QED
      BY <1>1, <3>2
  <2>3. rank \in Surjection(near, 0..(n - 1))
    BY <2>1, <2>2, FS_Injection
  <2> QED
    BY <2>3 DEF Surjection
<1> DEFINE Pos(k) == CHOOSE i \in near : Cardinality(B(i)) = k - 1
<1>9. order = [k \in 1..n |-> Pos(k)]
  BY DEF ByArc, B, Before, Earlier
<1>10. ASSUME NEW k \in 1..n
       PROVE  Pos(k) \in near /\ rank[Pos(k)] = k - 1
  <2>1. k - 1 \in 0..(n - 1)
    BY <1>1
  <2>2. \E i \in near : Cardinality(B(i)) = k - 1
    BY <1>8, <2>1
  <2> QED
    BY <2>2
<1> HIDE DEF Pos
<1>11. order \in [1..n -> near] /\ Len(order) = n
  <2> HIDE DEF order
  <2>1. order \in [1..n -> near]
    BY <1>9, <1>10
  <2> QED
    BY <1>1, <2>1
<1>12. \A k \in 1..n : order[k] \in near /\ rank[order[k]] = k - 1
  <2> HIDE DEF order
  <2> QED
    BY <1>9, <1>10
<1> HIDE DEF order
<1>13. \A i \in near : \E k \in 1..n : order[k] = i
  <2> SUFFICES ASSUME NEW i \in near
               PROVE  \E k \in 1..n : order[k] = i
    OBVIOUS
  <2>1. rank[i] \in 0..(n - 1)
    BY <1>6
  <2>2. rank[i] + 1 \in 1..n /\ (rank[i] + 1) - 1 = rank[i]
    BY <1>1, <2>1
  <2> HIDE DEF rank
  <2>3. order[rank[i] + 1] \in near /\ rank[order[rank[i] + 1]] = rank[i]
    BY <1>12, <2>2
  <2> QED
    BY <1>7, <2>2, <2>3
<1>14. ASSUME NEW k \in 1..n, NEW l \in 1..n, k <= l
       PROVE  feet[order[k]].arc <= feet[order[l]].arc
  <2> SUFFICES ASSUME ~(feet[order[k]].arc <= feet[order[l]].arc)
               PROVE  FALSE
    OBVIOUS
  <2>1. order[k] \in near /\ order[l] \in near
    BY <1>12
  <2>2. Earlier(feet, order[l], order[k])
    <3>1. feet[order[k]].arc \in Int /\ feet[order[l]].arc \in Int
      BY Zenon, <1>2, <2>1
    <3>2. feet[order[l]].arc < feet[order[k]].arc
      BY <3>1
    <3> QED
      BY Zenon, <3>2 DEF Earlier
  <2>3. Cardinality(B(order[l])) < Cardinality(B(order[k]))
    BY <1>4, <2>1, <2>2
  <2>4. rank[order[l]] = Cardinality(B(order[l])) /\ rank[order[k]] = Cardinality(B(order[k]))
    BY <2>1
  <2>5. rank[order[l]] = l - 1 /\ rank[order[k]] = k - 1
    BY <1>12
  <2> HIDE DEF rank
  <2> QED
    BY <1>1, <1>14, <2>3, <2>4, <2>5
<1>15. Ordered(order, near, feet)
  BY <1>1, <1>11, <1>13, <1>14 DEF Ordered
<1> QED
  BY <1>15 DEF order
\* Within the tie band of one foot is within that of any farther one.
LEMMA TieGrows ==
  ASSUME NEW d \in Int, NEW b \in Int, NEW c \in Int, b <= c, WithinTie(d, b)
  PROVE  WithinTie(d, c)
PROOF
<1> DEFINE e == Square(TieEps)
           x == d - b - e
           y == d - c - e
<1>1. TieEps \in Nat /\ e \in Int /\ 0 <= e
  <2>1. TieEps \in Nat
    BY ProjectionAssumption
  <2> QED
    BY <2>1 DEF Square
<1> HIDE DEF e
<1>2. x \in Int /\ y \in Int /\ y <= x
  BY <1>1
<1>3. x <= 0 \/ x * x <= 4 * e * b
  BY DEF WithinTie, Square, e
<1>4. y <= 0 \/ y * y <= 4 * e * c => WithinTie(d, c)
  BY DEF WithinTie, Square, e
<1>5. CASE y <= 0
  BY <1>4, <1>5
<1>6. CASE ~(y <= 0)
  <2>1. ~(x <= 0)
    BY <1>2, <1>6
  <2> HIDE DEF x, y
  <2>2. x * x <= 4 * e * b
    BY <1>3, <2>1
  <2>3. y * y <= x * x
    BY <1>2, <1>6, <2>1
  <2>4. 4 * e * b <= 4 * e * c
    BY <1>1
  <2>5. y * y \in Int /\ x * x \in Int /\ 4 * e * b \in Int /\ 4 * e * c \in Int
    BY <1>1, <1>2
  <2>6. y * y <= 4 * e * c
    BY <2>2, <2>3, <2>4, <2>5
  <2> QED
    BY <1>4, <2>6
<1> QED
  BY <1>5, <1>6

\* The members of idx within the tie band of all others.
BandOf(idx, feet) ==
    {i \in idx : \A k \in idx : WithinTie(feet[i].dist2, feet[k].dist2)}

\* One nearest of a band leads another way than one that is reached from there
\* only across a gap of more than GapFloor.
Divided(band, feet) ==
    \E i, k \in band :
        /\ \A l \in band : feet[i].dist2 <= feet[l].dist2
        /\ feet[i].dir # feet[k].dir
        /\ \E a \in band :
            /\ Least(feet[i].arc, feet[k].arc) <= feet[a].arc
            /\ feet[a].arc < Most(feet[i].arc, feet[k].arc)
            /\ \A l \in band : feet[l].arc <= feet[a].arc
                               \/ feet[l].arc > feet[a].arc + GapFloor

\* The nearest of the run from start on, the first of equals.
RepAt(order, feet, start, k) ==
    /\ k \in start..Len(order)
    /\ \A l \in start..Len(order) :
         Ahead([x \in 1..Len(order) |-> feet[order[x]].dist2], k, l)

\* Beyond a gap.
LEMMA Across ==
  ASSUME NEW a \in Int, NEW b \in Int, NEW c \in Int, NEW d \in Int,
         b - a > GapFloor, b <= c, d <= a
  PROVE  /\ c > a + GapFloor /\ ~(c <= a)
         /\ Least(d, c) <= a /\ a < Most(d, c)
PROOF
<1>1. GapFloor \in Nat
  BY ProjectionAssumption
<1> QED
  BY <1>1 DEF Least, Most

\* Two representatives that lead different ways divide the band.
LEMMA RunsDivide ==
  ASSUME NEW m \in Nat, NEW near \in SUBSET (1..m), NEW feet, FeetKnown(feet, m),
         NEW order, Ordered(order, near, feet),
         NEW j \in 1..(Len(order) - 1),
         feet[order[j + 1]].arc - feet[order[j]].arc > GapFloor,
         NEW x, RepAt(order, feet, 1, x), NEW y, RepAt(order, feet, j + 1, y),
         feet[order[x]].dir # feet[order[y]].dir
  PROVE  Divided(near, feet)
PROOF
<1> DEFINE n == Len(order)
           arc == [k \in 1..n |-> feet[order[k]].arc]
           dist == [k \in 1..n |-> feet[order[k]].dist2]
<1>1. n \in Nat /\ order \in [1..n -> near]
  BY DEF Ordered
<1>2. x \in 1..n /\ y \in (j + 1)..n /\ j \in 1..n /\ j + 1 \in 1..n /\ y \in 1..n
  BY <1>1 DEF RepAt
<1>3. \A k \in 1..n : order[k] \in near /\ order[k] \in 1..m
  BY <1>1
<1>4. \A k \in 1..n : arc[k] \in Int /\ dist[k] \in Int
  BY Zenon, <1>3 DEF FeetKnown
<1>5. \A k, l \in 1..n : k <= l => arc[k] <= arc[l]
  BY Zenon DEF Ordered
<1>6. arc[j + 1] - arc[j] > GapFloor
  BY Zenon, <1>2
<1>7. /\ \A l \in 1..n : Ahead(dist, x, l)
      /\ \A l \in (j + 1)..n : Ahead(dist, y, l)
  BY Zenon DEF RepAt
<1>8. \A k \in 1..n : feet[order[k]].arc = arc[k] /\ feet[order[k]].dist2 = dist[k]
  OBVIOUS
<1> HIDE DEF arc, dist
<1>9. x <= j
  <2> SUFFICES ASSUME ~(x <= j)
               PROVE  FALSE
    BY <1>2
  <2>1. x \in (j + 1)..n
    BY <1>1, <1>2
  <2>2. Ahead(dist, x, y) /\ Ahead(dist, y, x)
    BY Zenon, <1>2, <1>7, <2>1
  <2>3. x = y
    BY <1>2, <1>4, <2>2 DEF Ahead
  <2> QED
    BY <2>3
<1>10. arc[x] <= arc[j] /\ arc[j + 1] <= arc[y]
  BY <1>2, <1>5, <1>9
<1>11. ASSUME NEW k \in 1..n
       PROVE  arc[k] <= arc[j] \/ arc[k] > arc[j] + GapFloor
  <2>1. CASE k <= j
    BY <1>2, <1>5, <2>1
  <2>2. CASE ~(k <= j)
    <3>1. j + 1 <= k
      BY <1>2, <2>2
    <3>2. arc[j + 1] <= arc[k]
      BY <1>2, <1>5, <3>1
    <3>3. arc[k] \in Int /\ arc[j] \in Int /\ arc[j + 1] \in Int
      BY <1>2, <1>4
    <3>4. arc[j] <= arc[j]
      BY <3>3
    <3> QED
      BY Zenon, <1>6, <3>2, <3>3, <3>4, Across
  <2> QED
    BY <2>1, <2>2
<1>12. /\ Least(arc[x], arc[y]) <= arc[j]
       /\ arc[j] < Most(arc[x], arc[y])
  <2>1. arc[x] \in Int /\ arc[y] \in Int /\ arc[j] \in Int /\ arc[j + 1] \in Int
    BY <1>2, <1>4
  <2> QED
    BY Zenon, <1>6, <1>10, <2>1, Across
<1>13. \A k \in 1..n : dist[x] <= dist[k]
  BY <1>2, <1>4, <1>7 DEF Ahead
<1>14. \A l \in near : \E k \in 1..n : order[k] = l
  BY Zenon DEF Ordered
<1> DEFINE i == order[x]
           o == order[y]
           a == order[j]
<1>15. i \in near /\ o \in near /\ a \in near
  BY <1>2, <1>3
<1>16. /\ feet[i].arc = arc[x] /\ feet[o].arc = arc[y] /\ feet[a].arc = arc[j]
       /\ feet[i].dist2 = dist[x]
  BY <1>2, <1>8
<1>17. \A l \in near : feet[i].dist2 <= feet[l].dist2
  <2> SUFFICES ASSUME NEW l \in near
               PROVE  feet[i].dist2 <= feet[l].dist2
    OBVIOUS
  <2>1. PICK k \in 1..n : order[k] = l
    BY <1>14
  <2>2. feet[l].dist2 = dist[k]
    BY Zenon, <1>8, <2>1
  <2>3. dist[x] <= dist[k]
    BY <1>13
  <2> QED
    BY Zenon, <1>16, <2>2, <2>3
<1>18. \A l \in near : feet[l].arc <= feet[a].arc \/ feet[l].arc > feet[a].arc + GapFloor
  <2> SUFFICES ASSUME NEW l \in near
               PROVE  feet[l].arc <= feet[a].arc \/ feet[l].arc > feet[a].arc + GapFloor
    OBVIOUS
  <2>1. PICK k \in 1..n : order[k] = l
    BY <1>14
  <2>2. feet[l].arc = arc[k]
    BY Zenon, <1>8, <2>1
  <2>3. arc[k] <= arc[j] \/ arc[k] > arc[j] + GapFloor
    BY <1>11
  <2> QED
    BY Zenon, <1>16, <2>2, <2>3
<1>19. /\ Least(feet[i].arc, feet[o].arc) <= feet[a].arc
       /\ feet[a].arc < Most(feet[i].arc, feet[o].arc)
  BY Zenon, <1>12, <1>16
<1>20. feet[i].dir # feet[o].dir
  OBVIOUS
<1> HIDE DEF i, o, a
<1> QED
  BY Zenon, <1>15, <1>17, <1>18, <1>19, <1>20 DEF Divided
\* _pick answers with a candidate, with none only when there is none, and with
\* a tie only when the band is divided.
LEMMA PickSound ==
  ASSUME NEW m \in Nat, NEW idx \in SUBSET (1..m), NEW feet, FeetKnown(feet, m),
         NEW sPrev \in Int
  PROVE  /\ Pick(idx, feet, sPrev) \in idx \cup {Nobody, Torn}
         /\ Pick(idx, feet, sPrev) = Nobody => idx = {}
         /\ Pick(idx, feet, sPrev) = Torn => Divided(BandOf(idx, feet), feet)
PROOF
<1> DEFINE pick == Pick(idx, feet, sPrev)
<1>1. CASE idx = {}
  <2>1. pick = Nobody
    BY <1>1 DEF Pick
  <2> QED
    BY <1>1, <2>1 DEF Nobody, Torn
<1>2. CASE idx # {}
  <2> DEFINE best == NearestOf(idx, feet)
             near == Tied(idx, feet)
             order == ByArc(near, feet)
             n == Len(order)
             starts == RunStarts(order, feet)
             Of(start) == CHOOSE k \in start..n : \A l \in start..n :
                            feet[order[k]].dist2 < feet[order[l]].dist2
                            \/ (feet[order[k]].dist2 = feet[order[l]].dist2 /\ k <= l)
             reps == Reps(near, feet)
             Differ == ~(\A i, k \in reps : feet[i].dir = feet[k].dir)
             next == CHOOSE i \in reps : \A k \in reps :
                        Size(feet[i].arc - sPrev) < Size(feet[k].arc - sPrev)
                        \/ (Size(feet[i].arc - sPrev) = Size(feet[k].arc - sPrev)
                              /\ i <= k)
  <2>1. \/ pick = best
        \/ pick = next
        \/ pick = Torn /\ Differ
    BY Zenon, <1>2 DEF Pick, First
  <2> HIDE DEF Differ
  <2>2. near = {i \in idx : WithinTie(feet[i].dist2, feet[best].dist2)}
    BY Zenon DEF Tied
  <2>3. \A i \in idx : i \in 1..m /\ feet[i].dist2 \in Int /\ feet[i].arc \in Int
    BY Zenon DEF FeetKnown
  <2>4. best \in idx /\ \A k \in idx : feet[best].dist2 <= feet[k].dist2
    <3> DEFINE f == [i \in idx |-> feet[i].dist2]
    <3>1. \A i \in idx : f[i] = feet[i].dist2 /\ f[i] \in Int
      BY <2>3
    <3> HIDE DEF f
    <3>2. \E i \in idx : \A k \in idx : Ahead(f, i, k)
      BY <1>2, <3>1, Foremost
    <3>3. /\ best \in idx
          /\ \A k \in idx : \/ feet[best].dist2 < feet[k].dist2
                            \/ feet[best].dist2 = feet[k].dist2 /\ best <= k
      BY Zenon, <3>1, <3>2 DEF Ahead, NearestOf, First
    <3> HIDE DEF best
    <3> QED
      BY <2>3, <3>3
  <2> HIDE DEF best, near
  <2>5. near \in SUBSET (1..m) /\ near \subseteq idx
    BY Zenon, <2>3, <2>2
  <2>6. near = BandOf(idx, feet)
    <3>1. \A i, k \in idx : WithinTie(feet[i].dist2, feet[best].dist2)
                              => WithinTie(feet[i].dist2, feet[k].dist2)
      BY Zenon, <2>3, <2>4, TieGrows
    <3> QED
      BY Zenon, <2>4, <2>2, <3>1 DEF BandOf
  <2>7. Ordered(order, near, feet)
    BY Zenon, <2>5, Ranked
  <2> HIDE DEF order
  <2>8. n \in Nat /\ order \in [1..n -> near]
    BY <2>7 DEF Ordered
  <2>9. near # {} => 1 \in 1..n
    <3>1. \A i \in near : \E k \in 1..n : order[k] = i
      BY Zenon, <2>7 DEF Ordered
    <3> QED
      BY <2>8, <3>1
  <2>10. near # {}
    <3>1. WithinTie(feet[best].dist2, feet[best].dist2)
      <4>1. feet[best].dist2 - feet[best].dist2 - Square(TieEps) <= 0
        <5>1. TieEps \in Nat
          BY ProjectionAssumption
        <5>2. Square(TieEps) \in Int /\ 0 <= Square(TieEps)
          BY <5>1 DEF Square
        <5>3. feet[best].dist2 \in Int
          BY <2>3, <2>4
        <5> QED
          BY <5>2, <5>3
      <4> QED
        BY Zenon, <4>1 DEF WithinTie
    <3> QED
      BY Zenon, <2>4, <2>2, <3>1
  <2>11. ASSUME NEW start \in 1..n
         PROVE  RepAt(order, feet, start, Of(start))
    <3> DEFINE f == [x \in 1..n |-> feet[order[x]].dist2]
    <3>1. start..n \in SUBSET (1..n) /\ start..n # {}
      BY <2>8
    <3>2. \A x \in 1..n : f[x] = feet[order[x]].dist2 /\ f[x] \in Int
      BY Zenon, <2>3, <2>5, <2>8
    <3>3. \A x \in start..n : f[x] \in Int
      BY Zenon, <3>1, <3>2
    <3>4. \A x \in start..n : f[x] = feet[order[x]].dist2
      BY Zenon, <3>1, <3>2
    <3> HIDE DEF f
    <3>5. \E k \in start..n : \A l \in start..n : Ahead(f, k, l)
      BY <2>8, <3>1, <3>3, Foremost
    <3>6. /\ Of(start) \in start..n
          /\ \A l \in start..n : Ahead(f, Of(start), l)
      BY Zenon, <3>4, <3>5 DEF Ahead
    <3> QED
      BY Zenon, <3>6 DEF RepAt, f
  <2>12. /\ \A start \in starts : start \in 1..n
         /\ \A start \in starts \ {1} : \E j \in 1..(n - 1) :
              start = j + 1 /\ feet[order[j + 1]].arc - feet[order[j]].arc > GapFloor
    <3> DEFINE gaps == [k \in 1..(n - 1) |->
                          feet[order[k + 1]].arc - feet[order[k]].arc]
               Break(k) == gaps[k] > GapFloor /\ 2 * gaps[k] > 5 * TwiceMedian(gaps)
    <3>1. starts = {1} \cup {k + 1 : k \in {k \in DOMAIN gaps : Break(k)}}
      BY Zenon DEF RunStarts
    <3>2. DOMAIN gaps = 1..(n - 1)
      OBVIOUS
    <3>3. \A k \in 1..(n - 1) :
            Break(k) => feet[order[k + 1]].arc - feet[order[k]].arc > GapFloor
      OBVIOUS
    <3> HIDE DEF gaps, Break, starts
    <3>4. \A start \in starts :
            \/ start = 1
            \/ \E k \in 1..(n - 1) : start = k + 1 /\ Break(k)
      BY Zenon, <3>1, <3>2
    <3>5. 1 \in 1..n /\ \A k \in 1..(n - 1) : k + 1 \in 1..n
      BY <2>8, <2>9, <2>10
    <3>6. \A start \in starts : start \in 1..n
      BY Zenon, <3>4, <3>5
    <3> QED
      BY Zenon, <3>3, <3>4, <3>6
  <2> HIDE DEF Of
  <2>13. \A start \in starts : order[Of(start)] \in near
    <3> SUFFICES ASSUME NEW start \in starts
                 PROVE  order[Of(start)] \in near
      OBVIOUS
    <3>1. start \in 1..n
      BY <2>12
    <3>2. Of(start) \in start..n
      BY <2>11, <3>1 DEF RepAt
    <3>3. Of(start) \in 1..n
      BY <2>8, <3>1, <3>2
    <3> QED
      BY <2>8, <3>3
  <2> HIDE DEF starts
  <2>14. reps = {order[Of(start)] : start \in starts}
    BY Zenon DEF Reps, Rep, First, Of, order, starts, near
  <2>15. 1 \in starts
    BY Zenon DEF RunStarts, starts
  <2> HIDE DEF reps
  <2>16. reps \in SUBSET near /\ reps # {}
    BY Zenon, <2>13, <2>14, <2>15
  <2>17. next \in idx
    <3> DEFINE f == [i \in reps |-> Size(feet[i].arc - sPrev)]
    <3>1. \A i \in reps : Size(feet[i].arc - sPrev) \in Int
      <4>1. \A k \in Int : Size(k - sPrev) \in Int
        BY DEF Size
      <4>2. \A i \in reps : feet[i].arc \in Int
        BY Zenon, <2>3, <2>5, <2>16
      <4> QED
        BY Zenon, <4>1, <4>2
    <3>2. \A i \in reps : f[i] = Size(feet[i].arc - sPrev) /\ f[i] \in Int
      BY Zenon, <3>1
    <3>3. reps \in SUBSET (1..m)
      BY Zenon, <2>5, <2>16
    <3> HIDE DEF f
    <3>4. \E i \in reps : \A k \in reps : Ahead(f, i, k)
      BY <2>16, <3>2, <3>3, Foremost
    <3>5. next \in reps
      BY Zenon, <3>2, <3>4 DEF Ahead
    <3> QED
      BY Zenon, <2>5, <2>16, <3>5
  <2> HIDE DEF next
  <2>18. Differ => Divided(near, feet)
    <3> SUFFICES ASSUME Differ
                 PROVE  Divided(near, feet)
      OBVIOUS
    <3> DEFINE x == Of(1)
    <3>1. 1 \in 1..n /\ RepAt(order, feet, 1, x)
      BY Zenon, <2>9, <2>10, <2>11
    <3>2. PICK start \in starts : feet[order[x]].dir # feet[order[Of(start)]].dir
      <4>1. PICK i \in reps, k \in reps : feet[i].dir # feet[k].dir
        BY Zenon DEF Differ
      <4>2. \E l \in reps : feet[order[x]].dir # feet[l].dir
        BY Zenon, <4>1
      <4> QED
        BY Zenon, <2>14, <4>2
    <3>3. start \in 1..n /\ RepAt(order, feet, start, Of(start))
      BY Zenon, <2>11, <2>12
    <3>4. start # 1
      BY Zenon, <3>2
    <3>5. PICK j \in 1..(n - 1) :
            start = j + 1 /\ feet[order[j + 1]].arc - feet[order[j]].arc > GapFloor
      BY Zenon, <2>12, <3>4
    <3> QED
      BY Zenon, <2>5, <2>7, <3>1, <3>2, <3>3, <3>5, RunsDivide
  <2> HIDE DEF pick
  <2>19. /\ pick \in idx \cup {Nobody, Torn}
         /\ pick = Torn => Divided(near, feet)
    <3>1. \A i \in idx : i # Torn
      BY <2>3 DEF Torn
    <3> QED
      BY Zenon, <2>1, <2>4, <2>17, <2>18, <3>1
  <2>20. pick # Nobody
    <3>1. \A i \in idx : i # Nobody
      BY <2>3 DEF Nobody
    <3>2. Torn # Nobody
      BY DEF Torn, Nobody
    <3> QED
      BY Zenon, <2>1, <2>4, <2>17, <3>1, <3>2
  <2> QED
    BY Zenon, <2>6, <2>19, <2>20 DEF pick
<1> QED
  BY <1>1, <1>2

\* closest_point: an answer is a segment the heading allows; without an arc to
\* start from, a refusal means that there is none, or that the band is divided.
LEMMA SearchSound ==
  ASSUME NEW r \in References, Fits(r), NEW p \in Points, NEW heading,
         NEW sPrev \in Int
  PROVE  LET feet == Feet(r, p)
             ok == Admissible(r, feet, heading)
             answer == ClosestPoint(r, p, heading, sPrev)
         IN  /\ answer.arc \in Int
             /\ answer.stage # 3 => answer.seg \in ok
             /\ answer.stage = 3 /\ sPrev = NoArc
                  => ok = {} \/ Divided(BandOf(ok, feet), feet)
PROOF
<1> DEFINE m == Len(r.pt) - 1
           feet == Feet(r, p)
           ok == Admissible(r, feet, heading)
           answer == ClosestPoint(r, p, heading, sPrev)
           Within(back, fwd) == InWindow(r, sPrev, back, fwd) \cap ok
           Windowed(back, fwd) == IF sPrev = NoArc THEN Nobody
                                  ELSE Pick(Within(back, fwd), feet, sPrev)
           Near(i) == i > 0 /\ feet[i].dist2 <= Square(ReacquireM)
           narrow == Windowed(BackM, FwdM)
           wide == Windowed(WideM, WideM)
           anywhere == Pick(ok, feet, sPrev)
<1>1. m \in Nat /\ FeetKnown(feet, m)
  <2>1. Len(r.pt) \in Nat \ {0}
    BY RouteType DEF References
  <2> QED
    BY <2>1, FeetType
<1>2. ok \in SUBSET (1..m)
  BY DEF Admissible, SegmentsOf
<1>3. answer = IF Near(narrow) THEN Answer(feet, narrow, 0)
               ELSE IF Near(wide) THEN Answer(feet, wide, 1)
               ELSE IF anywhere > 0 THEN Answer(feet, anywhere, 2)
               ELSE Refused(sPrev)
  BY Zenon DEF ClosestPoint
<1> HIDE DEF feet, ok, answer
<1>4. ASSUME NEW back, NEW fwd
      PROVE  Windowed(back, fwd) \in ok \cup {Nobody, Torn}
  <2>1. Within(back, fwd) \in SUBSET (1..m) /\ Within(back, fwd) \subseteq ok
    BY Zenon, <1>2
  <2> HIDE DEF Within
  <2>2. Pick(Within(back, fwd), feet, sPrev) \in Within(back, fwd) \cup {Nobody, Torn}
    BY Zenon, <1>1, <2>1, PickSound
  <2> QED
    BY Zenon, <2>1, <2>2
<1>5. /\ anywhere \in ok \cup {Nobody, Torn}
      /\ anywhere = Nobody => ok = {}
      /\ anywhere = Torn => Divided(BandOf(ok, feet), feet)
  BY Zenon, <1>1, <1>2, PickSound
<1> HIDE DEF Windowed, anywhere
<1>6. \A i : i \in ok \cup {Nobody, Torn} /\ i > 0 => i \in ok
  BY DEF Nobody, Torn
<1>7. \A i \in ok : i > 0 /\ feet[i].arc \in Int
  <2>1. \A i \in ok : i \in 1..m /\ i > 0
    BY <1>2
  <2> QED
    BY Zenon, <1>1, <2>1 DEF FeetKnown
<1>8. \A i, k : /\ Answer(feet, i, k).stage = k /\ Answer(feet, i, k).seg = i
                /\ Answer(feet, i, k).arc = feet[i].arc
  BY DEF Answer
<1>9. Refused(sPrev).stage = 3 /\ Refused(sPrev).arc \in Int
  BY DEF Refused
<1>10. \/ \E i \in ok, k \in {0, 1, 2} : answer = Answer(feet, i, k)
       \/ answer = Refused(sPrev) /\ ~(anywhere > 0)
  BY Zenon, <1>3, <1>4, <1>5, <1>6
<1>11. CASE \E i \in ok, k \in {0, 1, 2} : answer = Answer(feet, i, k)
  <2>1. PICK i \in ok, k \in {0, 1, 2} : answer = Answer(feet, i, k)
    BY Zenon, <1>11
  <2>2. k # 3
    OBVIOUS
  <2>3. answer.stage = k /\ answer.seg = i /\ answer.arc = feet[i].arc
    BY Zenon, <1>8, <2>1
  <2>4. answer.stage # 3
    BY <2>2, <2>3
  <2> QED
    BY Zenon, <1>7, <2>3, <2>4 DEF answer, ok, feet
<1>12. CASE answer = Refused(sPrev) /\ ~(anywhere > 0)
  <2>1. answer.stage = 3 /\ answer.arc \in Int
    BY Zenon, <1>9, <1>12
  <2>2. ok = {} \/ Divided(BandOf(ok, feet), feet)
    <3>1. anywhere \notin ok
      BY Zenon, <1>7, <1>12
    <3> QED
      BY Zenon, <1>5, <3>1
  <2> QED
    BY Zenon, <2>1, <2>2 DEF answer, ok, feet
<1> QED
  BY Zenon, <1>10, <1>11, <1>12

\* Until a projection is asked for, nothing is found; what was found has an arc
\* the next projection may start from.
FoundInv ==
    /\ pose \in Points /\ found.arc \in Int
    /\ phase \notin {"seeded", "followed"} => found.stage = 3
    /\ AnswersAreJustified

LEMMA FoundInvInit ==
  TrackInit => FoundInv
PROOF
<1> SUFFICES ASSUME TrackInit
             PROVE  FoundInv
  OBVIOUS
<1>1. pose \in Points
  <2>1. 0 \in Int
    OBVIOUS
  <2> QED
    BY Zenon, <2>1 DEF TrackInit, Points
<1>2. found.arc \in Int /\ found.stage = 3
  <2>1. NothingFound.arc = 0 /\ NothingFound.stage = 3
    BY DEF NothingFound
  <2> QED
    BY <2>1 DEF TrackInit
<1>3. phase # "seeded"
  BY DEF TrackInit, RefInit, FromWaypoints, FromRows, FromScenario, FromTrack,
         FromElsewhere
<1> QED
  BY Zenon, <1>1, <1>2, <1>3 DEF FoundInv, AnswersAreJustified, RefusalNeedsTie,
                                HeadingIsRespected

\* The band of admissible feet is divided: what Tie says of two lanes a gap of
\* arcs apart.
LanesDivided ==
    LET feet == Feet(ref, pose)
    IN  Divided(BandOf(Admissible(ref, feet, yaw), feet), feet)

LEMMA DividedIsTie ==
  LanesDivided => Tie(GapFloor, FALSE)
PROOF
<1> SUFFICES ASSUME LanesDivided
             PROVE  Tie(GapFloor, FALSE)
  BY Zenon
<1> DEFINE feet == Feet(ref, pose)
           band == Band(feet)
<1>1. Divided(band, feet)
  BY DEF LanesDivided, BandOf, Band
<1>2. (\E i, k \in band :
         /\ \A l \in band : feet[i].dist2 <= feet[l].dist2
         /\ feet[i].dir # feet[k].dir
         /\ \E a \in band :
             /\ Least(feet[i].arc, feet[k].arc) <= feet[a].arc
             /\ feet[a].arc < Most(feet[i].arc, feet[k].arc)
             /\ \A l \in band : feet[l].arc <= feet[a].arc
                                \/ feet[l].arc > feet[a].arc + GapFloor)
      => Tie(GapFloor, FALSE)
  BY Zenon DEF Tie
<1> HIDE DEF feet, band
<1> QED
  BY Zenon, <1>1, <1>2 DEF Divided

\* A projection onto the reference as it is, with or without an arc.
LEMMA FoundByProjection ==
  ASSUME RefTypeInv, UNCHANGED ref, pose' \in Points, phase' \in {"seeded", "followed"},
         NEW sPrev \in Int, found' = ClosestPoint(ref, pose', yaw', sPrev),
         phase' = "seeded" => sPrev = NoArc
  PROVE  FoundInv'
PROOF
<1> DEFINE feet == Feet(ref', pose')
           ok == Admissible(ref', feet, yaw')
<1>1. ref' \in References /\ Fits(ref')
  BY DEF RefTypeInv
<1>2. found' = ClosestPoint(ref', pose', yaw', sPrev)
  OBVIOUS
<1>3. /\ found'.arc \in Int
      /\ found'.stage # 3 => found'.seg \in ok
      /\ found'.stage = 3 /\ sPrev = NoArc
           => ok = {} \/ Divided(BandOf(ok, feet), feet)
  BY Zenon, <1>1, <1>2, SearchSound
<1>4. HeadingIsRespected'
  BY Zenon, <1>3 DEF HeadingIsRespected
<1>5. RefusalNeedsTie'
  <2>1. LanesDivided' => Tie(GapFloor, FALSE)'
    BY DividedIsTie, PTL
  <2>2. phase' = "seeded" /\ found'.stage = 3 => ok = {} \/ LanesDivided'
    BY Zenon, <1>3 DEF LanesDivided
  <2> QED
    BY Zenon, <2>1, <2>2 DEF RefusalNeedsTie
<1> QED
  BY Zenon, <1>3, <1>4, <1>5 DEF FoundInv, AnswersAreJustified

LEMMA FoundInvNext ==
  RefTypeInv /\ EntryInv /\ PreparedInv /\ FoundInv /\ [TrackNext]_<<refVars, trackVars>>
     => FoundInv'
PROOF
<1> SUFFICES ASSUME RefTypeInv, EntryInv, PreparedInv, FoundInv,
                    [TrackNext]_<<refVars, trackVars>>
             PROVE  FoundInv'
  OBVIOUS
<1>1. CASE Prepare
  <2>1. UNCHANGED <<pose, yaw, at, found>>
    BY Zenon, <1>1 DEF Prepare, trackVars
  <2>2. phase \notin {"seeded", "followed"} /\ phase' # "seeded"
    BY <1>1 DEF Prepare, RefNext, Resample, ServeTrack, ServeFile, Complete, Shape,
                Judge, Improve
  <2>3. found'.stage = 3 /\ found'.arc \in Int /\ pose' \in Points
    BY Zenon, <2>1, <2>2 DEF FoundInv
  <2> QED
    BY Zenon, <2>2, <2>3 DEF FoundInv, AnswersAreJustified, RefusalNeedsTie,
                             HeadingIsRespected
<1>2. ASSUME NEW p \in SeedPoses, NEW heading \in SeedYaws, Seed(p, heading)
      PROVE  FoundInv'
  <2>1. /\ UNCHANGED ref /\ pose' = p /\ phase' = "seeded" /\ yaw' = heading
        /\ found' = ClosestPoint(ref, p, heading, NoArc)
    BY Zenon, <1>2 DEF Seed
  <2>2. p \in Points
    BY Zenon, TrackingAssumption DEF Points
  <2>3. NoArc \in Int
    BY DEF NoArc
  <2>4. phase' \in {"seeded", "followed"}
    BY Zenon, <2>1
  <2> QED
    BY Zenon, <2>1, <2>2, <2>3, <2>4, FoundByProjection
<1>3. ASSUME NEW k \in Indices(ref), NEW offset \in Offsets, NEW slant \in Slants,
             Follow(k, offset, slant)
      PROVE  FoundInv'
  <2> DEFINE sPrev == IF at = 0 \/ found.stage = 3 THEN NoArc ELSE found.arc
  <2>1. /\ UNCHANGED ref /\ pose' = Beside(ref, k, offset) /\ phase' = "followed"
        /\ found' = ClosestPoint(ref, pose', yaw', sPrev) /\ Straight(ref, k)
    BY Zenon, <1>3 DEF Follow
  <2>2. sPrev \in Int
    <3>1. NoArc \in Int
      BY DEF NoArc
    <3> QED
      BY Zenon, <3>1 DEF FoundInv
  <2>3. pose' \in Points
    <3> DEFINE n == Len(ref.pt)
               u == Tangents(ref)[k]
               o == offset
    <3>1. n \in Nat \ {0} /\ ref.pt \in [1..n -> Points]
      BY Parts, RouteType DEF RefTypeInv
    <3>2. k \in 1..(n - 1) /\ k \in 1..n
      BY <2>1, <3>1 DEF Straight
    <3>3. u \in Points /\ ref.pt[k] \in Points
      BY <3>1, <3>2, TangentType
    <3>4. u[1] \in Int /\ u[2] \in Int /\ ref.pt[k][1] \in Int /\ ref.pt[k][2] \in Int
      BY <3>3 DEF Points
    <3>5. o \in Int
      BY Zenon, TrackingAssumption
    <3>6. \A x, y, z \in Int : x - y * z \in Int /\ x + y * z \in Int
      OBVIOUS
    <3>7. ref.pt[k][1] - o * u[2] \in Int /\ ref.pt[k][2] + o * u[1] \in Int
      BY Zenon, <3>4, <3>5, <3>6
    <3>8. pose' = <<ref.pt[k][1] - o * u[2], ref.pt[k][2] + o * u[1]>>
      BY Zenon, <2>1 DEF Beside
    <3> QED
      BY Zenon, <3>7, <3>8 DEF Points
  <2>4. phase' \in {"seeded", "followed"} /\ phase' # "seeded"
    BY <2>1
  <2> HIDE DEF sPrev
  <2> QED
    BY Zenon, <2>1, <2>2, <2>3, <2>4, FoundByProjection
<1>4. CASE UNCHANGED <<refVars, trackVars>>
  <2>1. UNCHANGED <<recipe, phase, ref, verdict, pose, yaw, at, found>>
    BY <1>4 DEF refVars, trackVars
  <2>2. AnswersAreJustified' <=> AnswersAreJustified
    BY <2>1 DEF AnswersAreJustified, RefusalNeedsTie, HeadingIsRespected, Tie, Band
  <2> QED
    BY Zenon, <2>1, <2>2 DEF FoundInv
<1> QED
  BY Zenon, <1>1, <1>2, <1>3, <1>4 DEF TrackNext

\* AnswersAreJustified: closest_point never answers with a piece of path that
\* the heading gate rules out, whatever the window, and without s_prev returns
\* stage 3 only when the gate leaves nothing or two lanes that lead different
\* ways, a gap of arcs apart, tie for the nearest.
THEOREM SearchIsJustified == TrackSpec => []AnswersAreJustified
PROOF
<1>1. FoundInv => AnswersAreJustified
  BY DEF FoundInv
<1> QED
  BY <1>1, FoundInvInit, FoundInvNext, ReferenceTypeInvariance, EntryInvariance,
     PreparedInvariance, PTL DEF TrackSpec
-----------------------------------------------------------------------------
(***************************************************************************)
(* Where a robot beside the path stands to the rest of the mesh.           *)
(***************************************************************************)

LEMMA SquareOrder ==
  ASSUME NEW a \in Int, NEW b \in Int
  PROVE  /\ a * a \in Nat /\ (a # 0 => a * a > 0)
         /\ a * a <= b * b => Size(a) <= Size(b)
         /\ a * a < b * b => Size(a) < Size(b)
PROOF
<1>1. ASSUME NEW x \in Nat, NEW y \in Nat
      PROVE  /\ x * x <= y * y => x <= y
             /\ x * x < y * y => x < y
  <2>1. ASSUME x > y
        PROVE  x * x > y * y
    <3>1. x * x >= x * y /\ x * y >= y * y
      BY <2>1
    <3>2. x * x > x * y
      <4>1. x * (x - y) > 0
        BY <2>1
      <4> QED
        BY <4>1
    <3> QED
      BY <3>1, <3>2
  <2>2. x = y => x * x = y * y
    OBVIOUS
  <2>3. x * x \in Nat /\ y * y \in Nat
    OBVIOUS
  <2> QED
    BY <2>1, <2>2, <2>3
<1>2. \A x \in Int : Size(x) \in Nat /\ Size(x) * Size(x) = x * x
  BY DEF Size
<1>3. a * a \in Nat /\ (a # 0 => a * a > 0)
  <2>1. CASE a >= 1
    <3>1. a * a >= a
      BY <2>1
    <3> QED
      BY <2>1, <3>1
  <2>2. CASE a = 0
    BY <2>2
  <2>3. CASE a <= -1
    <3>1. (-a) * (-a) >= -a /\ a * a = (-a) * (-a)
      BY <2>3
    <3> QED
      BY <2>3, <3>1
  <2> QED
    BY <2>1, <2>2, <2>3
<1> DEFINE x == Size(a)
           y == Size(b)
<1>4. x \in Nat /\ y \in Nat /\ x * x = a * a /\ y * y = b * b
  BY <1>2
<1> HIDE DEF x, y
<1>5. (x * x <= y * y => x <= y) /\ (x * x < y * y => x < y)
  BY <1>1, <1>4
<1> QED
  BY <1>3, <1>4, <1>5 DEF x, y

\* No point of the mesh lines is nearer to a robot o to the side of a point of
\* the mesh than that point, but those of the line that leads there.
LEMMA NearestOfMesh ==
  ASSUME NEW o \in Int, 2 * Size(o) <= Ds, NEW x \in Int, NEW y \in Int,
         Multiple(x) \/ Multiple(y)
  PROVE  LET d2 == x * x + (y - o) * (y - o) IN
         /\ d2 <= o * o => x = 0 /\ -Ds <= y /\ y <= Ds
         /\ d2 < o * o => x = 0 /\ y # 0 /\ -Ds < y /\ y < Ds
PROOF
<1>1. Ds \in Nat \ {0}
  BY ReferenceAssumption
<1> DEFINE e == y - o
           xx == x * x
           ee == e * e
           oo == o * o
<1>2. /\ e \in Int /\ xx \in Nat /\ ee \in Nat /\ oo \in Nat
      /\ x # 0 => xx > 0
      /\ xx <= oo => Size(x) <= Size(o)
      /\ ee <= oo => Size(e) <= Size(o)
      /\ ee < oo => Size(e) < Size(o)
  BY SquareOrder
<1>3. \A z \in Int : Size(z) = IF z < 0 THEN -z ELSE z
  BY DEF Size
<1> HIDE DEF e, xx, ee, oo
<1>4. ASSUME x # 0
      PROVE  ~(xx + ee <= oo)
  <2>1. SUFFICES ASSUME xx + ee <= oo
                 PROVE  FALSE
    OBVIOUS
  <2>2. xx <= oo /\ ee < oo
    BY <1>2, <1>4, <2>1
  <2>3. Size(x) <= Size(o) /\ Size(e) < Size(o)
    BY <1>2, <2>2
  <2>4. CASE Multiple(x)
    <3>1. x >= Ds \/ x <= -Ds
      BY <1>4, <2>4, OneSampleAtLeast
    <3> QED
      BY <1>1, <1>3, <2>3, <3>1
  <2>5. CASE Multiple(y)
    <3>1. y # 0 /\ -Ds < y /\ y < Ds
      BY <1>1, <1>2, <1>3, <2>3 DEF e
    <3>2. (y > 0 => y >= Ds) /\ (y < 0 => y <= -Ds)
      BY <2>5, OneSampleAtLeast
    <3> QED
      BY <1>1, <3>1, <3>2
  <2> QED
    BY <2>4, <2>5
<1>5. ASSUME x = 0, xx + ee <= oo
      PROVE  -Ds <= y /\ y <= Ds
  <2>1. Size(e) <= Size(o)
    BY <1>2, <1>5
  <2> QED
    BY <1>1, <1>2, <1>3, <2>1 DEF e
<1>6. ASSUME x = 0, xx + ee < oo
      PROVE  y # 0 /\ -Ds < y /\ y < Ds
  <2>1. Size(e) < Size(o)
    BY <1>2, <1>6
  <2> QED
    BY <1>1, <1>2, <1>3, <2>1 DEF e
<1>7. xx + ee < oo => xx + ee <= oo
  BY <1>2
<1>8. /\ xx + ee <= oo => x = 0 /\ -Ds <= y /\ y <= Ds
      /\ xx + ee < oo => x = 0 /\ y # 0 /\ -Ds < y /\ y < Ds
  BY <1>4, <1>5, <1>6, <1>7
<1> QED
  BY <1>8 DEF xx, ee, oo, e

Amid(a, b, x) == (a <= x /\ x <= b) \/ (b <= x /\ x <= a)

Lies(a, b, q) == Chord(a, q) + Chord(q, b) = Chord(a, b)

LEMMA LiesAmid ==
  ASSUME NEW a \in Points, NEW b \in Points, NEW q \in Points
  PROVE  Lies(a, b, q) <=> Amid(a[1], b[1], q[1]) /\ Amid(a[2], b[2], q[2])
PROOF
<1>1. /\ a[1] \in Int /\ a[2] \in Int /\ b[1] \in Int /\ b[2] \in Int
      /\ q[1] \in Int /\ q[2] \in Int
  BY DEF Points
<1>2. ASSUME NEW x \in Int, NEW y \in Int, NEW z \in Int
      PROVE  /\ Size(x - z) + Size(z - y) >= Size(x - y)
             /\ Size(x - z) + Size(z - y) = Size(x - y) <=> Amid(x, y, z)
             /\ Size(x - z) \in Int /\ Size(z - y) \in Int /\ Size(x - y) \in Int
  BY DEF Size, Amid
<1> DEFINE r1 == Size(a[1] - q[1]) + Size(q[1] - b[1])
           r2 == Size(a[2] - q[2]) + Size(q[2] - b[2])
           s1 == Size(a[1] - b[1])
           s2 == Size(a[2] - b[2])
<1>3. /\ r1 \in Int /\ s1 \in Int /\ r1 >= s1
      /\ r1 = s1 <=> Amid(a[1], b[1], q[1])
  <2> DEFINE x == a[1]
             y == b[1]
             z == q[1]
  <2>1. x \in Int /\ y \in Int /\ z \in Int
    BY <1>1
  <2>2. r1 = Size(x - z) + Size(z - y) /\ s1 = Size(x - y)
    OBVIOUS
  <2> HIDE DEF x, y, z, r1, s1
  <2>3. /\ Size(x - z) + Size(z - y) >= Size(x - y)
        /\ Size(x - z) + Size(z - y) = Size(x - y) <=> Amid(x, y, z)
        /\ Size(x - z) \in Int /\ Size(z - y) \in Int /\ Size(x - y) \in Int
    BY Zenon, <1>2, <2>1
  <2>4. r1 \in Int /\ s1 \in Int /\ r1 >= s1 /\ (r1 = s1 <=> Amid(x, y, z))
    BY <2>2, <2>3
  <2> QED
    BY <2>4 DEF x, y, z
<1>4. /\ r2 \in Int /\ s2 \in Int /\ r2 >= s2
      /\ r2 = s2 <=> Amid(a[2], b[2], q[2])
  <2> DEFINE x == a[2]
             y == b[2]
             z == q[2]
  <2>1. x \in Int /\ y \in Int /\ z \in Int
    BY <1>1
  <2>2. r2 = Size(x - z) + Size(z - y) /\ s2 = Size(x - y)
    OBVIOUS
  <2> HIDE DEF x, y, z, r2, s2
  <2>3. /\ Size(x - z) + Size(z - y) >= Size(x - y)
        /\ Size(x - z) + Size(z - y) = Size(x - y) <=> Amid(x, y, z)
        /\ Size(x - z) \in Int /\ Size(z - y) \in Int /\ Size(x - y) \in Int
    BY Zenon, <1>2, <2>1
  <2>4. r2 \in Int /\ s2 \in Int /\ r2 >= s2 /\ (r2 = s2 <=> Amid(x, y, z))
    BY <2>2, <2>3
  <2> QED
    BY <2>4 DEF x, y, z
<1>5. /\ Chord(a, b) = s1 + s2
      /\ Chord(a, q) + Chord(q, b) = r1 + r2
  <2>1. /\ Size(a[1] - q[1]) \in Int /\ Size(q[1] - b[1]) \in Int
        /\ Size(a[2] - q[2]) \in Int /\ Size(q[2] - b[2]) \in Int
    BY <1>1, <1>2
  <2> QED
    BY <2>1 DEF Chord
<1> HIDE DEF r1, r2, s1, s2
<1>6. Lies(a, b, q) <=> r1 = s1 /\ r2 = s2
  BY <1>3, <1>4, <1>5 DEF Lies
<1> QED
  BY <1>3, <1>4, <1>6

\* A point of a leg of the mesh.
OfLeg(ax, ay, bx, by, x, y) ==
    /\ ax \in Int /\ ay \in Int /\ bx \in Int /\ by \in Int /\ x \in Int /\ y \in Int
    /\ Multiple(ax) /\ Multiple(ay) /\ Multiple(bx) /\ Multiple(by)
    /\ ax = bx \/ ay = by
    /\ Amid(ax, bx, x) /\ Amid(ay, by, y)

\* A leg of the mesh that has a point of that line within a sample.
LEMMA LegHolds ==
  ASSUME NEW ax, NEW ay, NEW bx, NEW by, NEW y, OfLeg(ax, ay, bx, by, 0, y)
  PROVE  /\ -Ds <= y /\ y <= Ds => \E d \in {-Ds, 0, Ds} : Amid(ay, by, d)
         /\ ax = bx /\ y # 0 /\ -Ds < y /\ y < Ds
              => Amid(ay, by, 0) /\ \E d \in {-Ds, Ds} : Amid(ay, by, d)
         /\ ay = by => Multiple(y)
PROOF
<1>0. /\ ay \in Int /\ by \in Int /\ y \in Int /\ Amid(ay, by, y)
      /\ Multiple(ay) /\ Multiple(by)
  BY DEF OfLeg
<1>1. Ds \in Nat \ {0}
  BY ReferenceAssumption
<1>2. /\ (ay > 0 => ay >= Ds) /\ (ay < 0 => ay <= -Ds)
      /\ (by > 0 => by >= Ds) /\ (by < 0 => by <= -Ds)
  BY <1>0, OneSampleAtLeast
<1>3. ay = by => y = ay
  BY <1>0 DEF Amid
<1>4. ay = by => Multiple(y)
  BY <1>0, <1>3
<1>5. CASE y = 0
  BY <1>0, <1>4, <1>5
<1>6. CASE y > 0
  <2>1. y <= Ds => Amid(ay, by, Ds)
    BY <1>0, <1>1, <1>2, <1>6 DEF Amid
  <2>2. y < Ds => Amid(ay, by, 0)
    BY <1>0, <1>1, <1>2, <1>6 DEF Amid
  <2>3. y < Ds => y <= Ds
    BY <1>0, <1>1
  <2> QED
    BY <1>4, <2>1, <2>2, <2>3
<1>7. CASE y < 0
  <2>1. -Ds <= y => Amid(ay, by, -Ds)
    BY <1>0, <1>1, <1>2, <1>7 DEF Amid
  <2>2. -Ds < y => Amid(ay, by, 0)
    BY <1>0, <1>1, <1>2, <1>7 DEF Amid
  <2>3. -Ds < y => -Ds <= y
    BY <1>0, <1>1
  <2> QED
    BY <1>4, <2>1, <2>2, <2>3
<1> QED
  BY <1>0, <1>5, <1>6, <1>7

Parallel(p, q) == p[1] = q[1] \/ p[2] = q[2]

Distance2(p, q) == Square(p[1] - q[1]) + Square(p[2] - q[2])

\* A leg with a point as near to the robot as the path reaches the line across
\* it, and one with a nearer point leads out along that line.
LEMMA LegRivals ==
  ASSUME NEW ax, NEW ay, NEW bx, NEW by, NEW x, NEW y,
         OfLeg(ax, ay, bx, by, x, y), NEW o \in Int, 2 * Size(o) <= Ds
  PROVE  LET d2 == x * x + (y - o) * (y - o) IN
         /\ d2 <= o * o
              => Amid(ax, bx, 0) /\ \E d \in {-Ds, 0, Ds} : Amid(ay, by, d)
         /\ d2 < o * o
              => /\ Amid(ax, bx, 0) /\ Amid(ay, by, 0)
                 /\ \E d \in {-Ds, Ds} : Amid(ay, by, d)
PROOF
<1> DEFINE d2 == x * x + (y - o) * (y - o)
<1>0. /\ ax \in Int /\ ay \in Int /\ bx \in Int /\ by \in Int /\ x \in Int /\ y \in Int
      /\ Multiple(ax) /\ Multiple(ay) /\ Amid(ax, bx, x) /\ Amid(ay, by, y)
      /\ ax = bx \/ ay = by
  BY DEF OfLeg
<1>1. Multiple(x) \/ Multiple(y)
  <2>1. ax = bx => x = ax
    BY <1>0 DEF Amid
  <2>2. ay = by => y = ay
    BY <1>0 DEF Amid
  <2> QED
    BY <1>0, <2>1, <2>2
<1>2. /\ d2 <= o * o => x = 0 /\ -Ds <= y /\ y <= Ds
      /\ d2 < o * o => x = 0 /\ y # 0 /\ -Ds < y /\ y < Ds
  BY <1>0, <1>1, NearestOfMesh
<1> HIDE DEF d2
<1>3. ASSUME d2 <= o * o
      PROVE  Amid(ax, bx, 0) /\ \E d \in {-Ds, 0, Ds} : Amid(ay, by, d)
  <2>1. x = 0 /\ -Ds <= y /\ y <= Ds
    BY <1>2, <1>3
  <2>2. Amid(ax, bx, 0) /\ OfLeg(ax, ay, bx, by, 0, y)
    BY <1>0, <2>1
  <2>3. -Ds <= y /\ y <= Ds => \E d \in {-Ds, 0, Ds} : Amid(ay, by, d)
    BY <2>2, LegHolds
  <2> QED
    BY <2>1, <2>2, <2>3
<1>4. ASSUME d2 < o * o
      PROVE  /\ Amid(ax, bx, 0) /\ Amid(ay, by, 0)
             /\ \E d \in {-Ds, Ds} : Amid(ay, by, d)
  <2>1. x = 0 /\ y # 0 /\ -Ds < y /\ y < Ds
    BY <1>2, <1>4
  <2>2. Amid(ax, bx, 0) /\ OfLeg(ax, ay, bx, by, 0, y)
    BY <1>0, <2>1
  <2>3. /\ ax = bx => Amid(ay, by, 0) /\ \E d \in {-Ds, Ds} : Amid(ay, by, d)
        /\ ay = by => Multiple(y)
    BY <2>1, <2>2, LegHolds
  <2>4. ~Multiple(y)
    <3>1. Ds \in Nat
      BY ReferenceAssumption
    <3>2. Multiple(y) => (y > 0 => y >= Ds) /\ (y < 0 => y <= -Ds)
      BY <1>0, OneSampleAtLeast
    <3> QED
      BY <1>0, <2>1, <3>1, <3>2
  <2> QED
    BY <1>0, <2>2, <2>3, <2>4
<1> QED
  BY <1>3, <1>4 DEF d2

\* The point d to the left of c.
Off(c, u, d) == <<c[1] - d * u[2], c[2] + d * u[1]>>

LEMMA Scaled ==
  ASSUME NEW s \in {-1, 1}, NEW d \in Int
  PROVE  /\ d * s \in Int /\ d * 0 = 0 /\ (d * s) * s = d /\ Size(d * s) = Size(d)
         /\ (d * s) * (d * s) = d * d
         /\ d \in {-Ds, Ds} => d * s \in {-Ds, Ds}
         /\ d \in {-Ds, 0, Ds} => d * s \in {-Ds, 0, Ds}
PROOF
<1>1. Ds \in Int
  BY ReferenceAssumption
<1>2. CASE s = 1
  BY <1>1, <1>2 DEF Size
<1>3. CASE s = -1
  <2>1. d * s = -d /\ d * 0 = 0 /\ (d * s) * s = d
    BY <1>3
  <2>2. (-d) * (-d) = d * d
    OBVIOUS
  <2>3. Size(-d) = Size(d)
    BY DEF Size
  <2> QED
    BY <1>1, <2>1, <2>2, <2>3
<1> QED
  BY <1>2, <1>3

\* The same of points, whichever way the path runs.
LEMMA RivalNearby ==
  ASSUME NEW c \in Points, NEW a \in Points, NEW b \in Points, NEW f \in Points,
         NEW u \in Units, Aligned(a, c), Aligned(b, c), Parallel(a, b),
         Lies(a, b, f), NEW o \in Int, 2 * Size(o) <= Ds
  PROVE  LET d2 == Distance2(Off(c, u, o), f) IN
         /\ d2 <= Square(o) => \E d \in {-Ds, 0, Ds} : Lies(a, b, Off(c, u, d))
         /\ d2 < Square(o)
              => \E d \in {-Ds, Ds} : Lies(a, b, c) /\ Lies(a, b, Off(c, u, d))
PROOF
<1> DEFINE ax == a[1] - c[1]
           ay == a[2] - c[2]
           bx == b[1] - c[1]
           by == b[2] - c[2]
           x == f[1] - c[1]
           y == f[2] - c[2]
           Q(d) == Off(c, u, d)
           near == Distance2(Q(o), f)
<1>1. /\ a[1] \in Int /\ a[2] \in Int /\ b[1] \in Int /\ b[2] \in Int
      /\ c[1] \in Int /\ c[2] \in Int /\ f[1] \in Int /\ f[2] \in Int
      /\ c = <<c[1], c[2]>>
  BY DEF Points
<1>2. Ds \in Nat \ {0}
  BY ReferenceAssumption
<1>3. /\ ax \in Int /\ ay \in Int /\ bx \in Int /\ by \in Int /\ x \in Int /\ y \in Int
      /\ ax = bx \/ ay = by
  BY <1>1 DEF Parallel
<1>4. Multiple(ax) /\ Multiple(ay) /\ Multiple(bx) /\ Multiple(by)
  BY DEF Aligned
<1>5. Amid(a[1], b[1], f[1]) /\ Amid(a[2], b[2], f[2])
  BY LiesAmid
<1>6. Amid(ax, bx, x) /\ Amid(ay, by, y)
  BY <1>1, <1>5 DEF Amid
<1>7. ASSUME NEW dx \in Int, NEW dy \in Int
      PROVE  Lies(a, b, <<c[1] + dx, c[2] + dy>>) <=> Amid(ax, bx, dx) /\ Amid(ay, by, dy)
  <2> DEFINE q == <<c[1] + dx, c[2] + dy>>
  <2>1. q \in Points /\ q[1] = c[1] + dx /\ q[2] = c[2] + dy
    BY <1>1 DEF Points
  <2> HIDE DEF q
  <2>2. Lies(a, b, q) <=> Amid(a[1], b[1], q[1]) /\ Amid(a[2], b[2], q[2])
    BY <2>1, LiesAmid
  <2>3. Amid(a[1], b[1], q[1]) <=> Amid(ax, bx, dx)
    BY <1>1, <2>1 DEF Amid
  <2>4. Amid(a[2], b[2], q[2]) <=> Amid(ay, by, dy)
    BY <1>1, <2>1 DEF Amid
  <2> QED
    BY <2>2, <2>3, <2>4 DEF q
<1>8. Lies(a, b, c) <=> Amid(ax, bx, 0) /\ Amid(ay, by, 0)
  <2>1. <<c[1] + 0, c[2] + 0>> = c
    BY <1>1
  <2>2. 0 \in Int
    OBVIOUS
  <2> QED
    BY Zenon, <1>7, <2>1, <2>2
<1>9. \A d \in {-Ds, 0, Ds} : d \in Int
  BY <1>2
<1>10. \A d \in {-Ds, Ds} : d \in Int
  BY <1>2
<1>11. \A v, w \in Int : Square(v) = v * v /\ (v - w) * (v - w) = (w - v) * (w - v)
  BY DEF Square
<1> HIDE DEF ax, ay, bx, by
<1>12. ASSUME NEW s \in {-1, 1}, u = <<s, 0>>
       PROVE  /\ near <= Square(o) => \E d \in {-Ds, 0, Ds} : Lies(a, b, Q(d))
              /\ near < Square(o) => \E d \in {-Ds, Ds} : Lies(a, b, c) /\ Lies(a, b, Q(d))
  <2> DEFINE e == o * s
             d2 == x * x + (y - e) * (y - e)
  <2>1. e \in Int /\ 2 * Size(e) <= Ds /\ e * e = o * o
    BY Scaled
  <2>2. \A d \in Int : Q(d) = <<c[1] + 0, c[2] + d * s>> /\ d * s \in Int
    BY <1>1, <1>12 DEF Off
  <2>3. near = d2
    <3>1. Q(o)[1] = c[1] + 0 /\ Q(o)[2] = c[2] + e
      BY <2>2
    <3>2. (c[1] + 0) - f[1] = -x /\ (c[2] + e) - f[2] = -(y - e)
      BY <1>1, <2>1
    <3>3. \A v \in Int : Square(-v) = v * v
      BY DEF Square
    <3>4. y - e \in Int
      BY <1>3, <2>1
    <3>5. near = Square((c[1] + 0) - f[1]) + Square((c[2] + e) - f[2])
      BY <3>1 DEF Distance2
    <3> HIDE DEF near, x, y, e, d2
    <3>6. Square(-x) = x * x /\ Square(-(y - e)) = (y - e) * (y - e)
      BY Zenon, <1>3, <3>3, <3>4
    <3>7. near = Square(-x) + Square(-(y - e))
      BY Zenon, <3>2, <3>5
    <3> QED
      BY Zenon, <3>6, <3>7 DEF d2
  <2>4. Square(o) = e * e
    BY <2>1 DEF Square
  <2> HIDE DEF near, e, x, y, d2
  <2>5. /\ d2 <= e * e
             => Amid(ax, bx, 0) /\ \E d \in {-Ds, 0, Ds} : Amid(ay, by, d)
        /\ d2 < e * e
             => /\ Amid(ax, bx, 0) /\ Amid(ay, by, 0)
                /\ \E d \in {-Ds, Ds} : Amid(ay, by, d)
    <3>1. OfLeg(ax, ay, bx, by, x, y)
      BY Zenon, <1>3, <1>4, <1>6 DEF OfLeg
    <3> QED
      BY Zenon, <2>1, <3>1, LegRivals DEF d2
  <2>6. ASSUME NEW d \in Int, Amid(ax, bx, 0), Amid(ay, by, d)
        PROVE  Lies(a, b, Q(d * s))
    <3>1. Q(d * s) = <<c[1] + 0, c[2] + d>> /\ 0 \in Int
      BY <2>2, Scaled
    <3> QED
      BY Zenon, <1>7, <2>6, <3>1
  <2> HIDE DEF Q
  <2>7. ASSUME near <= Square(o)
        PROVE  \E d \in {-Ds, 0, Ds} : Lies(a, b, Q(d))
    <3>1. Amid(ax, bx, 0) /\ \E d \in {-Ds, 0, Ds} : Amid(ay, by, d)
      BY <2>3, <2>4, <2>5, <2>7
    <3>2. PICK d \in {-Ds, 0, Ds} : Amid(ay, by, d)
      BY <3>1
    <3>3. d \in Int
      BY <1>9
    <3>4. d * s \in {-Ds, 0, Ds}
      BY <3>3, Scaled
    <3>5. Lies(a, b, Q(d * s))
      BY <2>6, <3>1, <3>2, <3>3
    <3> QED
      BY Zenon, <3>4, <3>5
  <2>8. ASSUME near < Square(o)
        PROVE  \E d \in {-Ds, Ds} : Lies(a, b, c) /\ Lies(a, b, Q(d))
    <3>1. /\ Amid(ax, bx, 0) /\ Amid(ay, by, 0)
          /\ \E d \in {-Ds, Ds} : Amid(ay, by, d)
      BY <2>3, <2>4, <2>5, <2>8
    <3>2. PICK d \in {-Ds, Ds} : Amid(ay, by, d)
      BY <3>1
    <3>3. d \in Int
      BY <1>10
    <3>4. d * s \in {-Ds, Ds}
      BY <3>3, Scaled
    <3>5. Lies(a, b, Q(d * s)) /\ Lies(a, b, c)
      BY <1>8, <2>6, <3>1, <3>2, <3>3
    <3> QED
      BY Zenon, <3>4, <3>5
  <2> QED
    BY <2>7, <2>8
<1>13. ASSUME NEW s \in {-1, 1}, u = <<0, s>>
       PROVE  /\ near <= Square(o) => \E d \in {-Ds, 0, Ds} : Lies(a, b, Q(d))
              /\ near < Square(o) => \E d \in {-Ds, Ds} : Lies(a, b, c) /\ Lies(a, b, Q(d))
  <2> DEFINE t == -s
             e == o * t
             d2 == y * y + (x - e) * (x - e)
  <2>0. t \in {-1, 1}
    OBVIOUS
  <2>1. e \in Int /\ 2 * Size(e) <= Ds /\ e * e = o * o
    BY <2>0, Scaled
  <2>2. \A d \in Int : Q(d) = <<c[1] + d * t, c[2] + 0>> /\ d * t \in Int
    BY <1>1, <1>13 DEF Off
  <2> HIDE DEF t
  <2>3. near = d2
    <3>1. Q(o)[1] = c[1] + e /\ Q(o)[2] = c[2] + 0
      BY <2>2
    <3>2. (c[2] + 0) - f[2] = -y /\ (c[1] + e) - f[1] = -(x - e)
      BY <1>1, <2>1
    <3>3. \A v \in Int : Square(-v) = v * v
      BY DEF Square
    <3>4. x - e \in Int
      BY <1>3, <2>1
    <3>5. near = Square((c[1] + e) - f[1]) + Square((c[2] + 0) - f[2])
      BY <3>1 DEF Distance2
    <3> HIDE DEF near, x, y, e, d2
    <3>6. Square(-y) = y * y /\ Square(-(x - e)) = (x - e) * (x - e)
      BY Zenon, <1>3, <3>3, <3>4
    <3>7. y * y \in Int /\ (x - e) * (x - e) \in Int
      BY <1>3, <3>4
    <3>8. near = Square(-(x - e)) + Square(-y)
      BY Zenon, <3>2, <3>5
    <3> QED
      BY <3>6, <3>7, <3>8 DEF d2
  <2>4. Square(o) = e * e
    BY <2>1 DEF Square
  <2> HIDE DEF near, e, x, y, d2
  <2>5. /\ d2 <= e * e
             => Amid(ay, by, 0) /\ \E d \in {-Ds, 0, Ds} : Amid(ax, bx, d)
        /\ d2 < e * e
             => /\ Amid(ay, by, 0) /\ Amid(ax, bx, 0)
                /\ \E d \in {-Ds, Ds} : Amid(ax, bx, d)
    <3>1. OfLeg(ay, ax, by, bx, y, x)
      BY Zenon, <1>3, <1>4, <1>6 DEF OfLeg
    <3> QED
      BY Zenon, <2>1, <3>1, LegRivals DEF d2
  <2>6. ASSUME NEW d \in Int, Amid(ay, by, 0), Amid(ax, bx, d)
        PROVE  Lies(a, b, Q(d * t))
    <3>1. Q(d * t) = <<c[1] + d, c[2] + 0>> /\ 0 \in Int
      BY <2>0, <2>2, Scaled
    <3> QED
      BY Zenon, <1>7, <2>6, <3>1
  <2> HIDE DEF Q
  <2>7. ASSUME near <= Square(o)
        PROVE  \E d \in {-Ds, 0, Ds} : Lies(a, b, Q(d))
    <3>1. Amid(ay, by, 0) /\ \E d \in {-Ds, 0, Ds} : Amid(ax, bx, d)
      BY <2>3, <2>4, <2>5, <2>7
    <3>2. PICK d \in {-Ds, 0, Ds} : Amid(ax, bx, d)
      BY <3>1
    <3>3. d \in Int
      BY <1>9
    <3>4. d * t \in {-Ds, 0, Ds}
      BY <2>0, <3>3, Scaled
    <3>5. Lies(a, b, Q(d * t))
      BY <2>6, <3>1, <3>2, <3>3
    <3> QED
      BY Zenon, <3>4, <3>5
  <2>8. ASSUME near < Square(o)
        PROVE  \E d \in {-Ds, Ds} : Lies(a, b, c) /\ Lies(a, b, Q(d))
    <3>1. /\ Amid(ay, by, 0) /\ Amid(ax, bx, 0)
          /\ \E d \in {-Ds, Ds} : Amid(ax, bx, d)
      BY <2>3, <2>4, <2>5, <2>8
    <3>2. PICK d \in {-Ds, Ds} : Amid(ax, bx, d)
      BY <3>1
    <3>3. d \in Int
      BY <1>10
    <3>4. d * t \in {-Ds, Ds}
      BY <2>0, <3>3, Scaled
    <3>5. Lies(a, b, Q(d * t)) /\ Lies(a, b, c)
      BY <1>8, <2>6, <3>1, <3>2, <3>3
    <3> QED
      BY Zenon, <3>4, <3>5
  <2> QED
    BY <2>7, <2>8
<1>14. \E s \in {-1, 1} : u = <<s, 0>> \/ u = <<0, s>>
  BY DEF Units
<1> QED
  BY <1>12, <1>13, <1>14

-----------------------------------------------------------------------------
(***************************************************************************)
(* The feet of a robot beside the path.                                    *)
(***************************************************************************)

\* A reference on the mesh.
Laid(r) == r \in References /\ Fits(r) /\ r.arc = Arcs(r.pt) /\ Meshed(r.pt)

LEMMA LaidParts ==
  ASSUME NEW r, Laid(r)
  PROVE  /\ Len(r.pt) \in Nat \ {0} /\ r.pt \in [1..Len(r.pt) -> Points]
         /\ r.pt \in Routes /\ r.arc \in [1..Len(r.pt) -> Nat] /\ r.arc[1] = 0
         /\ SegmentsOf(r) = 1..(Len(r.pt) - 1)
         /\ \A i \in SegmentsOf(r) :
               /\ r.pt[i] \in Points /\ r.pt[i + 1] \in Points
               /\ r.arc[i] \in Nat /\ r.arc[i + 1] \in Nat
               /\ r.arc[i + 1] = r.arc[i] + Chord(r.pt[i], r.pt[i + 1])
               /\ Parallel(r.pt[i], r.pt[i + 1])
PROOF
<1> DEFINE n == Len(r.pt)
           pt == r.pt
<1>1. r.pt \in Routes /\ n \in Nat \ {0} /\ pt \in [1..n -> Points]
  BY RouteType DEF Laid, References
<1>2. Arcs(pt) \in [1..n -> Nat] /\ ArcRule(n, pt, Arcs(pt)) /\ r.arc = Arcs(pt)
  BY <1>1, ArcSteps DEF Laid
<1>3. SegmentsOf(r) = 1..(n - 1)
  BY DEF SegmentsOf
<1>4. 1 \in 1..n
  BY <1>1
<1>5. r.arc[1] = 0
  BY <1>2, <1>4 DEF ArcRule
<1> HIDE DEF n, pt
<1>6. ASSUME NEW i \in 1..(n - 1)
      PROVE  /\ pt[i] \in Points /\ pt[i + 1] \in Points
             /\ r.arc[i] \in Nat /\ r.arc[i + 1] \in Nat
             /\ r.arc[i + 1] = r.arc[i] + Chord(pt[i], pt[i + 1])
             /\ Parallel(pt[i], pt[i + 1])
  <2>1. i \in 1..n /\ i + 1 \in 1..n /\ i + 1 # 1 /\ (i + 1) - 1 = i
    BY <1>1
  <2>2. r.arc[i + 1] = r.arc[i] + Chord(pt[i], pt[i + 1])
    BY Zenon, <1>2, <2>1 DEF ArcRule
  <2>3. OnMesh(pt[i], pt[i + 1])
    BY DEF Laid, Meshed, n, pt
  <2> QED
    BY <1>1, <1>2, <2>1, <2>2, <2>3 DEF OnMesh, Parallel
<1> QED
  BY <1>1, <1>2, <1>3, <1>5, <1>6 DEF n, pt

LEMMA ArcsRise ==
  ASSUME NEW r, Laid(r), NEW i \in 1..Len(r.pt), NEW k \in 1..Len(r.pt), i <= k
  PROVE  r.arc[i] <= r.arc[k]
PROOF
<1>1. /\ r.pt \in Routes /\ r.arc = Arcs(r.pt) /\ r.arc \in [1..Len(r.pt) -> Nat]
      /\ r.pt \in [1..Len(r.pt) -> Points]
  BY LaidParts DEF Laid
<1>2. Chord(r.pt[i], r.pt[k]) <= r.arc[k] - r.arc[i]
  BY <1>1, ArcsCover
<1>3. Chord(r.pt[i], r.pt[k]) \in Nat
  BY <1>1, ChordType
<1> QED
  BY <1>1, <1>2, <1>3

\* The foot of a pose on a segment lies on it, and its arc is as far along.
LEMMA FootOf ==
  ASSUME NEW r, Laid(r), NEW p \in Points, NEW i \in SegmentsOf(r)
  PROVE  LET f == Feet(r, p)[i]
             a == r.pt[i]
             u == Tangents(r)[i]
             x == (p[1] - a[1]) * u[1] + (p[2] - a[2]) * u[2]
         IN  /\ f.at \in Points /\ Lies(a, r.pt[i + 1], f.at)
             /\ f.dist2 = Distance2(p, f.at) /\ f.dir = Direction(u[1], u[2])
             /\ f.lat = (p[2] - f.at[2]) * u[1] - (p[1] - f.at[1]) * u[2]
             /\ f.at = Along(a, u, Between(x, 0, Chord(a, r.pt[i + 1])))
             /\ f.arc = r.arc[i] + Between(x, 0, Chord(a, r.pt[i + 1]))
             /\ x \in Int
             /\ ~Degenerate(r, i) =>
                   /\ u \in Units /\ u = Signs(a, r.pt[i + 1])
                   /\ r.pt[i + 1] = Along(a, u, Chord(a, r.pt[i + 1]))
PROOF
<1> DEFINE n == Len(r.pt)
           a == r.pt[i]
           b == r.pt[i + 1]
           u == Tangents(r)[i]
           c == Chord(a, b)
           x == (p[1] - a[1]) * u[1] + (p[2] - a[2]) * u[2]
           along == Between(x, 0, r.arc[i + 1] - r.arc[i])
           foot == <<a[1] + along * u[1], a[2] + along * u[2]>>
           f == Feet(r, p)[i]
<1>1. /\ n \in Nat \ {0} /\ r.pt \in [1..n -> Points] /\ i \in 1..(n - 1)
      /\ a \in Points /\ b \in Points /\ Parallel(a, b)
      /\ r.arc[i] \in Nat /\ r.arc[i + 1] = r.arc[i] + c
  BY LaidParts
<1>2. /\ u \in Points
      /\ ~Degenerate(r, i) => u = Signs(a, b)
  BY <1>1, TangentType
<1>3. /\ f.at = foot /\ f.dist2 = Square(p[1] - foot[1]) + Square(p[2] - foot[2])
      /\ f.lat = (p[2] - foot[2]) * u[1] - (p[1] - foot[1]) * u[2]
      /\ f.dir = Direction(u[1], u[2]) /\ f.arc = r.arc[i] + along
  BY DEF Feet, foot, along
<1>4. Degenerate(r, i) <=> a = b
  BY DEF Degenerate
<1> HIDE DEF n, a, b, u, f
<1>5. /\ u[1] \in Int /\ u[2] \in Int /\ a[1] \in Int /\ a[2] \in Int
      /\ p[1] \in Int /\ p[2] \in Int /\ a = <<a[1], a[2]>>
  BY <1>1, <1>2 DEF Points
<1>6. \A y, z \in Int : y * z \in Int /\ y + z \in Int /\ y - z \in Int
  OBVIOUS
<1>7. x \in Int
  <2>1. p[1] - a[1] \in Int /\ p[2] - a[2] \in Int
    BY Zenon, <1>5, <1>6
  <2>2. (p[1] - a[1]) * u[1] \in Int /\ (p[2] - a[2]) * u[2] \in Int
    BY Zenon, <1>5, <1>6, <2>1
  <2> QED
    BY Zenon, <1>6, <2>2
<1> HIDE DEF x
<1>8. c \in Int /\ r.arc[i + 1] - r.arc[i] = c /\ 0 <= c
  <2>1. c \in Nat
    BY <1>1, ChordType
  <2> HIDE DEF c
  <2> QED
    BY <1>1, <2>1
<1>9. along \in Int /\ 0 <= along /\ along <= c /\ along = Between(x, 0, c)
  <2> HIDE DEF c
  <2> QED
    BY <1>7, <1>8 DEF Between
<1> HIDE DEF along, c
<1>10. foot = Along(a, u, along)
  BY Zenon DEF Along, foot
<1> HIDE DEF foot
<1>11. f.dist2 = Distance2(p, f.at)
  BY Zenon, <1>3 DEF Distance2
<1>12. ~Degenerate(r, i) => u \in Units /\ b = Along(a, u, c)
  BY Zenon, <1>1, <1>2, <1>4, LegUnit DEF c, Parallel
<1>13. foot \in Points /\ Lies(a, b, foot)
  <2>1. CASE a = b
    <3>1. c = 0
      BY <1>5, <2>1 DEF c, Chord, Size
    <3>2. along = 0
      BY <1>9, <3>1
    <3>3. a[1] + 0 * u[1] = a[1] /\ a[2] + 0 * u[2] = a[2]
      BY <1>5
    <3>4. foot = a
      BY Zenon, <1>5, <1>10, <3>2, <3>3 DEF Along
    <3>5. Chord(a, a) + Chord(a, a) = Chord(a, a)
      BY <1>5 DEF Chord, Size
    <3> QED
      BY Zenon, <1>1, <2>1, <3>4, <3>5 DEF Lies
  <2>2. CASE a # b
    <3>1. u \in Units /\ b = Along(a, u, c)
      BY Zenon, <1>4, <1>12, <2>2
    <3>2. a = Along(a, u, 0)
      <4>1. a[1] + 0 * u[1] = a[1] /\ a[2] + 0 * u[2] = a[2]
        BY <1>5
      <4> QED
        BY Zenon, <1>5, <4>1 DEF Along
    <3>3. foot \in Points /\ Chord(foot, b) = c - along
      BY Zenon, <1>1, <1>8, <1>9, <1>10, <3>1, AlongChord
    <3>4. Chord(a, foot) = along - 0
      <4>1. 0 \in Int
        OBVIOUS
      <4> QED
        <5>1. Chord(Along(a, u, 0), Along(a, u, along)) = along - 0
          BY Zenon, <1>1, <1>9, <3>1, <4>1, AlongChord
        <5> QED
          BY Zenon, <1>10, <3>2, <5>1
    <3> QED
      BY <1>8, <1>9, <3>3, <3>4 DEF Lies, c
  <2> QED
    BY <2>1, <2>2
<1>14. /\ f.at \in Points /\ Lies(a, b, f.at)
       /\ f.dist2 = Distance2(p, f.at) /\ f.dir = Direction(u[1], u[2])
       /\ f.lat = (p[2] - f.at[2]) * u[1] - (p[1] - f.at[1]) * u[2]
       /\ f.at = Along(a, u, Between(x, 0, c)) /\ f.arc = r.arc[i] + Between(x, 0, c)
       /\ x \in Int
       /\ ~Degenerate(r, i) => u \in Units /\ u = Signs(a, b) /\ b = Along(a, u, c)
  BY Zenon, <1>2, <1>3, <1>7, <1>9, <1>10, <1>11, <1>12, <1>13
<1> QED
  BY Zenon, <1>14 DEF a, b, u, f, x, c

\* The frame of a leg: how far along it and how far to its left a point is.
LEMMA LegFrame ==
  ASSUME NEW a \in Points, NEW u \in Units, NEW c \in Int, NEW o \in Int,
         NEW b, b = Along(a, u, c), NEW p, p = Off(b, u, o)
  PROVE  /\ b \in Points /\ p \in Points
         /\ (p[1] - a[1]) * u[1] + (p[2] - a[2]) * u[2] = c
         /\ (p[2] - b[2]) * u[1] - (p[1] - b[1]) * u[2] = o
         /\ Distance2(p, b) = Square(o)
PROOF
<1> DEFINE Goal == /\ b \in Points /\ p \in Points
                   /\ (p[1] - a[1]) * u[1] + (p[2] - a[2]) * u[2] = c
                   /\ (p[2] - b[2]) * u[1] - (p[1] - b[1]) * u[2] = o
                   /\ Distance2(p, b) = Square(o)
<1>1. a[1] \in Int /\ a[2] \in Int
  BY DEF Points
<1>2. ASSUME NEW s \in {-1, 1}
      PROVE  /\ c * s \in Int /\ o * s \in Int /\ c * 0 = 0 /\ o * 0 = 0
             /\ (c * s) * s = c /\ (o * s) * s = o
             /\ Square(o * s) = Square(o) /\ Square(-(o * s)) = Square(o)
             /\ Square(0) = 0 /\ Square(o) \in Int
  BY DEF Square
<1>3. ASSUME NEW s \in {-1, 1}, u = <<s, 0>>
      PROVE  Goal
  <2> DEFINE x == c * s
             y == o * s
  <2>1. /\ x \in Int /\ y \in Int /\ c * 0 = 0 /\ o * 0 = 0 /\ x * s = c /\ y * s = o
        /\ Square(y) = Square(o) /\ Square(0) = 0 /\ Square(o) \in Int
    BY <1>2
  <2>2. u[1] = s /\ u[2] = 0
    BY <1>3
  <2> HIDE DEF x, y
  <2>3. b = <<a[1] + x, a[2]>>
    <3>1. b = <<a[1] + c * s, a[2] + c * 0>>
      BY Zenon, <2>2 DEF Along
    <3>2. a[2] + c * 0 = a[2]
      BY <1>1, <2>1
    <3> QED
      BY Zenon, <3>1, <3>2 DEF x
  <2>4. p = <<a[1] + x, a[2] + y>>
    <3>1. p = <<b[1] - o * 0, b[2] + o * s>>
      BY Zenon, <2>2 DEF Off
    <3>2. b[1] - o * 0 = a[1] + x /\ b[2] + o * s = a[2] + y
      BY <1>1, <2>1, <2>3 DEF y
    <3> QED
      BY Zenon, <3>1, <3>2
  <2>5. /\ p[1] - a[1] = x /\ p[2] - a[2] = y /\ p[2] - b[2] = y /\ p[1] - b[1] = 0
        /\ b \in Points /\ p \in Points
    BY <1>1, <2>1, <2>3, <2>4 DEF Points
  <2>6. Distance2(p, b) = Square(o)
    BY <2>1, <2>5 DEF Distance2
  <2>7. /\ (p[1] - a[1]) * u[1] + (p[2] - a[2]) * u[2] = c
        /\ (p[2] - b[2]) * u[1] - (p[1] - b[1]) * u[2] = o
    <3>1. x * s + y * 0 = c /\ y * s - 0 * 0 = o
      BY <2>1
    <3> QED
      BY Zenon, <2>2, <2>5, <3>1
  <2> QED
    BY Zenon, <2>5, <2>6, <2>7
<1>4. ASSUME NEW s \in {-1, 1}, u = <<0, s>>
      PROVE  Goal
  <2> DEFINE x == c * s
             y == o * s
  <2>1. /\ x \in Int /\ y \in Int /\ c * 0 = 0 /\ o * 0 = 0 /\ x * s = c /\ y * s = o
        /\ Square(-y) = Square(o) /\ Square(0) = 0 /\ Square(o) \in Int
    BY <1>2
  <2>2. u[1] = 0 /\ u[2] = s
    BY <1>4
  <2> HIDE DEF x, y
  <2>3. b = <<a[1], a[2] + x>>
    <3>1. b = <<a[1] + c * 0, a[2] + c * s>>
      BY Zenon, <2>2 DEF Along
    <3>2. a[1] + c * 0 = a[1]
      BY <1>1, <2>1
    <3> QED
      BY Zenon, <3>1, <3>2 DEF x
  <2>4. p = <<a[1] - y, a[2] + x>>
    <3>1. p = <<b[1] - o * s, b[2] + o * 0>>
      BY Zenon, <2>2 DEF Off
    <3>2. b[1] - o * s = a[1] - y /\ b[2] + o * 0 = a[2] + x
      BY <1>1, <2>1, <2>3 DEF y
    <3> QED
      BY Zenon, <3>1, <3>2
  <2>5. /\ p[1] - a[1] = -y /\ p[2] - a[2] = x /\ p[2] - b[2] = 0 /\ p[1] - b[1] = -y
        /\ b \in Points /\ p \in Points
    BY <1>1, <2>1, <2>3, <2>4 DEF Points
  <2>6. Distance2(p, b) = Square(o)
    BY <2>1, <2>5 DEF Distance2
  <2>7. /\ (p[1] - a[1]) * u[1] + (p[2] - a[2]) * u[2] = c
        /\ (p[2] - b[2]) * u[1] - (p[1] - b[1]) * u[2] = o
    <3>1. (-y) * s = -o
      BY <2>1
    <3> QED
      BY <2>1, <2>2, <2>5, <3>1
  <2> QED
    BY Zenon, <2>5, <2>6, <2>7
<1>5. \E s \in {-1, 1} : u = <<s, 0>> \/ u = <<0, s>>
  BY DEF Units
<1>6. Goal
  BY Zenon, <1>3, <1>4, <1>5
<1> QED
  BY <1>6

\* What is beside the start of a leg is no way along it.
LEMMA LegStart ==
  ASSUME NEW b \in Points, NEW u \in Units, NEW o \in Int
  PROVE  LET p == Off(b, u, o)
         IN  (p[1] - b[1]) * u[1] + (p[2] - b[2]) * u[2] = 0
PROOF
<1>1. b \in Points /\ b = Along(b, u, 0)
  <2>1. b = <<b[1], b[2]>> /\ b[1] + 0 * u[1] = b[1] /\ b[2] + 0 * u[2] = b[2]
    BY DEF Points, Units
  <2> QED
    BY Zenon, <2>1 DEF Along
<1> QED
  BY <1>1, LegFrame

LEMMA TangentUnit ==
  ASSUME NEW r, Laid(r), NEW i \in SegmentsOf(r), ~Degenerate(r, i)
  PROVE  LET u == Tangents(r)[i] IN
         /\ u \in Units /\ u = Signs(r.pt[i], r.pt[i + 1])
         /\ r.pt[i + 1] = Along(r.pt[i], u, Chord(r.pt[i], r.pt[i + 1]))
PROOF
<1>1. /\ Len(r.pt) \in Nat \ {0} /\ r.pt \in [1..Len(r.pt) -> Points]
      /\ i \in 1..(Len(r.pt) - 1) /\ r.pt[i] \in Points /\ r.pt[i + 1] \in Points
      /\ Parallel(r.pt[i], r.pt[i + 1])
  BY LaidParts
<1>2. Tangents(r)[i] = Signs(r.pt[i], r.pt[i + 1])
  BY <1>1, TangentType
<1>3. r.pt[i] # r.pt[i + 1]
  BY DEF Degenerate
<1> QED
  BY Zenon, <1>1, <1>2, <1>3, LegUnit DEF Parallel

\* A robot beside a straight point has its foot there, on either segment.
LEMMA StraightFeet ==
  ASSUME NEW r, Laid(r), NEW k, Straight(r, k), NEW o \in Int
  PROVE  LET p == Beside(r, k, o)
             u == Tangents(r)[k]
             f == Feet(r, p)
         IN  /\ k \in 2..(Len(r.pt) - 1) /\ u \in Units
             /\ k - 1 \in SegmentsOf(r) /\ k \in SegmentsOf(r)
             /\ p = Off(r.pt[k], u, o) /\ p \in Points /\ r.pt[k] \in Points
             /\ \A i \in {k - 1, k} :
                   /\ f[i].at = r.pt[k] /\ f[i].arc = r.arc[k]
                   /\ f[i].dist2 = Square(o) /\ f[i].dir = Direction(u[1], u[2])
             /\ f[k - 1].lat = o
             /\ r.pt[k] = Along(r.pt[k - 1], u, Chord(r.pt[k - 1], r.pt[k]))
             /\ r.pt[k + 1] = Along(r.pt[k], u, Chord(r.pt[k], r.pt[k + 1]))
PROOF
<1> DEFINE p == Beside(r, k, o)
           u == Tangents(r)[k]
           f == Feet(r, p)
           n == Len(r.pt)
           j == k - 1
           a == r.pt[j]
           b == r.pt[k]
           c == Chord(a, b)
<1>1. /\ k \in 2..(n - 1) /\ Tangents(r)[j] = u
      /\ ~Degenerate(r, j) /\ ~Degenerate(r, k)
  BY DEF Straight
<1>2. n \in Nat /\ SegmentsOf(r) = 1..(n - 1)
  BY LaidParts
<1>3. j \in SegmentsOf(r) /\ k \in SegmentsOf(r) /\ j + 1 = k
  BY <1>1, <1>2
<1>4. /\ a \in Points /\ b \in Points /\ r.arc[j] \in Nat /\ r.arc[k] \in Nat
      /\ r.arc[k] = r.arc[j] + c
  BY Zenon, <1>3, LaidParts
<1>5. c \in Int /\ 0 <= c
  BY <1>4, ChordType
<1>6. p = Off(b, u, o)
  BY Zenon DEF Beside, Off
<1>7. /\ u \in Units /\ b = Along(a, u, c)
      /\ r.pt[k + 1] = Along(b, u, Chord(b, r.pt[k + 1]))
  BY Zenon, <1>1, <1>3, TangentUnit
<1> HIDE DEF p, u, f, n, c, j, a, b
<1>8. /\ p \in Points /\ (p[1] - a[1]) * u[1] + (p[2] - a[2]) * u[2] = c
      /\ (p[2] - b[2]) * u[1] - (p[1] - b[1]) * u[2] = o
      /\ Distance2(p, b) = Square(o)
  BY <1>4, <1>5, <1>6, <1>7, LegFrame
\* The segment that leads there.
<1>9. /\ f[j].at = b /\ f[j].arc = r.arc[k] /\ f[j].dist2 = Square(o)
      /\ f[j].dir = Direction(u[1], u[2]) /\ f[j].lat = o
  <2> DEFINE x == (p[1] - a[1]) * u[1] + (p[2] - a[2]) * u[2]
  <2>1. /\ f[j].dist2 = Distance2(p, f[j].at) /\ f[j].dir = Direction(u[1], u[2])
        /\ f[j].lat = (p[2] - f[j].at[2]) * u[1] - (p[1] - f[j].at[1]) * u[2]
        /\ f[j].at = Along(a, u, Between(x, 0, c))
        /\ f[j].arc = r.arc[j] + Between(x, 0, c)
    <3> DEFINE v == Tangents(r)[j]
               e == Chord(r.pt[j], r.pt[j + 1])
               y == (p[1] - r.pt[j][1]) * v[1] + (p[2] - r.pt[j][2]) * v[2]
    <3>1. /\ f[j].dist2 = Distance2(p, f[j].at) /\ f[j].dir = Direction(v[1], v[2])
          /\ f[j].lat = (p[2] - f[j].at[2]) * v[1] - (p[1] - f[j].at[1]) * v[2]
          /\ f[j].at = Along(r.pt[j], v, Between(y, 0, e))
          /\ f[j].arc = r.arc[j] + Between(y, 0, e)
      BY Zenon, <1>3, <1>8, FootOf DEF f
    <3>2. v = u /\ e = c /\ r.pt[j] = a
      BY Zenon, <1>1, <1>3 DEF a, b, c
    <3>3. y = x
      BY Zenon, <3>2
    <3> HIDE DEF v, e, x, y
    <3> QED
      BY Zenon, <3>1, <3>2, <3>3
  <2>2. Between(c, 0, c) = c
    BY <1>5 DEF Between
  <2> QED
    BY Zenon, <1>4, <1>7, <1>8, <2>1, <2>2
\* The segment that leads on.
<1>10. /\ f[k].at = b /\ f[k].arc = r.arc[k] /\ f[k].dist2 = Square(o)
       /\ f[k].dir = Direction(u[1], u[2])
  <2> DEFINE x == (p[1] - b[1]) * u[1] + (p[2] - b[2]) * u[2]
             e == Chord(b, r.pt[k + 1])
  <2>1. b = Along(b, u, 0)
    <3>1. b[1] + 0 * u[1] = b[1] /\ b[2] + 0 * u[2] = b[2] /\ b = <<b[1], b[2]>>
      BY <1>4, <1>7 DEF Points, Units
    <3> QED
      BY Zenon, <3>1 DEF Along
  <2>2. x = 0
    <3>1. b \in Points /\ u \in Units
      BY Zenon, <1>4, <1>7
    <3> QED
      BY Zenon, <1>6, <3>1, LegStart
  <2>3. /\ f[k].dist2 = Distance2(p, f[k].at) /\ f[k].dir = Direction(u[1], u[2])
        /\ f[k].at = Along(b, u, Between(x, 0, e))
        /\ f[k].arc = r.arc[k] + Between(x, 0, e)
    BY Zenon, <1>3, <1>8, FootOf DEF f, b, u
  <2>4. e \in Nat
    BY <1>3, LaidParts, ChordType DEF b
  <2> HIDE DEF x, e
  <2>5. Between(x, 0, e) = 0
    BY <2>2, <2>4 DEF Between
  <2>6. r.arc[k] + 0 = r.arc[k]
    BY <1>4
  <2>7. f[k].at = b /\ f[k].arc = r.arc[k]
    BY Zenon, <2>1, <2>3, <2>5, <2>6
  <2> QED
    BY Zenon, <1>8, <2>3, <2>7
<1>11. \A i \in {j, k} : /\ f[i].at = b /\ f[i].arc = r.arc[k]
                         /\ f[i].dist2 = Square(o) /\ f[i].dir = Direction(u[1], u[2])
  BY Zenon, <1>9, <1>10
<1> QED
  BY Zenon, <1>1, <1>3, <1>4, <1>6, <1>7, <1>8, <1>9, <1>11 DEF p, u, f, n, c, j, a, b

\* Feet that tie are at one place when the nearest is within half the band.
LEMMA SamePlace ==
  ASSUME NEW p \in Points, NEW v \in Points, NEW w \in Points,
         4 * Distance2(p, w) <= Square(TieEps),
         WithinTie(Distance2(p, v), Distance2(p, w))
  PROVE  Distance2(v, w) <= Square(2 * TieEps)
PROOF
<1> DEFINE a == p[1] - v[1]
           b == p[2] - v[2]
           c == p[1] - w[1]
           d == p[2] - w[2]
           V == a * a + b * b
           W == c * c + d * d
           T == TieEps * TieEps
           over == V - W - T
<1>1. /\ p[1] \in Int /\ p[2] \in Int /\ v[1] \in Int /\ v[2] \in Int
      /\ w[1] \in Int /\ w[2] \in Int
  BY DEF Points
<1>2. TieEps \in Nat
  BY ProjectionAssumption
<1>3. a \in Int /\ b \in Int /\ c \in Int /\ d \in Int
  BY <1>1
<1>4. v[1] - w[1] = c - a /\ v[2] - w[2] = d - b
  BY <1>1
<1>5. Distance2(p, v) = V /\ Distance2(p, w) = W /\ Square(TieEps) = T
  BY Zenon DEF Distance2, Square
<1>6. Distance2(v, w) = (c - a) * (c - a) + (d - b) * (d - b)
  BY Zenon, <1>4 DEF Distance2, Square
<1> HIDE DEF a, b, c, d
<1>7. V \in Int /\ W \in Int /\ T \in Int /\ 0 <= T
  BY <1>2, <1>3
<1>8. Square(2 * TieEps) = 4 * T
  BY <1>2 DEF Square
<1>9. ASSUME NEW x \in Int, NEW y \in Int
      PROVE  3 * ((y - x) * (y - x)) <= 4 * (x * x) + 12 * (y * y)
  <2> DEFINE z == x + 3 * y
  <2>1. z \in Int /\ z * z = 4 * (x * x) + 12 * (y * y) - 3 * ((y - x) * (y - x))
    OBVIOUS
  <2>2. z * z >= 0
    <3> HIDE DEF z
    <3>1. z * z \in Nat
      BY <2>1, SquareOrder
    <3> QED
      BY <3>1
  <2>3. x * x \in Int /\ y * y \in Int /\ (y - x) * (y - x) \in Int
    OBVIOUS
  <2> HIDE DEF z
  <2> QED
    BY <2>1, <2>2, <2>3
<1>10. 3 * Distance2(v, w) <= 4 * V + 12 * W /\ Distance2(v, w) \in Int
  <2> DEFINE aa == a * a
             bb == b * b
             cc == c * c
             dd == d * d
             ca == (c - a) * (c - a)
             db == (d - b) * (d - b)
  <2>1. 3 * ca <= 4 * aa + 12 * cc /\ 3 * db <= 4 * bb + 12 * dd
    BY Zenon, <1>3, <1>9
  <2>2. /\ aa \in Int /\ bb \in Int /\ cc \in Int /\ dd \in Int
        /\ ca \in Int /\ db \in Int
    BY <1>3
  <2>3. V = aa + bb /\ W = cc + dd /\ Distance2(v, w) = ca + db
    BY <1>6
  <2> HIDE DEF aa, bb, cc, dd, ca, db, V, W
  <2> QED
    BY <2>1, <2>2, <2>3
<1> HIDE DEF V, W, T
<1>11. 4 * W <= T
  BY <1>5
<1>12. over <= 0 \/ over * over <= 4 * T * W
  <2>1. WithinTie(V, W)
    BY <1>5
  <2> QED
    BY <1>5, <2>1 DEF WithinTie, Square
<1>13. over \in Int
  BY <1>7
<1> HIDE DEF over
<1>14. over <= T
  <2> SUFFICES ASSUME over > T
               PROVE  FALSE
    BY <1>7, <1>13
  <2>1. over > 0 /\ over * over <= 4 * T * W
    BY <1>7, <1>12, <1>13
  <2>2. T * (4 * W) <= T * T
    <3> DEFINE x == T - 4 * W
    <3>1. x \in Nat /\ T \in Nat
      BY <1>7, <1>11
    <3>2. T * x >= 0
      BY <3>1
    <3>3. T * x = T * T - T * (4 * W)
      BY <1>7
    <3>4. T * T \in Int /\ T * (4 * W) \in Int
      BY <1>7
    <3> HIDE DEF x
    <3> QED
      BY <3>2, <3>3, <3>4
  <2>3. T * (4 * W) = 4 * T * W
    BY <1>7
  <2>4. over * over > T * T
    <3>1. over * over >= T * over /\ T * over >= T * T
      BY <1>7, <1>13
    <3>2. over * (over - T) > 0
      BY <1>7, <1>13, <2>1
    <3> QED
      BY <1>7, <1>13, <3>1, <3>2
  <2>5. over * over \in Int /\ T * T \in Int /\ 4 * T * W \in Int /\ T * (4 * W) \in Int
    BY <1>7, <1>13
  <2> QED
    BY <2>1, <2>2, <2>3, <2>4, <2>5
<1>15. V - W - T <= T
  BY <1>14 DEF over
<1> QED
  BY <1>7, <1>8, <1>10, <1>11, <1>15

\* A candidate ahead of all others is picked when what ties with it is in place.
LEMMA PickNearest ==
  ASSUME NEW m \in Nat, NEW idx \in SUBSET (1..m), NEW feet, FeetKnown(feet, m),
         NEW best \in idx, NEW sPrev,
         \A i \in idx :
            /\ \/ feet[best].dist2 < feet[i].dist2
               \/ feet[best].dist2 = feet[i].dist2 /\ best <= i
            /\ WithinTie(feet[i].dist2, feet[best].dist2)
                 => Distance2(feet[i].at, feet[best].at) <= Square(2 * TieEps)
  PROVE  Pick(idx, feet, sPrev) = best
PROOF
<1> DEFINE First2(i) == \A k \in idx : \/ feet[i].dist2 < feet[k].dist2
                                       \/ feet[i].dist2 = feet[k].dist2 /\ i <= k
<1>1. NearestOf(idx, feet) = CHOOSE i \in idx : First2(i)
  BY Zenon DEF NearestOf, First
<1>2. First2(best)
  OBVIOUS
<1>3. \A i \in idx : i \in Int /\ feet[i].dist2 \in Int
  <2> HIDE DEF First2
  <2>1. ASSUME NEW i \in idx
        PROVE  i \in 1..m
    BY Zenon
  <2>2. \A i \in 1..m : i \in Int
    BY Z3
  <2> QED
    BY Zenon, <2>1, <2>2 DEF FeetKnown
<1>4. ASSUME NEW i \in idx, First2(i)
      PROVE  i = best
  <2>1. \/ feet[i].dist2 < feet[best].dist2
        \/ feet[i].dist2 = feet[best].dist2 /\ i <= best
    BY Zenon, <1>4
  <2>2. \/ feet[best].dist2 < feet[i].dist2
        \/ feet[best].dist2 = feet[i].dist2 /\ best <= i
    BY Zenon, <1>2
  <2> QED
    BY <1>3, <2>1, <2>2
<1>5. NearestOf(idx, feet) = best
  <2> DEFINE c == CHOOSE i \in idx : First2(i)
  <2>1. \E i \in idx : First2(i)
    BY Zenon, <1>2
  <2>2. c \in idx /\ First2(c)
    <3> HIDE DEF First2
    <3> QED
      BY Zenon, <2>1
  <2> QED
    BY Zenon, <1>1, <1>4, <2>2
<1>6. \A i \in Tied(idx, feet) :
        Square(feet[i].at[1] - feet[best].at[1])
          + Square(feet[i].at[2] - feet[best].at[2]) <= Square(2 * TieEps)
  BY Zenon, <1>5 DEF Tied, Distance2
<1>7. idx # {}
  OBVIOUS
<1> QED
  BY Zenon, <1>5, <1>6, <1>7 DEF Pick

\* What keeps segment i from being taken for the path at point k.
NoRival(r, k, i) ==
    \A d \in {-Ds, Ds} :
        IF i < k THEN ~OnSegment(r, i, Beside(r, k, 0)) /\ ~OnSegment(r, i, Beside(r, k, d))
        ELSE ~(OnSegment(r, i, Beside(r, k, 0)) /\ OnSegment(r, i, Beside(r, k, d)))

LEMMA OnLies ==
  ASSUME NEW r, NEW i, NEW q
  PROVE  OnSegment(r, i, q) <=> Lies(r.pt[i], r.pt[i + 1], q)
BY DEF OnSegment, Lies

\* Beside a straight point the segment that leads there is the first of the
\* nearest, and picked, among segments that are no rivals.
LEMMA PathPicked ==
  ASSUME NEW r, Laid(r), NEW k, Straight(r, k), NEW o \in Int, 2 * Size(o) <= Ds,
         NEW idx, idx \subseteq SegmentsOf(r), k - 1 \in idx,
         \A i \in idx \ {k - 1, k} : NoRival(r, k, i), NEW sPrev
  PROVE  Pick(idx, Feet(r, Beside(r, k, o)), sPrev) = k - 1
PROOF
<1> DEFINE p == Beside(r, k, o)
           u == Tangents(r)[k]
           feet == Feet(r, p)
           n == Len(r.pt)
           j == k - 1
           c == r.pt[k]
<1>1. /\ k \in 2..(n - 1) /\ u \in Units /\ j \in SegmentsOf(r) /\ k \in SegmentsOf(r)
      /\ p = Off(c, u, o) /\ p \in Points /\ c \in Points
      /\ \A i \in {j, k} : feet[i].at = c /\ feet[i].dist2 = Square(o)
  BY StraightFeet
<1>2. SegmentsOf(r) = 1..(n - 1) /\ n \in Nat \ {0} /\ r.pt \in [1..n -> Points]
      /\ r.pt \in Routes
  BY LaidParts
<1>3. \A d : Beside(r, k, d) = Off(c, u, d)
  BY DEF Beside, Off
<1>4. Beside(r, k, 0) = c
  <2>1. c[1] - 0 * u[2] = c[1] /\ c[2] + 0 * u[1] = c[2] /\ c = <<c[1], c[2]>>
    BY <1>1 DEF Points, Units
  <2> QED
    BY Zenon, <1>3, <2>1 DEF Off
<1>5. Ds \in Nat \ {0} /\ TieEps \in Nat /\ Ds <= TieEps
  BY ReferenceAssumption, ProjectionAssumption, FollowAssumption
<1>6. r \in References /\ Fits(r)
  BY DEF Laid
<1>7. FeetKnown(feet, n - 1)
  BY Zenon, <1>1, <1>6, FeetType
<1> HIDE DEF p, feet, u, c, n, j
<1>8. ASSUME NEW i \in SegmentsOf(r)
      PROVE  /\ feet[i].at \in Points /\ feet[i].dist2 = Distance2(p, feet[i].at)
             /\ Lies(r.pt[i], r.pt[i + 1], feet[i].at)
  BY Zenon, <1>1, FootOf DEF feet
\* No other foot is nearer, and none of an earlier segment is as near.
<1>9. ASSUME NEW i \in idx \ {j, k}
      PROVE  IF i < k THEN Square(o) < feet[i].dist2 ELSE Square(o) <= feet[i].dist2
  <2> DEFINE a == r.pt[i]
             b == r.pt[i + 1]
             f == feet[i].at
             d2 == Distance2(Off(c, u, o), f)
  <2>1. i \in SegmentsOf(r) /\ i \in 1..(n - 1) /\ i \in 1..n /\ i + 1 \in 1..n
    BY <1>2
  <2>2. a \in Points /\ b \in Points /\ f \in Points /\ Lies(a, b, f) /\ Parallel(a, b)
    BY Zenon, <1>8, <2>1, LaidParts
  <2>3. Aligned(a, c) /\ Aligned(b, c)
    <3>1. Meshed(r.pt) /\ k \in 1..n
      BY <1>1, <1>2 DEF Laid
    <3> QED
      BY Zenon, <1>2, <2>1, <3>1, GridAligned DEF c, n
  <2> HIDE DEF a, b, f
  <2>4. /\ d2 <= Square(o) => \E d \in {-Ds, 0, Ds} : Lies(a, b, Off(c, u, d))
        /\ d2 < Square(o) => \E d \in {-Ds, Ds} : Lies(a, b, c) /\ Lies(a, b, Off(c, u, d))
    BY Zenon, <1>1, <2>2, <2>3, RivalNearby
  <2>5. feet[i].dist2 = d2
    BY Zenon, <1>1, <1>8, <2>1 DEF f
  <2>6. d2 \in Int /\ Square(o) \in Int
    <3>1. d2 \in Int
      BY Zenon, <1>2, <1>7, <2>1, <2>5 DEF FeetKnown
    <3>2. Square(o) \in Int
      BY DEF Square
    <3> QED
      BY <3>1, <3>2
  <2> HIDE DEF d2
  <2>7. \A d \in {-Ds, Ds} :
          IF i < k THEN ~Lies(a, b, c) /\ ~Lies(a, b, Off(c, u, d))
          ELSE ~(Lies(a, b, c) /\ Lies(a, b, Off(c, u, d)))
    <3>1. NoRival(r, k, i)
      BY DEF j
    <3> QED
      BY Zenon, <1>3, <1>4, <3>1, OnLies DEF NoRival, a, b
  <2>8. Off(c, u, 0) = c
    BY Zenon, <1>3, <1>4
  <2>9. ASSUME i < k
        PROVE  ~(d2 <= Square(o))
    <3>1. Ds \in {-Ds, Ds}
      OBVIOUS
    <3>2. ~Lies(a, b, c) /\ \A d \in {-Ds, Ds} : ~Lies(a, b, Off(c, u, d))
      BY Zenon, <2>7, <2>9, <3>1
    <3>3. \A d \in {-Ds, 0, Ds} : d \in {-Ds, Ds} \/ d = 0
      OBVIOUS
    <3>4. \A d \in {-Ds, 0, Ds} : ~Lies(a, b, Off(c, u, d))
      BY Zenon, <2>8, <3>2, <3>3
    <3> QED
      BY Zenon, <2>4, <3>4
  <2>10. ASSUME ~(i < k)
         PROVE  ~(d2 < Square(o))
    BY Zenon, <2>4, <2>7, <2>10
  <2> QED
    BY <2>5, <2>6, <2>9, <2>10
<1>10. feet[j].dist2 = Square(o) /\ feet[k].dist2 = Square(o) /\ feet[j].at = c
  BY Zenon, <1>1
<1>11. Square(o) \in Int /\ 4 * Square(o) <= Square(TieEps)
  <2> DEFINE s == Size(o)
  <2>1. s \in Nat /\ Square(o) = s * s
    BY DEF Size, Square
  <2> HIDE DEF s
  <2>2. s * s \in Int /\ TieEps * TieEps \in Int /\ 2 * s <= TieEps
    BY <1>5, <2>1 DEF s
  <2>3. (2 * s) * (2 * s) <= TieEps * TieEps
    <3>1. \A x, y \in Nat : x <= y => x * x <= y * y
      <4> SUFFICES ASSUME NEW x \in Nat, NEW y \in Nat, x <= y
                   PROVE  x * x <= y * y
        OBVIOUS
      <4>1. x * x <= x * y /\ x * y <= y * y
        OBVIOUS
      <4> QED
        BY <4>1
    <3>2. 2 * s \in Nat
      BY <2>1
    <3> QED
      BY Zenon, <1>5, <2>2, <3>1, <3>2
  <2>4. (2 * s) * (2 * s) = 4 * (s * s)
    BY <2>1
  <2> QED
    BY <2>1, <2>2, <2>3, <2>4 DEF Square
<1>12. ASSUME NEW i \in idx
       PROVE  /\ \/ feet[j].dist2 < feet[i].dist2
                 \/ feet[j].dist2 = feet[i].dist2 /\ j <= i
              /\ WithinTie(feet[i].dist2, feet[j].dist2)
                   => Distance2(feet[i].at, feet[j].at) <= Square(2 * TieEps)
  <2>1. i \in SegmentsOf(r) /\ i \in 1..(n - 1) /\ feet[i].dist2 \in Int /\ i \in Int
    BY <1>2, <1>7 DEF FeetKnown
  <2>2. \/ feet[j].dist2 < feet[i].dist2
        \/ feet[j].dist2 = feet[i].dist2 /\ j <= i
    <3>1. CASE i = j \/ i = k
      BY <1>1, <1>10, <3>1 DEF j
    <3>2. CASE i # j /\ i # k
      <4>1. IF i < k THEN Square(o) < feet[i].dist2 ELSE Square(o) <= feet[i].dist2
        BY <1>9, <3>2
      <4> QED
        BY <1>1, <1>10, <1>11, <2>1, <4>1 DEF j
    <3> QED
      BY <3>1, <3>2
  <2>3. ASSUME WithinTie(feet[i].dist2, feet[j].dist2)
        PROVE  Distance2(feet[i].at, feet[j].at) <= Square(2 * TieEps)
    <3>1. feet[j].dist2 = Distance2(p, feet[j].at) /\ feet[i].dist2 = Distance2(p, feet[i].at)
          /\ feet[i].at \in Points /\ feet[j].at \in Points
      BY Zenon, <1>1, <1>8, <2>1
    <3>2. 4 * Distance2(p, feet[j].at) <= Square(TieEps)
      BY <1>10, <1>11, <3>1
    <3>3. WithinTie(Distance2(p, feet[i].at), Distance2(p, feet[j].at))
      BY Zenon, <2>3, <3>1
    <3> QED
      BY Zenon, <1>1, <3>1, <3>2, <3>3, SamePlace
  <2> QED
    BY <2>2, <2>3
<1>13. idx \in SUBSET (1..(n - 1)) /\ n - 1 \in Nat /\ j \in idx
  BY <1>2 DEF j
<1>14. Pick(idx, feet, sPrev) = j
  <2>1. \A i \in idx :
            /\ \/ feet[j].dist2 < feet[i].dist2
               \/ feet[j].dist2 = feet[i].dist2 /\ j <= i
            /\ WithinTie(feet[i].dist2, feet[j].dist2)
                 => Distance2(feet[i].at, feet[j].at) <= Square(2 * TieEps)
    BY <1>12
  <2> DEFINE m == n - 1
  <2>2. idx \in SUBSET (1..m) /\ m \in Nat /\ FeetKnown(feet, m)
    BY <1>7, <1>13
  <2> HIDE DEF m
  <2> QED
    BY <1>13, <2>1, <2>2, PickNearest
<1> QED
  BY Zenon, <1>14 DEF feet, p, j

-----------------------------------------------------------------------------
(***************************************************************************)
(* A robot that follows the path is found on it.                           *)
(***************************************************************************)

LEMMA SquaresGrow ==
  ASSUME NEW x \in Nat, NEW y \in Nat, x <= y
  PROVE  Square(x) <= Square(y)
PROOF
<1>1. x * x <= x * y /\ x * y <= y * y
  OBVIOUS
<1> QED
  BY <1>1 DEF Square

LEMMA UnitDirection ==
  ASSUME NEW u \in Units
  PROVE  /\ Direction(u[1], u[2]) \in {0, 2, 4, 6}
         /\ Direction(u[1], u[2]) = 0 <=> u = <<1, 0>>
         /\ Direction(u[1], u[2]) = 2 <=> u = <<0, 1>>
         /\ Direction(u[1], u[2]) = 4 <=> u = <<-1, 0>>
         /\ Direction(u[1], u[2]) = 6 <=> u = <<0, -1>>
PROOF
<1>1. CASE u = <<1, 0>>
  BY <1>1 DEF Direction
<1>2. CASE u = <<-1, 0>>
  BY <1>2 DEF Direction
<1>3. CASE u = <<0, 1>>
  BY <1>3 DEF Direction
<1>4. CASE u = <<0, -1>>
  BY <1>4 DEF Direction
<1> QED
  BY <1>1, <1>2, <1>3, <1>4 DEF Units

\* A heading off a direction by a slant, against that direction.
LEMMA OffDirection ==
  ASSUME NEW d \in Octants, NEW slant \in -2..2
  PROVE  /\ Turned((d + 0 + slant) % 8, d) = slant
         /\ Turned(((d + 4 + slant) % 8) + 4, d) = slant
PROOF
<1>1. d \in Int /\ 0 <= d /\ d <= 7 /\ slant \in Int /\ -2 <= slant /\ slant <= 2
  BY DEF Octants
<1>2. Turned((d + 0 + slant) % 8, d) = slant
  <2> DEFINE x == (d + 0 + slant) % 8
  <2>1. x = d + slant \/ x = d + slant + 8 \/ x = d + slant - 8
    BY <1>1
  <2> HIDE DEF x
  <2>2. (x - d + 4) % 8 = slant + 4
    BY <1>1, <2>1
  <2> QED
    BY <1>1, <2>2 DEF Turned, x
<1>3. Turned(((d + 4 + slant) % 8) + 4, d) = slant
  <2> DEFINE x == (d + 4 + slant) % 8
  <2>1. x = d + 4 + slant \/ x = d + 4 + slant - 8
    BY <1>1
  <2> HIDE DEF x
  <2>2. (x + 4 - d + 4) % 8 = slant + 4
    BY <1>1, <2>1
  <2> QED
    BY <1>1, <2>2 DEF Turned, x
<1> QED
  BY <1>2, <1>3

\* The heading gate does not depend on where the robot is, and lets it take the
\* way it came.
LEMMA GateAnywhere ==
  ASSUME NEW r, Laid(r), NEW p \in Points, NEW q \in Points, NEW heading
  PROVE  Admissible(r, Feet(r, p), heading) = Admissible(r, Feet(r, q), heading)
PROOF
<1>1. \A i \in SegmentsOf(r) : Feet(r, p)[i].dir = Feet(r, q)[i].dir
  <2> SUFFICES ASSUME NEW i \in SegmentsOf(r)
               PROVE  Feet(r, p)[i].dir = Feet(r, q)[i].dir
    OBVIOUS
  <2>1. Feet(r, p)[i].dir = Direction(Tangents(r)[i][1], Tangents(r)[i][2])
    BY Zenon, FootOf
  <2>2. Feet(r, q)[i].dir = Direction(Tangents(r)[i][1], Tangents(r)[i][2])
    BY Zenon, FootOf
  <2> QED
    BY <2>1, <2>2
<1> DEFINE f == Feet(r, p)
           g == Feet(r, q)
<1> HIDE DEF f, g
<1>2. \A i \in SegmentsOf(r) : f[i].dir = g[i].dir
  BY <1>1 DEF f, g
<1>3. Admissible(r, f, heading) = Admissible(r, g, heading)
  BY <1>2 DEF Admissible
<1> QED
  BY <1>3 DEF f, g

LEMMA WayAdmitted ==
  ASSUME NEW r, Laid(r), NEW k, Straight(r, k), NEW p \in Points, NEW slant \in -2..2
  PROVE  k - 1 \in Admissible(r, Feet(r, p), Facing(r, k, slant))
PROOF
<1> DEFINE j == k - 1
           u == Tangents(r)[k]
           d == Direction(u[1], u[2])
           yw == Facing(r, k, slant)
<1>1. /\ j \in SegmentsOf(r) /\ k \in SegmentsOf(r) /\ u \in Units
  <2>1. 0 \in Int
    OBVIOUS
  <2> QED
    BY <2>1, StraightFeet
<1>2. Tangents(r)[j] = u /\ r.gear[j] = r.gear[k]
  BY Zenon DEF Straight
<1>3. d \in Octants
  BY <1>1, UnitDirection DEF Octants
<1>4. Feet(r, p)[j].dir = d
  <2>1. Feet(r, p)[j].dir = Direction(Tangents(r)[j][1], Tangents(r)[j][2])
    BY Zenon, <1>1, FootOf
  <2> QED
    BY Zenon, <1>2, <2>1
<1>5. Size(Turned(IF r.gear[j] > 0 THEN yw ELSE yw + 4, d)) <= 2
  <2> HIDE DEF d, u
  <2>1. Size(slant) <= 2
    BY DEF Size
  <2>2. yw = (d + (IF r.gear[k] > 0 THEN 0 ELSE 4) + slant) % 8
    BY Zenon DEF Facing, d, u
  <2> HIDE DEF yw, j
  <2>3. CASE r.gear[k] > 0
    <3>1. yw = (d + 0 + slant) % 8
      BY <2>2, <2>3
    <3> QED
      BY Zenon, <1>2, <1>3, <2>1, <2>3, <3>1, OffDirection
  <2>4. CASE ~(r.gear[k] > 0)
    <3>1. yw = (d + 4 + slant) % 8
      BY <2>2, <2>4
    <3>2. Turned(yw + 4, d) = slant
      BY Zenon, <1>3, <3>1, OffDirection
    <3> QED
      BY Zenon, <1>2, <2>1, <2>4, <3>2
  <2> QED
    BY <2>3, <2>4
<1> QED
  BY Zenon, <1>1, <1>4, <1>5 DEF Admissible

\* Of the segments a clear way leaves, the robot is found on the one that leads
\* to where it is.
LEMMA ClearPicked ==
  ASSUME NEW r, Laid(r), NEW k, Straight(r, k), NEW offset \in Offsets,
         NEW slant \in Slants, NEW idx, idx \subseteq SegmentsOf(r), k - 1 \in idx,
         Unrivalled(r, k, idx), NEW sPrev
  PROVE  LET feet == Feet(r, Beside(r, k, offset))
             ok == Admissible(r, feet, Facing(r, k, slant))
         IN  Pick(idx \cap ok, feet, sPrev) = k - 1
PROOF
<1> DEFINE p == Beside(r, k, offset)
           feet == Feet(r, p)
           yw == Facing(r, k, slant)
           ok == Admissible(r, feet, yw)
           q == Beside(r, k, 0)
<1>1. offset \in Int /\ 2 * Size(offset) <= Ds /\ slant \in -2..2
  BY TrackingAssumption, FollowAssumption
<1>2. p \in Points /\ q \in Points
  <2>1. 0 \in Int
    OBVIOUS
  <2>2. p \in Points
    BY Zenon, <1>1, StraightFeet
  <2>3. q \in Points
    BY Zenon, <2>1, StraightFeet
  <2> QED
    BY <2>2, <2>3
<1>3. k - 1 \in ok
  BY Zenon, <1>1, <1>2, WayAdmitted
<1>4. ok = Admissible(r, Feet(r, q), yw)
  BY Zenon, <1>2, GateAnywhere
<1>5. \A i \in (idx \cap ok) \ {k - 1, k} : NoRival(r, k, i)
  <2> SUFFICES ASSUME NEW i \in (idx \cap ok) \ {k - 1, k}
               PROVE  NoRival(r, k, i)
    OBVIOUS
  <2>1. i \in Admissible(r, Feet(r, q), yw) /\ i \in idx \ {k - 1, k}
    BY Zenon, <1>4
  <2> QED
    BY Zenon, <2>1 DEF Unrivalled, NoRival
<1>6. idx \cap ok \subseteq SegmentsOf(r) /\ k - 1 \in idx \cap ok
  BY Zenon, <1>3
<1> DEFINE some == idx \cap ok
<1> HIDE DEF some, p, q, ok, yw
<1>7. Pick(some, feet, sPrev) = k - 1
  BY Zenon, <1>1, <1>5, <1>6, PathPicked DEF some, p
<1> QED
  BY Zenon, <1>7 DEF some, ok, yw, p

\* What is found of a robot at point k of the path.
FoundAt(r, k, offset, answer) ==
    /\ answer.stage # 3 /\ answer.arc = r.arc[k] /\ answer.lat = offset

\* The first projection.
LEMMA FoundFirst ==
  ASSUME NEW r, Laid(r), Straight(r, 2), NEW offset \in Offsets, NEW slant \in Slants,
         Unrivalled(r, 2, SegmentsOf(r))
  PROVE  FoundAt(r, 2, offset,
                 ClosestPoint(r, Beside(r, 2, offset), Facing(r, 2, slant), NoArc))
PROOF
<1> DEFINE p == Beside(r, 2, offset)
           yw == Facing(r, 2, slant)
           feet == Feet(r, p)
           ok == Admissible(r, feet, yw)
           anywhere == Pick(ok, feet, NoArc)
           Near(i) == i > 0 /\ feet[i].dist2 <= Square(ReacquireM)
<1>1. offset \in Int
  BY TrackingAssumption
<1>2. 2 - 1 \in SegmentsOf(r) /\ feet[2 - 1].arc = r.arc[2] /\ feet[2 - 1].lat = offset
  BY <1>1, StraightFeet
<1>3. Pick(SegmentsOf(r) \cap ok, feet, NoArc) = 2 - 1
  <2> DEFINE idx == SegmentsOf(r)
  <2>1. idx \subseteq SegmentsOf(r) /\ 2 - 1 \in idx /\ Unrivalled(r, 2, idx)
    BY <1>2
  <2> HIDE DEF idx
  <2>2. Pick(idx \cap ok, feet, NoArc) = 2 - 1
    BY <2>1, ClearPicked
  <2> QED
    BY <2>2 DEF idx
<1>4. SegmentsOf(r) \cap ok = ok
  BY Zenon DEF Admissible
<1>5. anywhere = 1 /\ 2 - 1 = 1
  BY <1>3, <1>4
<1>6. ~Near(Nobody)
  BY DEF Nobody
<1>7. ClosestPoint(r, p, yw, NoArc)
        = IF Near(Nobody) THEN Answer(feet, Nobody, 0)
          ELSE IF Near(Nobody) THEN Answer(feet, Nobody, 1)
          ELSE IF anywhere > 0 THEN Answer(feet, anywhere, 2) ELSE Refused(NoArc)
  BY Zenon DEF ClosestPoint
<1> HIDE DEF anywhere, Near, feet, p, yw
<1>8. ClosestPoint(r, p, yw, NoArc) = Answer(feet, 1, 2)
  <2>1. anywhere > 0
    BY <1>5
  <2> QED
    BY Zenon, <1>5, <1>6, <1>7, <2>1
<1>9. /\ Answer(feet, 1, 2).stage = 2 /\ Answer(feet, 1, 2).arc = r.arc[2]
      /\ Answer(feet, 1, 2).lat = offset
  BY <1>2, <1>5 DEF Answer
<1> QED
  BY <1>8, <1>9 DEF FoundAt, p, yw

\* A later one, from the arc found before.
LEMMA FoundNext ==
  ASSUME NEW r, Laid(r), NEW k, Straight(r, k), NEW offset \in Offsets,
         NEW slant \in Slants, NEW j \in 1..Len(r.pt), j <= k,
         r.arc[k - 1] <= r.arc[j] + FwdM,
         Unrivalled(r, k, InWindow(r, r.arc[j], BackM, FwdM))
  PROVE  FoundAt(r, k, offset,
                 ClosestPoint(r, Beside(r, k, offset), Facing(r, k, slant), r.arc[j]))
PROOF
<1> DEFINE p == Beside(r, k, offset)
           yw == Facing(r, k, slant)
           feet == Feet(r, p)
           ok == Admissible(r, feet, yw)
           s == r.arc[j]
           window == InWindow(r, s, BackM, FwdM)
           narrow == IF s = NoArc THEN Nobody ELSE Pick(window \cap ok, feet, s)
           Near(i) == i > 0 /\ feet[i].dist2 <= Square(ReacquireM)
           wide == IF s = NoArc THEN Nobody
                   ELSE Pick(InWindow(r, s, WideM, WideM) \cap ok, feet, s)
           anywhere == Pick(ok, feet, s)
<1>1. offset \in Int /\ Size(offset) <= ReacquireM
  BY TrackingAssumption, FollowAssumption
<1>2. /\ k \in 2..(Len(r.pt) - 1) /\ k - 1 \in SegmentsOf(r)
      /\ feet[k - 1].arc = r.arc[k] /\ feet[k - 1].lat = offset
      /\ feet[k - 1].dist2 = Square(offset)
  BY <1>1, StraightFeet
<1>3. k \in 1..Len(r.pt) /\ k > 0 /\ k - 1 > 0 /\ (k - 1) + 1 = k
  BY <1>2, LaidParts
<1>4. s \in Nat /\ r.arc[k] \in Nat /\ s <= r.arc[k]
  <2>1. r.arc \in [1..Len(r.pt) -> Nat]
    BY LaidParts
  <2> QED
    BY <1>3, <2>1, ArcsRise
<1>5. s # NoArc
  BY <1>4 DEF NoArc
<1>6. k - 1 \in window
  <2>1. BackM \in Nat
    BY ProjectionAssumption
  <2>2. r.arc[(k - 1) + 1] >= s - BackM /\ r.arc[k - 1] <= s + FwdM
    BY <1>3, <1>4, <2>1
  <2> QED
    BY <1>2, <2>2 DEF InWindow
<1>7. window \subseteq SegmentsOf(r)
  BY DEF InWindow
<1>8. Pick(window \cap ok, feet, s) = k - 1
  <2> HIDE DEF s
  <2>1. Unrivalled(r, k, window)
    BY DEF s
  <2> HIDE DEF window
  <2> QED
    BY <1>6, <1>7, <2>1, ClearPicked
<1>9. narrow = k - 1
  BY Zenon, <1>5, <1>8
<1>10. Near(k - 1)
  <2>1. Square(offset) = Square(Size(offset)) /\ Size(offset) \in Nat /\ ReacquireM \in Nat
    BY <1>1, ProjectionAssumption DEF Square, Size
  <2>2. Square(offset) <= Square(ReacquireM)
    BY Zenon, <1>1, <2>1, SquaresGrow
  <2> QED
    BY <1>2, <1>3, <2>2
<1>11. ClosestPoint(r, p, yw, s)
         = IF Near(narrow) THEN Answer(feet, narrow, 0)
           ELSE IF Near(wide) THEN Answer(feet, wide, 1)
           ELSE IF anywhere > 0 THEN Answer(feet, anywhere, 2) ELSE Refused(s)
  BY Zenon DEF ClosestPoint
<1> HIDE DEF narrow, wide, anywhere, Near, feet, p, yw, s
<1>12. ClosestPoint(r, p, yw, s) = Answer(feet, k - 1, 0)
  BY Zenon, <1>9, <1>10, <1>11
<1>13. /\ Answer(feet, k - 1, 0).stage = 0 /\ Answer(feet, k - 1, 0).arc = r.arc[k]
       /\ Answer(feet, k - 1, 0).lat = offset
  BY <1>2 DEF Answer
<1> QED
  BY <1>12, <1>13 DEF FoundAt, p, yw, s

\* The point at the arc of a straight point is that point, the last of those
\* the path has come to there.
LEMMA LastAt ==
  ASSUME NEW r, Laid(r), NEW k, Straight(r, k), NEW i \in 1..Len(r.pt), i > k
  PROVE  r.arc[i] > r.arc[k]
PROOF
<1>1. k \in 2..(Len(r.pt) - 1) /\ ~Degenerate(r, k)
  BY DEF Straight
<1>2. Len(r.pt) \in Nat /\ SegmentsOf(r) = 1..(Len(r.pt) - 1)
  BY LaidParts
<1>3. k \in SegmentsOf(r) /\ k + 1 \in 1..Len(r.pt) /\ k + 1 <= i
  BY <1>1, <1>2
<1>4. /\ r.pt[k] \in Points /\ r.pt[k + 1] \in Points /\ r.arc[k] \in Nat
      /\ r.arc[k + 1] = r.arc[k] + Chord(r.pt[k], r.pt[k + 1])
  BY <1>3, LaidParts
<1>5. Chord(r.pt[k], r.pt[k + 1]) \in Nat /\ Chord(r.pt[k], r.pt[k + 1]) > 0
  BY <1>1, <1>4, ChordType DEF Degenerate
<1>6. r.arc[k + 1] <= r.arc[i] /\ r.arc[i] \in Nat
  BY <1>3, ArcsRise, LaidParts
<1> QED
  BY <1>4, <1>5, <1>6

LEMMA VertexFound ==
  ASSUME NEW r, Laid(r), NEW k, Straight(r, k)
  PROVE  VertexAt(r, r.arc[k]) = k
PROOF
<1> DEFINE n == Len(r.pt)
           Last(i) == /\ r.arc[i] = r.arc[k]
                      /\ \A m \in 1..n : r.arc[m] = r.arc[k] => m <= i
<1>1. n \in Nat /\ r.arc \in [1..n -> Nat] /\ k \in 1..n
  BY LaidParts DEF Straight
<1>2. Last(k)
  <2> SUFFICES ASSUME NEW m \in 1..n, r.arc[m] = r.arc[k], m > k
               PROVE  FALSE
    BY <1>1
  <2>1. r.arc[m] > r.arc[k]
    BY LastAt
  <2> QED
    BY <1>1, <2>1
<1>3. \A i \in 1..n : Last(i) => i = k
  BY <1>1, <1>2
<1>4. VertexAt(r, r.arc[k]) = CHOOSE i \in 1..n : Last(i)
  BY Zenon DEF VertexAt
<1> HIDE DEF Last
<1> QED
  BY Zenon, <1>1, <1>2, <1>3, <1>4

\* The offset measured in the frame of that point is the robot's.
LEMMA OffsetFound ==
  ASSUME NEW r, Laid(r), NEW k, Straight(r, k), NEW o \in Int,
         r.heading[k] = Direction(Tangents(r)[k][1], Tangents(r)[k][2])
  PROVE  OffsetAt(r, Beside(r, k, o), r.arc[k]) = o
PROOF
<1> DEFINE u == Tangents(r)[k]
           p == Beside(r, k, o)
           c == r.pt[k]
           h == r.heading[k]
           cos == CASE h = 0 -> 1 [] h = 4 -> -1 [] OTHER -> 0
           sin == CASE h = 2 -> 1 [] h = 6 -> -1 [] OTHER -> 0
<1>1. u \in Units /\ c \in Points /\ p = Off(c, u, o)
  BY StraightFeet
<1>2. c[1] \in Int /\ c[2] \in Int
  BY <1>1 DEF Points
<1>3. OffsetAt(r, p, r.arc[k]) = (p[2] - c[2]) * cos - (p[1] - c[1]) * sin
  BY Zenon, VertexFound DEF OffsetAt
<1>4. /\ h \in {0, 2, 4, 6}
      /\ h = 0 <=> u = <<1, 0>>
      /\ h = 2 <=> u = <<0, 1>>
      /\ h = 4 <=> u = <<-1, 0>>
      /\ h = 6 <=> u = <<0, -1>>
  BY Zenon, <1>1, UnitDirection
<1>5. p[1] = c[1] - o * u[2] /\ p[2] = c[2] + o * u[1]
  BY <1>1 DEF Off
<1> HIDE DEF u, p, c
<1>6. CASE h = 0
  <2>1. cos = 1 /\ sin = 0 /\ u[1] = 1 /\ u[2] = 0
    BY <1>4, <1>6
  <2> HIDE DEF cos, sin, h
  <2>2. p[2] - c[2] = o /\ p[1] - c[1] = 0
    BY <1>2, <1>5, <2>1
  <2>3. (p[2] - c[2]) * cos - (p[1] - c[1]) * sin = o
    BY <2>1, <2>2
  <2> QED
    BY <1>3, <2>3 DEF p, h, cos, sin
<1>7. CASE h = 2
  <2>1. cos = 0 /\ sin = 1 /\ u[1] = 0 /\ u[2] = 1
    BY <1>4, <1>7
  <2> HIDE DEF cos, sin, h
  <2>2. p[2] - c[2] = 0 /\ p[1] - c[1] = -o
    BY <1>2, <1>5, <2>1
  <2>3. (p[2] - c[2]) * cos - (p[1] - c[1]) * sin = o
    BY <2>1, <2>2
  <2> QED
    BY <1>3, <2>3 DEF p, h, cos, sin
<1>8. CASE h = 4
  <2>1. cos = -1 /\ sin = 0 /\ u[1] = -1 /\ u[2] = 0
    BY <1>4, <1>8
  <2> HIDE DEF cos, sin, h
  <2>2. p[2] - c[2] = -o /\ p[1] - c[1] = 0
    BY <1>2, <1>5, <2>1
  <2>3. (p[2] - c[2]) * cos - (p[1] - c[1]) * sin = o
    BY <2>1, <2>2
  <2> QED
    BY <1>3, <2>3 DEF p, h, cos, sin
<1>9. CASE h = 6
  <2>1. cos = 0 /\ sin = -1 /\ u[1] = 0 /\ u[2] = -1
    BY <1>4, <1>9
  <2> HIDE DEF cos, sin, h
  <2>2. p[2] - c[2] = 0 /\ p[1] - c[1] = o
    BY <1>2, <1>5, <2>1
  <2>3. (p[2] - c[2]) * cos - (p[1] - c[1]) * sin = o
    BY <2>1, <2>2
  <2> QED
    BY <1>3, <2>3 DEF p, h, cos, sin
<1> QED
  BY <1>4, <1>6, <1>7, <1>8, <1>9 DEF p

\* The remainder of a multiple, by the same multiple.
LEMMA ScaledRemainder ==
  ASSUME NEW b \in Nat \ {0}, NEW z \in Int
  PROVE  (b * z) % (8 * b) = b * (z % 8)
PROOF
<1> DEFINE q == z \div 8
           m == z % 8
           c == 8 * b
           a == b * z
           x == a \div c
           y == a % c
           w == b * m
<1>1. q \in Int /\ m \in Int /\ 0 <= m /\ m <= 7 /\ z = 8 * q + m
  OBVIOUS
<1>2. c \in Nat \ {0} /\ a \in Int
  OBVIOUS
<1>3. x \in Int /\ y \in Int /\ 0 <= y /\ y < c /\ a = c * x + y
  <2> HIDE DEF a, c
  <2> QED
    BY <1>2
<1> HIDE DEF q, m, x, y
<1>4. a = c * q + w
  BY <1>1
<1>5. w \in Int /\ 0 <= w /\ w < c
  <2>1. b * m >= 0 /\ b * m <= b * 7
    BY <1>1
  <2>2. b * 7 < 8 * b /\ b * m \in Int
    BY <1>1
  <2> QED
    BY <2>1, <2>2
<1> HIDE DEF a, c, w
<1>6. c * (q - x) = y - w
  <2>1. c * (q - x) = c * q - c * x
    BY <1>1, <1>2, <1>3
  <2>2. c * q \in Int /\ c * x \in Int
    BY <1>1, <1>2, <1>3
  <2> QED
    BY <1>3, <1>4, <1>5, <2>1, <2>2
<1>7. q - x = 0
  <2> DEFINE e == q - x
  <2>1. e \in Int
    BY <1>1, <1>3
  <2> HIDE DEF e
  <2>2. CASE e >= 1
    <3>1. c * e >= c
      BY <1>2, <2>1, <2>2
    <3> QED
      BY <1>2, <1>3, <1>5, <1>6, <3>1 DEF e
  <2>3. CASE e <= -1
    <3>1. c * e <= -c
      BY <1>2, <2>1, <2>3
    <3> QED
      BY <1>2, <1>3, <1>5, <1>6, <3>1 DEF e
  <2> QED
    BY <2>1, <2>2, <2>3 DEF e
<1>8. y = w
  <2>1. c * 0 = 0
    BY <1>2
  <2> QED
    BY <1>3, <1>5, <1>6, <1>7, <2>1
<1> QED
  BY <1>8 DEF y, w, m, a, c

\* The heading error at the arc of that point is the robot's, in forward gear.
LEMMA HeadingFound ==
  ASSUME NEW r, Laid(r), NEW k, Straight(r, k), NEW yw \in Int, r.gear[k] > 0,
         r.heading[k] = Direction(Tangents(r)[k][1], Tangents(r)[k][2])
  PROVE  HeadingErrorAt(r, yw, r.arc[k]) = Ds * Turned(yw, Facing(r, k, 0))
PROOF
<1> DEFINE u == Tangents(r)[k]
           d == Direction(u[1], u[2])
           n == Len(r.pt)
           Reach == {i \in Indices(r) : r.arc[i] <= Most(r.arc[k], 0)}
<1>1. u \in Units /\ k \in 2..(n - 1)
  <2>1. 0 \in Int
    OBVIOUS
  <2> QED
    BY <2>1, StraightFeet
<1>2. d \in Octants
  BY <1>1, UnitDirection DEF Octants
<1>3. Facing(r, k, 0) = d
  <2>1. Facing(r, k, 0) = (d + (IF r.gear[k] > 0 THEN 0 ELSE 4) + 0) % 8
    BY Zenon DEF Facing
  <2> HIDE DEF d
  <2> QED
    BY <1>2, <2>1 DEF Octants
<1>4. n \in Nat /\ r.arc \in [1..n -> Nat] /\ k \in 1..n /\ k + 1 \in 1..n /\ k # n
  BY <1>1, LaidParts
<1>5. Most(r.arc[k], 0) = r.arc[k] /\ r.arc[k] \in Nat
  BY <1>4 DEF Most
<1>6. Max(Reach) = k
  <2>1. Reach = {i \in 1..n : r.arc[i] <= r.arc[k]}
    BY Zenon, <1>5 DEF Indices
  <2>2. k \in Reach
    BY <1>4, <1>5, <2>1
  <2>3. \A i \in Reach : i \in 1..n /\ i <= k
    <3> SUFFICES ASSUME NEW i \in Reach, i > k
                 PROVE  FALSE
      BY <1>4, <2>1
    <3>1. i \in 1..n /\ r.arc[i] <= r.arc[k]
      BY Zenon, <2>1
    <3>2. r.arc[i] > r.arc[k]
      BY <3>1, LastAt
    <3> QED
      BY <1>4, <3>1, <3>2
  <2> DEFINE Top(i) == \A m \in Reach : i >= m
  <2>4. Max(Reach) = CHOOSE i \in Reach : Top(i)
    BY Zenon DEF Max
  <2> HIDE DEF Reach
  <2>5. Top(k) /\ \A i \in Reach : Top(i) => i = k
    BY <1>4, <2>2, <2>3
  <2> HIDE DEF Top
  <2> QED
    BY Zenon, <2>2, <2>4, <2>5
<1>7. r.heading \in [1..n -> Int]
  BY Parts DEF Laid
<1>8. HeadingAt(r, r.arc[k]) = Ds * d
  <2> DEFINE i == Max(Reach)
  <2>1. HeadingAt(r, r.arc[k])
          = IF i = n THEN Ds * r.heading[n]
            ELSE Ds * r.heading[i]
                   + (Most(r.arc[k], 0) - r.arc[i]) * Turned(r.heading[i + 1], r.heading[i])
    BY Zenon DEF HeadingAt
  <2> HIDE DEF i, Reach, d
  <2>2. i = k
    BY <1>6 DEF i
  <2>3. HeadingAt(r, r.arc[k])
          = Ds * d + (r.arc[k] - r.arc[k]) * Turned(r.heading[k + 1], r.heading[k])
    BY Zenon, <1>4, <1>5, <2>1, <2>2 DEF d
  <2> DEFINE t == Turned(r.heading[k + 1], r.heading[k])
  <2>4. t \in Int
    BY <1>4, <1>7 DEF Turned
  <2> HIDE DEF t
  <2>5. (r.arc[k] - r.arc[k]) * t = 0 /\ Ds * d \in Int
    BY <1>2, <1>5, <2>4, ReferenceAssumption DEF Octants
  <2>6. HeadingAt(r, r.arc[k]) = Ds * d + (r.arc[k] - r.arc[k]) * t
    BY Zenon, <2>3 DEF t
  <2> QED
    BY <2>5, <2>6
<1> HIDE DEF d
<1>9. ((Ds * yw - Ds * d + 4 * Ds) % (8 * Ds)) - 4 * Ds = Ds * Turned(yw, d)
  <2> DEFINE z == yw - d + 4
  <2>1. Ds \in Nat \ {0} /\ z \in Int /\ d \in Int /\ z % 8 \in Int
    BY <1>2, ReferenceAssumption DEF Octants
  <2>2. Ds * yw - Ds * d + 4 * Ds = Ds * z
    BY <2>1
  <2>3. (Ds * z) % (8 * Ds) = Ds * (z % 8)
    <3> HIDE DEF z
    <3> QED
      BY <2>1, ScaledRemainder
  <2>4. Turned(yw, d) = (z % 8) - 4
    BY DEF Turned
  <2> HIDE DEF z
  <2>5. Ds * (z % 8) - 4 * Ds = Ds * ((z % 8) - 4)
    BY <2>1
  <2> QED
    BY <2>2, <2>3, <2>4, <2>5
<1> QED
  BY Zenon, <1>3, <1>8, <1>9 DEF HeadingErrorAt

\* A number of units along a leg is the leg's direction.
LEMMA DirectionAlong ==
  ASSUME NEW u \in Units, NEW x \in Int, NEW y \in Int, NEW c \in Nat \ {0},
         x = c * u[1], y = c * u[2]
  PROVE  Direction(x, y) = Direction(u[1], u[2])
PROOF
<1>1. CASE u = <<1, 0>>
  <2>1. x = c /\ y = 0 /\ u[1] = 1 /\ u[2] = 0
    BY <1>1
  <2> QED
    BY <2>1 DEF Direction
<1>2. CASE u = <<-1, 0>>
  <2>1. x = -c /\ y = 0 /\ u[1] = -1 /\ u[2] = 0
    BY <1>2
  <2> QED
    BY <2>1 DEF Direction
<1>3. CASE u = <<0, 1>>
  <2>1. x = 0 /\ y = c /\ u[1] = 0 /\ u[2] = 1
    BY <1>3
  <2> QED
    BY <2>1 DEF Direction
<1>4. CASE u = <<0, -1>>
  <2>1. x = 0 /\ y = -c /\ u[1] = 0 /\ u[2] = -1
    BY <1>4
  <2> QED
    BY <2>1 DEF Direction
<1> QED
  BY <1>1, <1>2, <1>3, <1>4 DEF Units

\* The estimated heading of a straight point is the direction of travel there.
LEMMA StraightHeading ==
  ASSUME NEW r, Laid(r), NEW k, Straight(r, k)
  PROVE  Heading(r.pt, k) = Direction(Tangents(r)[k][1], Tangents(r)[k][2])
PROOF
<1> DEFINE u == Tangents(r)[k]
           a == r.pt[k - 1]
           b == r.pt[k]
           e == r.pt[k + 1]
           c == Chord(a, b)
           d == Chord(b, e)
           n == Len(r.pt)
<1>1. /\ k \in 2..(n - 1) /\ u \in Units /\ k - 1 \in SegmentsOf(r)
      /\ k \in SegmentsOf(r) /\ b = Along(a, u, c) /\ e = Along(b, u, d)
  <2>1. 0 \in Int
    OBVIOUS
  <2> QED
    BY <2>1, StraightFeet
<1>2. a \in Points /\ b \in Points /\ e \in Points
  <2>1. (k - 1) + 1 = k
    BY <1>1
  <2> QED
    BY Zenon, <1>1, <2>1, LaidParts
<1>3. c \in Nat \ {0} /\ d \in Nat
  <2>1. a # b
    <3>1. (k - 1) + 1 = k
      BY <1>1
    <3> QED
      BY Zenon, <3>1 DEF Straight, Degenerate
  <2> HIDE DEF a, b, e
  <2> QED
    BY <1>2, <2>1, ChordType
<1>4. n \in Nat
  BY LaidParts
<1>5. Heading(r.pt, k) = Direction(e[1] - a[1], e[2] - a[2])
  <2>1. Most(k - 1, 1) = k - 1 /\ Least(k + 1, n) = k + 1
    BY <1>1, <1>4 DEF Most, Least
  <2> QED
    BY Zenon, <2>1 DEF Heading
<1> HIDE DEF u, a, b, e, c, d
<1>6. u[1] \in Int /\ u[2] \in Int /\ a[1] \in Int /\ a[2] \in Int
  BY <1>1, <1>2 DEF Units, Points
<1>7. /\ b[1] = a[1] + c * u[1] /\ b[2] = a[2] + c * u[2]
      /\ e[1] = b[1] + d * u[1] /\ e[2] = b[2] + d * u[2]
  BY <1>1 DEF Along
<1> DEFINE m == c + d
<1>8. m \in Nat \ {0} /\ e[1] - a[1] = m * u[1] /\ e[2] - a[2] = m * u[2]
      /\ e[1] - a[1] \in Int /\ e[2] - a[2] \in Int
  <2>1. \A v \in Int : c * v + d * v = m * v /\ c * v \in Int /\ d * v \in Int
    BY <1>3
  <2> QED
    BY <1>3, <1>6, <1>7, <2>1
<1> HIDE DEF m
<1>9. Direction(e[1] - a[1], e[2] - a[2]) = Direction(u[1], u[2])
  BY <1>1, <1>8, DirectionAlong
<1> QED
  BY <1>5, <1>9 DEF u

\* Where the next projection is taken is on the trail.
LEMMA TrailOn ==
  ASSUME NEW r, NEW k \in Indices(r), Straight(r, k), Indices(r) \subseteq Nat,
         NEW j, (j = 0 /\ k = 2) \/ (j \in Trail(r) /\ k \in j..(j + MaxStride))
  PROVE  k \in Trail(r)
PROOF
<1> DEFINE Open == {i \in Indices(r) : Straight(r, i)}
<1>1. Trail(r) = {i \in Open : /\ 2 \in Open
                    /\ \A m \in 2..(i - 1) : Open \cap (m + 1)..(m + MaxStride) # {}}
  BY Zenon DEF Trail
<1>2. k \in Open /\ k \in Nat /\ MaxStride \in Nat
  BY TrackingAssumption
<1>3. CASE j = 0 /\ k = 2
  <2>1. 2..(k - 1) = {}
    BY <1>3
  <2> QED
    BY Zenon, <1>1, <1>2, <1>3, <2>1
<1>4. CASE j \in Trail(r) /\ k \in j..(j + MaxStride)
  <2>1. j \in Open /\ 2 \in Open
        /\ \A m \in 2..(j - 1) : Open \cap (m + 1)..(m + MaxStride) # {}
    BY Zenon, <1>1, <1>4
  <2>2. j \in Nat
    BY <2>1
  <2> HIDE DEF Open
  <2>3. ASSUME NEW m \in 2..(k - 1)
        PROVE  Open \cap (m + 1)..(m + MaxStride) # {}
    <3>1. CASE m < j
      <4>1. m \in 2..(j - 1)
        BY <1>2, <2>2, <3>1
      <4> QED
        BY <2>1, <4>1
    <3>2. CASE ~(m < j)
      <4>1. k \in (m + 1)..(m + MaxStride)
        BY <1>2, <1>4, <2>2, <3>2
      <4> QED
        BY Zenon, <1>2, <4>1
    <3> QED
      BY <3>1, <3>2
  <2> QED
    BY Zenon, <1>1, <1>2, <2>1, <2>3
<1> QED
  BY <1>3, <1>4

\* Headings along the path where a follower gets, and forward gear.
Headed(r) ==
    \A k \in Trail(r) :
        r.heading[k] = Direction(Tangents(r)[k][1], Tangents(r)[k][2])

\* One step of a follower on a clear way.
LEMMA FollowerStep ==
  ASSUME NEW r, Laid(r), Headed(r), ClearAhead(r), NEW k \in Indices(r),
         Straight(r, k), NEW offset \in Offsets, NEW slant \in Slants,
         NEW j, NEW sPrev,
         \/ j = 0 /\ k = 2 /\ sPrev = NoArc
         \/ j \in Trail(r) /\ k \in j..(j + MaxStride) /\ sPrev = r.arc[j]
  PROVE  LET p == Beside(r, k, offset)
             yw == Facing(r, k, slant)
             answer == ClosestPoint(r, p, yw, sPrev)
         IN  /\ k \in Trail(r) /\ answer.stage # 3 /\ answer.arc = r.arc[k]
             /\ answer.lat = OffsetAt(r, p, answer.arc)
             /\ r.gear[k] > 0 =>
                   HeadingErrorAt(r, yw, answer.arc) = Ds * Turned(yw, Facing(r, k, 0))
PROOF
<1> DEFINE p == Beside(r, k, offset)
           yw == Facing(r, k, slant)
           answer == ClosestPoint(r, p, yw, sPrev)
<1>1. /\ Len(r.pt) \in Nat /\ Indices(r) = 1..Len(r.pt) /\ Indices(r) \subseteq Nat
  BY LaidParts DEF Indices
<1>2. k \in Trail(r)
  <2> HIDE DEF p, yw, answer
  <2>1. (j = 0 /\ k = 2) \/ (j \in Trail(r) /\ k \in j..(j + MaxStride))
    BY Zenon
  <2> QED
    BY <1>1, <2>1, TrailOn
<1>3. \A i \in Trail(r) : i \in Indices(r)
  BY Zenon DEF Trail
<1>4. FoundAt(r, k, offset, answer)
  <2>1. CASE j = 0 /\ k = 2 /\ sPrev = NoArc
    <3>1. Unrivalled(r, 2, SegmentsOf(r)) /\ Straight(r, 2)
      BY Zenon, <1>2, <2>1 DEF ClearAhead
    <3> QED
      BY Zenon, <2>1, <3>1, FoundFirst
  <2>2. CASE j \in Trail(r) /\ k \in j..(j + MaxStride) /\ sPrev = r.arc[j]
    <3>1. j \in 1..Len(r.pt) /\ j \in Nat /\ k \in Nat /\ MaxStride \in Nat
      BY Zenon, <1>1, <1>3, <2>2, TrackingAssumption
    <3>2. j <= k /\ j \in (k - MaxStride)..k
      BY <2>2, <3>1
    <3>3. j \in Trail(r) \cap (k - MaxStride)..k
      BY Zenon, <2>2, <3>2
    <3>4. /\ r.arc[k - 1] <= r.arc[j] + FwdM
          /\ Unrivalled(r, k, InWindow(r, r.arc[j], BackM, FwdM))
      BY Zenon, <1>2, <3>3 DEF ClearAhead
    <3>5. FoundAt(r, k, offset, ClosestPoint(r, p, yw, r.arc[j]))
      BY Zenon, <3>1, <3>2, <3>4, FoundNext
    <3> QED
      BY Zenon, <2>2, <3>5
  <2> QED
    BY Zenon, <2>1, <2>2
<1> HIDE DEF answer
<1>5. answer.stage # 3 /\ answer.arc = r.arc[k] /\ answer.lat = offset
  BY Zenon, <1>4 DEF FoundAt
<1>6. offset \in Int
  BY TrackingAssumption
<1>7. r.heading[k] = Direction(Tangents(r)[k][1], Tangents(r)[k][2])
  BY Zenon, <1>2 DEF Headed
<1>8. OffsetAt(r, p, r.arc[k]) = offset
  BY Zenon, <1>6, <1>7, OffsetFound
<1>9. yw \in Int
  <2>1. slant \in Int /\ Tangents(r)[k] \in Units
    <3>1. slant \in Int
      BY TrackingAssumption
    <3> QED
      BY <1>6, <3>1, StraightFeet
  <2>2. Direction(Tangents(r)[k][1], Tangents(r)[k][2]) \in Int
    BY <2>1, UnitDirection
  <2> QED
    BY <2>1, <2>2 DEF Facing
<1>10. r.gear[k] > 0 => HeadingErrorAt(r, yw, r.arc[k]) = Ds * Turned(yw, Facing(r, k, 0))
  BY Zenon, <1>7, <1>9, HeadingFound
<1> QED
  BY Zenon, <1>2, <1>5, <1>8, <1>10 DEF answer

-----------------------------------------------------------------------------
(***************************************************************************)
(* A robot at the start of a served track is found there.                  *)
(***************************************************************************)

\* A point of the mesh lines that is not the origin is at least as far from a
\* robot within half a sample of the origin as the origin is.
LEMMA OriginNearest ==
  ASSUME NEW x \in Int, NEW y \in Int, NEW v \in Int, NEW w \in Int,
         2 * (Size(v) + Size(w)) <= Ds,
         (x >= Ds \/ x <= -Ds) \/ (y >= Ds \/ y <= -Ds)
  PROVE  v * v + w * w <= (v - x) * (v - x) + (w - y) * (w - y)
PROOF
<1> DEFINE s == Size(v)
           t == Size(w)
           e == s + t
<1>1. /\ s \in Nat /\ t \in Nat /\ v * v = s * s /\ w * w = t * t
      /\ (v = s \/ v = -s) /\ (w = t \/ w = -t) /\ Ds \in Nat
  BY ReferenceAssumption DEF Size
<1> HIDE DEF s, t
<1>2. e \in Nat /\ e * e >= s * s + t * t
  <2>1. e * e = s * s + t * t + 2 * (s * t) /\ s * t >= 0
    BY <1>1
  <2>2. s * s \in Int /\ t * t \in Int /\ s * t \in Int
    BY <1>1
  <2> QED
    BY <1>1, <2>1, <2>2
<1>3. 2 * e <= Ds
  BY DEF s, t
<1>4. ASSUME NEW z \in Int, z >= e \/ z <= -e
      PROVE  z * z >= e * e /\ z * z \in Nat
  <2>1. Size(z) \in Nat /\ e <= Size(z) /\ Size(z) * Size(z) = z * z
    BY <1>2, <1>4 DEF Size
  <2>2. Square(e) <= Square(Size(z))
    BY Zenon, <1>2, <2>1, SquaresGrow
  <2>3. z * z \in Nat
    BY SquareOrder
  <2> QED
    BY <2>1, <2>2, <2>3 DEF Square
<1> HIDE DEF e
<1>5. s <= e /\ t <= e
  BY <1>1 DEF e
<1>6. \A z \in Int : z * z \in Nat
  BY SquareOrder
<1>7. v - x \in Int /\ w - y \in Int
  OBVIOUS
<1> DEFINE a == (v - x) * (v - x)
           b == (w - y) * (w - y)
<1>8. a \in Nat /\ b \in Nat
  BY Zenon, <1>6, <1>7
<1>9. a >= e * e \/ b >= e * e
  <2>1. CASE x >= Ds \/ x <= -Ds
    <3>1. v - x >= e \/ v - x <= -e
      BY <1>1, <1>2, <1>3, <1>5, <2>1
    <3> QED
      BY Zenon, <1>4, <1>7, <3>1
  <2>2. CASE y >= Ds \/ y <= -Ds
    <3>1. w - y >= e \/ w - y <= -e
      BY <1>1, <1>2, <1>3, <1>5, <2>2
    <3> QED
      BY Zenon, <1>4, <1>7, <3>1
  <2> QED
    BY <2>1, <2>2
<1>10. e * e \in Int /\ s * s \in Int /\ t * t \in Int
  BY <1>1, <1>2
<1> HIDE DEF a, b
<1>11. v * v + w * w <= a + b
  BY <1>1, <1>2, <1>8, <1>9, <1>10
<1> QED
  BY <1>11 DEF a, b

\* A leg of the mesh that does not hold the origin keeps a sample away from it.
LEMMA LegAway ==
  ASSUME NEW ax, NEW ay, NEW bx, NEW by, NEW x, NEW y,
         OfLeg(ax, ay, bx, by, x, y), ~(Amid(ax, bx, 0) /\ Amid(ay, by, 0))
  PROVE  (x >= Ds \/ x <= -Ds) \/ (y >= Ds \/ y <= -Ds)
PROOF
<1>1. /\ ax \in Int /\ ay \in Int /\ bx \in Int /\ by \in Int /\ x \in Int /\ y \in Int
      /\ Multiple(ax) /\ Multiple(ay) /\ Multiple(bx) /\ Multiple(by)
      /\ Amid(ax, bx, x) /\ Amid(ay, by, y)
  BY DEF OfLeg
<1>2. \A z \in Int : Multiple(z) => (z > 0 => z >= Ds) /\ (z < 0 => z <= -Ds)
  BY OneSampleAtLeast
<1>3. Ds \in Nat \ {0}
  BY ReferenceAssumption
<1>4. ASSUME NEW a \in Int, NEW b \in Int, NEW z \in Int, Multiple(a), Multiple(b),
             Amid(a, b, z), ~Amid(a, b, 0)
      PROVE  z >= Ds \/ z <= -Ds
  <2>1. (a > 0 /\ b > 0) \/ (a < 0 /\ b < 0)
    BY <1>4 DEF Amid
  <2>2. CASE a > 0 /\ b > 0
    <3>1. a >= Ds /\ b >= Ds
      BY <1>2, <1>4, <2>2
    <3> QED
      BY <1>3, <1>4, <3>1 DEF Amid
  <2>3. CASE a < 0 /\ b < 0
    <3>1. a <= -Ds /\ b <= -Ds
      BY <1>2, <1>4, <2>3
    <3> QED
      BY <1>3, <1>4, <3>1 DEF Amid
  <2> QED
    BY <2>1, <2>2, <2>3
<1>5. CASE ~Amid(ax, bx, 0)
  BY Zenon, <1>1, <1>4, <1>5
<1>6. CASE ~Amid(ay, by, 0)
  BY Zenon, <1>1, <1>4, <1>6
<1> QED
  BY <1>5, <1>6

\* The same of points.
LEMMA StartNearest ==
  ASSUME NEW c \in Points, NEW a \in Points, NEW b \in Points, NEW f \in Points,
         NEW p \in Points, Aligned(a, c), Aligned(b, c), Parallel(a, b),
         Lies(a, b, f), ~Lies(a, b, c), 2 * Chord(p, c) <= Ds
  PROVE  Distance2(p, c) <= Distance2(p, f)
PROOF
<1> DEFINE ax == a[1] - c[1]
           ay == a[2] - c[2]
           bx == b[1] - c[1]
           by == b[2] - c[2]
           x == f[1] - c[1]
           y == f[2] - c[2]
           v == p[1] - c[1]
           w == p[2] - c[2]
<1>1. /\ a[1] \in Int /\ a[2] \in Int /\ b[1] \in Int /\ b[2] \in Int
      /\ c[1] \in Int /\ c[2] \in Int /\ f[1] \in Int /\ f[2] \in Int
      /\ p[1] \in Int /\ p[2] \in Int
  BY DEF Points
<1>2. Amid(a[1], b[1], f[1]) /\ Amid(a[2], b[2], f[2])
  BY LiesAmid
<1>3. Amid(ax, bx, x) /\ Amid(ay, by, y)
  BY <1>1, <1>2 DEF Amid
<1>4. ~(Amid(ax, bx, 0) /\ Amid(ay, by, 0))
  <2>1. ~(Amid(a[1], b[1], c[1]) /\ Amid(a[2], b[2], c[2]))
    BY LiesAmid
  <2> QED
    BY <1>1, <2>1 DEF Amid
<1>5. OfLeg(ax, ay, bx, by, x, y)
  <2>1. /\ ax \in Int /\ ay \in Int /\ bx \in Int /\ by \in Int /\ x \in Int /\ y \in Int
        /\ ax = bx \/ ay = by
    BY <1>1 DEF Parallel
  <2>2. Multiple(ax) /\ Multiple(ay) /\ Multiple(bx) /\ Multiple(by)
    BY DEF Aligned
  <2> QED
    BY Zenon, <1>3, <2>1, <2>2 DEF OfLeg
<1>6. v \in Int /\ w \in Int /\ x \in Int /\ y \in Int /\ 2 * (Size(v) + Size(w)) <= Ds
  BY <1>1 DEF Chord
<1>7. /\ p[1] - f[1] = v - x /\ p[2] - f[2] = w - y
  BY <1>1
<1> HIDE DEF ax, ay, bx, by, x, y, v, w
<1>8. (x >= Ds \/ x <= -Ds) \/ (y >= Ds \/ y <= -Ds)
  BY <1>4, <1>5, LegAway
<1>9. v * v + w * w <= (v - x) * (v - x) + (w - y) * (w - y)
  BY <1>6, <1>8, OriginNearest
<1>10. Distance2(p, c) = v * v + w * w
  BY Zenon DEF Distance2, Square, v, w
<1>11. Distance2(p, f) = (v - x) * (v - x) + (w - y) * (w - y)
  BY Zenon, <1>7 DEF Distance2, Square
<1> QED
  BY Zenon, <1>9, <1>10, <1>11

\* The foot on the first segment is no further from a robot than the start is,
\* and no further along than the robot is away.
LEMMA FootNearStart ==
  ASSUME NEW v \in Int, NEW w \in Int, NEW u \in Units, NEW c \in Nat, NEW k,
         k = Between(v * u[1] + w * u[2], 0, c)
  PROVE  /\ k \in Int /\ k <= Size(v) + Size(w)
         /\ (v - k * u[1]) * (v - k * u[1]) + (w - k * u[2]) * (w - k * u[2])
              <= v * v + w * w
PROOF
<1> DEFINE S(y) == y * y
<1>1. \A y \in Int : S(y) \in Nat
  BY SquareOrder
<1>2. ASSUME NEW y \in Int, NEW z \in Int, z = Between(y, 0, c)
      PROVE  z \in Int /\ z <= Size(y) /\ S(y - z) <= S(y)
  <2>1. CASE y <= 0
    <3>1. z = 0
      BY <1>2, <2>1 DEF Between
    <3> QED
      BY <2>1, <3>1 DEF Size
  <2>2. CASE y > 0 /\ y <= c
    <3>1. z = y /\ y - z = 0
      BY <1>2, <2>2 DEF Between
    <3>2. S(y - z) = 0 /\ S(y) \in Nat
      BY <1>1, <3>1
    <3> HIDE DEF S
    <3> QED
      BY <2>2, <3>1, <3>2 DEF Size
  <2>3. CASE y > c
    <3>1. z = c /\ y - z \in Nat /\ y \in Nat /\ y - z <= y
      BY <1>2, <2>3 DEF Between
    <3>2. Square(y - z) <= Square(y)
      BY Zenon, <3>1, SquaresGrow
    <3> QED
      BY <2>3, <3>1, <3>2 DEF Square, Size
  <2> QED
    BY <2>1, <2>2, <2>3
<1>3. \A y \in Int : Size(y) \in Nat /\ Size(-y) = Size(y) /\ S(-y) = S(y)
  BY DEF Size
<1>4. k \in Int
  <2> DEFINE x == v * u[1] + w * u[2]
  <2>1. x \in Int
    BY DEF Units
  <2> HIDE DEF x
  <2>2. k = Between(x, 0, c)
    BY DEF x
  <2> QED
    BY <2>1, <2>2 DEF Between
<1> HIDE DEF S
<1>5. k <= Size(v) + Size(w) /\ S(v - k * u[1]) + S(w - k * u[2]) <= S(v) + S(w)
  <2>1. CASE u = <<1, 0>>
    <3>1. v * u[1] + w * u[2] = v /\ v - k * u[1] = v - k /\ w - k * u[2] = w
      BY <1>4, <2>1
    <3>2. k <= Size(v) /\ S(v - k) <= S(v) /\ v - k \in Int
      BY <1>2, <1>4, <3>1
    <3>3. S(v - k * u[1]) = S(v - k) /\ S(w - k * u[2]) = S(w)
      BY Zenon, <3>1
    <3>4. S(v - k) <= S(v) /\ k <= Size(v)
      BY Zenon, <3>2
    <3>5. S(v - k) \in Nat /\ S(v) \in Nat /\ S(w) \in Nat /\ Size(v) \in Nat /\ Size(w) \in Nat
      BY Zenon, <1>1, <1>3, <3>2
    <3> QED
      BY <1>4, <3>3, <3>4, <3>5
  <2>2. CASE u = <<-1, 0>>
    <3>1. v * u[1] + w * u[2] = -v /\ v - k * u[1] = -(-v - k) /\ w - k * u[2] = w
      BY <1>4, <2>2
    <3>2. k <= Size(-v) /\ S(-v - k) <= S(-v) /\ -v - k \in Int /\ -v \in Int
      BY <1>2, <1>4, <3>1
    <3>3. S(v - k * u[1]) = S(-v - k) /\ S(w - k * u[2]) = S(w)
      BY Zenon, <1>3, <3>1, <3>2
    <3>4. S(-v - k) <= S(v) /\ k <= Size(v)
      BY Zenon, <1>3, <3>2
    <3>5. S(-v - k) \in Nat /\ S(v) \in Nat /\ S(w) \in Nat /\ Size(v) \in Nat /\ Size(w) \in Nat
      BY Zenon, <1>1, <1>3, <3>2
    <3> QED
      BY <1>4, <3>3, <3>4, <3>5
  <2>3. CASE u = <<0, 1>>
    <3>1. v * u[1] + w * u[2] = w /\ v - k * u[1] = v /\ w - k * u[2] = w - k
      BY <1>4, <2>3
    <3>2. k <= Size(w) /\ S(w - k) <= S(w) /\ w - k \in Int
      BY <1>2, <1>4, <3>1
    <3>3. S(w - k * u[2]) = S(w - k) /\ S(v - k * u[1]) = S(v)
      BY Zenon, <3>1
    <3>4. S(w - k) <= S(w) /\ k <= Size(w)
      BY Zenon, <3>2
    <3>5. S(w - k) \in Nat /\ S(v) \in Nat /\ S(w) \in Nat /\ Size(v) \in Nat /\ Size(w) \in Nat
      BY Zenon, <1>1, <1>3, <3>2
    <3> QED
      BY <1>4, <3>3, <3>4, <3>5
  <2>4. CASE u = <<0, -1>>
    <3>1. v * u[1] + w * u[2] = -w /\ v - k * u[1] = v /\ w - k * u[2] = -(-w - k)
      BY <1>4, <2>4
    <3>2. k <= Size(-w) /\ S(-w - k) <= S(-w) /\ -w - k \in Int /\ -w \in Int
      BY <1>2, <1>4, <3>1
    <3>3. S(w - k * u[2]) = S(-w - k) /\ S(v - k * u[1]) = S(v)
      BY Zenon, <1>3, <3>1, <3>2
    <3>4. S(-w - k) <= S(w) /\ k <= Size(w)
      BY Zenon, <1>3, <3>2
    <3>5. S(-w - k) \in Nat /\ S(v) \in Nat /\ S(w) \in Nat /\ Size(v) \in Nat /\ Size(w) \in Nat
      BY Zenon, <1>1, <1>3, <3>2
    <3> QED
      BY <1>4, <3>3, <3>4, <3>5
  <2> QED
    BY <2>1, <2>2, <2>3, <2>4 DEF Units
<1> QED
  BY Zenon, <1>4, <1>5 DEF S

\* The square of a distance is at most that of the way along the axes.
LEMMA ChordSquare ==
  ASSUME NEW p \in Points, NEW q \in Points
  PROVE  Distance2(p, q) <= Square(Chord(p, q))
PROOF
<1> DEFINE v == p[1] - q[1]
           w == p[2] - q[2]
           s == Size(v)
           t == Size(w)
<1>1. v \in Int /\ w \in Int
  BY DEF Points
<1> HIDE DEF v, w
<1>2. s \in Nat /\ t \in Nat /\ v * v = s * s /\ w * w = t * t
  BY <1>1 DEF Size
<1>3. Distance2(p, q) = v * v + w * w /\ Chord(p, q) = s + t
  BY Zenon DEF Distance2, Square, Chord, v, w
<1> HIDE DEF s, t
<1>4. (s + t) * (s + t) = s * s + t * t + 2 * (s * t) /\ s * t >= 0
  BY <1>2
<1>5. s * s \in Int /\ t * t \in Int /\ s * t \in Int
  BY <1>2
<1> QED
  BY <1>2, <1>3, <1>4, <1>5 DEF Square

\* What is asked of the start of a track.
StartsClear(r) ==
    /\ Laid(r) /\ ClearOfStart(r) /\ r.pt[1] # r.pt[2] /\ r.gear[1] > 0
    /\ r.heading[1] = Direction(Tangents(r)[1][1], Tangents(r)[1][2])

\* The foot of a robot near the start.
LEMMA StartFoot ==
  ASSUME NEW r, StartsClear(r), NEW p \in Points, 2 * Chord(p, r.pt[1]) <= Ds
  PROVE  /\ 1 \in SegmentsOf(r) /\ Feet(r, p)[1].at \in Points
         /\ Feet(r, p)[1].arc <= Ds
         /\ Feet(r, p)[1].dist2 = Distance2(p, Feet(r, p)[1].at)
         /\ Feet(r, p)[1].dist2 <= Distance2(p, r.pt[1])
         /\ Feet(r, p)[1].dir = r.heading[1] /\ r.heading[1] \in Octants
PROOF
<1> DEFINE o == r.pt[1]
           u == Tangents(r)[1]
           c == Chord(o, r.pt[1 + 1])
           v == p[1] - o[1]
           w == p[2] - o[2]
           x == v * u[1] + w * u[2]
           k == Between(x, 0, c)
           f == Feet(r, p)[1]
<1>1. Laid(r) /\ 1 \in SegmentsOf(r)
  <2>1. Laid(r) /\ Len(r.pt) > 1
    BY DEF StartsClear, ClearOfStart
  <2> QED
    BY <2>1, LaidParts
<1>2. o \in Points /\ r.pt[1 + 1] \in Points /\ r.arc[1] = 0
  BY Zenon, <1>1, LaidParts
<1>3. ~Degenerate(r, 1)
  <2>1. 1 + 1 = 2
    OBVIOUS
  <2> QED
    BY Zenon, <2>1 DEF StartsClear, Degenerate
<1>4. c \in Nat
  <2> DEFINE q == r.pt[1 + 1]
  <2>1. q \in Points /\ o \in Points
    BY <1>2
  <2> HIDE DEF q, o
  <2>2. Chord(o, q) \in Nat
    BY <2>1, ChordType
  <2> QED
    BY Zenon, <2>2 DEF q
<1>5. /\ f.at \in Points /\ f.dist2 = Distance2(p, f.at) /\ f.dir = Direction(u[1], u[2])
      /\ f.at = Along(o, u, k) /\ f.arc = r.arc[1] + k /\ u \in Units
  <2>1. ASSUME NEW j \in SegmentsOf(r), ~Degenerate(r, j)
        PROVE  LET a == r.pt[j]
                   t == Tangents(r)[j]
                   g == Feet(r, p)[j]
                   m == Between((p[1] - a[1]) * t[1] + (p[2] - a[2]) * t[2], 0,
                                Chord(a, r.pt[j + 1]))
               IN  /\ g.at \in Points /\ g.dist2 = Distance2(p, g.at)
                   /\ g.dir = Direction(t[1], t[2]) /\ g.at = Along(a, t, m)
                   /\ g.arc = r.arc[j] + m /\ t \in Units
    BY Zenon, <1>1, <2>1, FootOf
  <2> QED
    BY Zenon, <1>1, <1>3, <2>1
<1>6. p[1] \in Int /\ p[2] \in Int /\ o[1] \in Int /\ o[2] \in Int
  <2> HIDE DEF o
  <2> QED
    BY <1>2 DEF Points
<1>7. v \in Int /\ w \in Int
  BY <1>6
<1>8. Chord(p, o) = Size(v) + Size(w) /\ Distance2(p, o) = v * v + w * w
  BY Zenon DEF Chord, Distance2, Square
<1>9. u[1] \in Int /\ u[2] \in Int
  BY <1>5 DEF Units
<1> HIDE DEF o, u, c, f, v, w
<1>10. /\ k \in Int /\ k <= Size(v) + Size(w)
       /\ (v - k * u[1]) * (v - k * u[1]) + (w - k * u[2]) * (w - k * u[2])
            <= v * v + w * w
  BY Zenon, <1>4, <1>5, <1>7, FootNearStart
<1>11. Distance2(p, f.at)
         = (v - k * u[1]) * (v - k * u[1]) + (w - k * u[2]) * (w - k * u[2])
  <2> DEFINE l == k
  <2>1. l \in Int /\ f.at = Along(o, u, l)
    BY <1>5, <1>10
  <2> HIDE DEF l
  <2>2. l * u[1] \in Int /\ l * u[2] \in Int
    BY <1>9, <2>1
  <2>3. f.at[1] = o[1] + l * u[1] /\ f.at[2] = o[2] + l * u[2]
    BY <2>1 DEF Along
  <2>4. p[1] - f.at[1] = v - l * u[1] /\ p[2] - f.at[2] = w - l * u[2]
    BY <1>6, <2>2, <2>3 DEF v, w
  <2>5. Distance2(p, f.at)
          = (v - l * u[1]) * (v - l * u[1]) + (w - l * u[2]) * (w - l * u[2])
    BY Zenon, <2>4 DEF Distance2, Square
  <2> QED
    BY <2>5 DEF l
<1> HIDE DEF k, x
<1>12. f.arc <= Ds
  <2>1. Size(v) \in Nat /\ Size(w) \in Nat /\ Ds \in Nat
    BY <1>7, ReferenceAssumption DEF Size
  <2>2. 2 * (Size(v) + Size(w)) <= Ds
    BY <1>8 DEF o
  <2> QED
    BY <1>2, <1>5, <1>10, <2>1, <2>2
<1>13. f.dist2 <= Distance2(p, o)
  BY Zenon, <1>5, <1>8, <1>10, <1>11
<1>14. f.dir = r.heading[1]
  BY Zenon, <1>5 DEF StartsClear, u
<1>15. f.dir \in Octants
  <2>1. f.dir \in {0, 2, 4, 6}
    BY Zenon, <1>5, UnitDirection
  <2> QED
    BY <2>1 DEF Octants
<1> QED
  BY Zenon, <1>1, <1>5, <1>12, <1>13, <1>14, <1>15 DEF f, o

\* It is picked, and the answer is near the start of the track.
LEMMA StartFound ==
  ASSUME NEW r, StartsClear(r), NEW p \in Points, 2 * Chord(p, r.pt[1]) <= Ds,
         NEW yw \in {NoYaw, r.heading[1]}
  PROVE  LET answer == ClosestPoint(r, p, yw, NoArc)
         IN  answer.stage # 3 /\ answer.arc <= Ds
PROOF
<1> DEFINE n == Len(r.pt)
           o == r.pt[1]
           feet == Feet(r, p)
           ok == Admissible(r, feet, yw)
           anywhere == Pick(ok, feet, NoArc)
           Near(i) == i > 0 /\ feet[i].dist2 <= Square(ReacquireM)
           d == Distance2(p, o)
<1>1. /\ 1 \in SegmentsOf(r) /\ feet[1].at \in Points /\ feet[1].arc <= Ds
      /\ feet[1].dist2 = Distance2(p, feet[1].at) /\ feet[1].dist2 <= d
      /\ feet[1].dir = r.heading[1] /\ r.heading[1] \in Octants
  BY Zenon, StartFoot
<1>2. Laid(r) /\ ClearOfStart(r) /\ r.gear[1] > 0
  BY DEF StartsClear
<1>3. /\ SegmentsOf(r) = 1..(n - 1) /\ n \in Nat \ {0} /\ r.pt \in [1..n -> Points]
      /\ r.pt \in Routes
  BY <1>2, LaidParts
<1>4. r \in References /\ Fits(r) /\ Meshed(r.pt)
  BY <1>2 DEF Laid
<1>5. FeetKnown(feet, n - 1)
  BY Zenon, <1>4, FeetType
<1>6. o \in Points /\ 1 \in 1..n
  BY <1>3
<1>7. 1 \in ok
  <2>1. CASE yw = NoYaw
    BY Zenon, <1>1, <2>1 DEF Admissible
  <2>2. CASE yw = r.heading[1]
    <3>1. Turned(yw, feet[1].dir) = 0
      <4> DEFINE h == r.heading[1]
      <4>1. h \in Octants
        BY <1>1
      <4> HIDE DEF h
      <4>2. Turned(h, h) = 0
        BY <4>1 DEF Turned, Octants
      <4> QED
        BY Zenon, <1>1, <2>2, <4>2 DEF h
    <3>2. Size(0) <= 2
      BY DEF Size
    <3> QED
      BY Zenon, <1>1, <1>2, <3>1, <3>2 DEF Admissible
  <2> QED
    BY <2>1, <2>2
<1> HIDE DEF feet, ok, n, o
<1>8. d \in Int /\ feet[1].dist2 \in Int
  <2>1. d \in Int
    BY <1>6 DEF Distance2, Square, Points
  <2>2. feet[1].dist2 \in Int
    BY Zenon, <1>1, <1>3, <1>5 DEF FeetKnown
  <2> QED
    BY <2>1, <2>2
<1>9. 4 * d <= Square(TieEps)
  <2> DEFINE c == Chord(p, o)
  <2>1. c \in Nat /\ 2 * c <= Ds /\ Ds \in Nat /\ TieEps \in Nat /\ Ds <= TieEps
    <3>1. c \in Nat
      BY <1>6, ChordType
    <3>2. 2 * c <= Ds
      BY DEF o
    <3> QED
      BY <3>1, <3>2, ReferenceAssumption, ProjectionAssumption, FollowAssumption
  <2>2. d <= Square(c)
    BY Zenon, <1>6, ChordSquare
  <2> HIDE DEF c, d
  <2>3. 2 * c \in Nat /\ 2 * c <= TieEps
    BY <2>1
  <2>4. Square(2 * c) <= Square(TieEps)
    BY Zenon, <2>1, <2>3, SquaresGrow
  <2>5. Square(2 * c) = 4 * Square(c) /\ Square(c) \in Int /\ Square(TieEps) \in Int
    BY <2>1 DEF Square
  <2> QED
    BY <1>8, <2>2, <2>4, <2>5
<1> HIDE DEF d
<1>10. ASSUME NEW i \in SegmentsOf(r), i # 1
       PROVE  d <= feet[i].dist2
  <2> DEFINE a == r.pt[i]
             b == r.pt[i + 1]
             f == feet[i].at
  <2>1. i \in 1..n /\ i + 1 \in 1..n
    BY <1>3
  <2>2. a \in Points /\ b \in Points /\ Parallel(a, b)
    BY Zenon, <1>2, LaidParts
  <2>3. f \in Points /\ Lies(a, b, f) /\ feet[i].dist2 = Distance2(p, f)
    BY Zenon, <1>2, FootOf DEF feet
  <2>4. Aligned(a, o) /\ Aligned(b, o)
    BY Zenon, <1>3, <1>4, <1>6, <2>1, GridAligned DEF o, n
  <2>5. ~Lies(a, b, o)
    BY Zenon, <1>2, <1>10, OnLies DEF ClearOfStart, o
  <2>6. 2 * Chord(p, o) <= Ds
    BY DEF o
  <2> HIDE DEF a, b, f
  <2>7. Distance2(p, o) <= Distance2(p, f)
    BY Zenon, <1>6, <2>2, <2>3, <2>4, <2>5, <2>6, StartNearest
  <2> QED
    BY Zenon, <2>3, <2>7 DEF d
<1>11. ok \subseteq SegmentsOf(r)
  BY DEF ok, Admissible
<1>12. ASSUME NEW i \in ok
       PROVE  /\ \/ feet[1].dist2 < feet[i].dist2
                 \/ feet[1].dist2 = feet[i].dist2 /\ 1 <= i
              /\ WithinTie(feet[i].dist2, feet[1].dist2)
                   => Distance2(feet[i].at, feet[1].at) <= Square(2 * TieEps)
  <2>1. i \in SegmentsOf(r) /\ i \in 1..(n - 1) /\ feet[i].dist2 \in Int /\ 1 <= i
    <3>1. i \in 1..(n - 1)
      BY <1>3, <1>11
    <3>2. feet[i].dist2 \in Int
      BY Zenon, <1>5, <3>1 DEF FeetKnown
    <3> QED
      BY <1>3, <3>1, <3>2
  <2>2. \/ feet[1].dist2 < feet[i].dist2
        \/ feet[1].dist2 = feet[i].dist2 /\ 1 <= i
    <3>1. CASE i = 1
      BY <3>1
    <3>2. CASE i # 1
      <4>1. d <= feet[i].dist2
        BY <1>10, <2>1, <3>2
      <4> QED
        BY <1>1, <1>8, <2>1, <4>1
    <3> QED
      BY <3>1, <3>2
  <2>3. ASSUME WithinTie(feet[i].dist2, feet[1].dist2)
        PROVE  Distance2(feet[i].at, feet[1].at) <= Square(2 * TieEps)
    <3>1. feet[i].dist2 = Distance2(p, feet[i].at) /\ feet[i].at \in Points
      BY Zenon, <1>2, <2>1, FootOf DEF feet
    <3>2. 4 * Distance2(p, feet[1].at) <= Square(TieEps)
      <4> DEFINE e == feet[1].dist2
                 t == Square(TieEps)
      <4>1. e \in Int /\ e <= d /\ 4 * d <= t /\ t \in Int
        <5>1. t \in Int
          BY ProjectionAssumption DEF Square
        <5> QED
          BY <1>1, <1>8, <1>9, <5>1
      <4> HIDE DEF e, t
      <4>2. 4 * e <= t
        BY <1>8, <4>1
      <4> QED
        BY Zenon, <1>1, <4>2 DEF e, t
    <3>3. WithinTie(Distance2(p, feet[i].at), Distance2(p, feet[1].at))
      BY Zenon, <1>1, <2>3, <3>1
    <3> QED
      BY Zenon, <1>1, <3>1, <3>2, <3>3, SamePlace
  <2> QED
    BY <2>2, <2>3
<1>13. anywhere = 1
  <2> DEFINE m == n - 1
  <2>1. ok \in SUBSET (1..m) /\ m \in Nat /\ FeetKnown(feet, m)
    <3>1. ok \subseteq 1..m /\ m \in Nat
      BY <1>3, <1>11
    <3> QED
      BY <1>5, <3>1
  <2>2. \A i \in ok :
          /\ \/ feet[1].dist2 < feet[i].dist2
             \/ feet[1].dist2 = feet[i].dist2 /\ 1 <= i
          /\ WithinTie(feet[i].dist2, feet[1].dist2)
               => Distance2(feet[i].at, feet[1].at) <= Square(2 * TieEps)
    BY <1>12
  <2> HIDE DEF m
  <2> QED
    BY <1>7, <2>1, <2>2, PickNearest
<1>14. ~Near(Nobody)
  BY DEF Nobody
<1>15. ClosestPoint(r, p, yw, NoArc)
         = IF Near(Nobody) THEN Answer(feet, Nobody, 0)
           ELSE IF Near(Nobody) THEN Answer(feet, Nobody, 1)
           ELSE IF anywhere > 0 THEN Answer(feet, anywhere, 2) ELSE Refused(NoArc)
  BY Zenon DEF ClosestPoint, feet, ok
<1> HIDE DEF anywhere, Near
<1>16. ClosestPoint(r, p, yw, NoArc) = Answer(feet, 1, 2)
  <2>1. anywhere > 0
    BY <1>13
  <2> QED
    BY Zenon, <1>13, <1>14, <1>15, <2>1
<1>17. Answer(feet, 1, 2).stage = 2 /\ Answer(feet, 1, 2).arc = feet[1].arc
  BY DEF Answer
<1> QED
  BY <1>1, <1>16, <1>17

-----------------------------------------------------------------------------
(***************************************************************************)
(* Whoever drives what was prepared is found where he is.                  *)
(***************************************************************************)

Done == {"completed", "processed", "judged", "seeded", "followed"}

\* What a recipe makes is driven forwards, and once completed its headings are
\* those of its points.
HeadedInv ==
    recipe # "raw" =>
        /\ \A i \in 1..(Len(ref.pt) - 1) : ref.gear[i] = 1
        /\ phase \in Done =>
              \A i \in 1..Len(ref.pt) : ref.heading[i] = Heading(ref.pt, i)

LEMMA WaypointsForward ==
  ASSUME NEW pt
  PROVE  /\ Waypoints(pt).pt = pt
         /\ \A i \in 1..(Len(pt) - 1) : Waypoints(pt).gear[i] = 1
BY DEF Waypoints

LEMMA HeadedInvInit ==
  TrackInit => HeadedInv
PROOF
<1> SUFFICES ASSUME TrackInit, recipe # "raw"
             PROVE  /\ \A i \in 1..(Len(ref.pt) - 1) : ref.gear[i] = 1
                    /\ phase \notin Done
  BY DEF HeadedInv
<1>1. (\E pt : ref = Waypoints(pt)) /\ phase \in {"waypoints", "resampled", "track"}
  BY DEF TrackInit, RefInit, FromWaypoints, FromRows, FromScenario, FromTrack,
         FromElsewhere
<1>2. PICK pt : ref = Waypoints(pt)
  BY Zenon, <1>1
<1>3. \A i \in 1..(Len(ref.pt) - 1) : ref.gear[i] = 1
  BY Zenon, <1>2, WaypointsForward
<1> QED
  BY <1>1, <1>3 DEF Done

LEMMA HeadedInvNext ==
  RefTypeInv /\ MadeInv /\ HeadedInv /\ [TrackNext]_<<refVars, trackVars>> => HeadedInv'
PROOF
<1> SUFFICES ASSUME RefTypeInv, MadeInv, HeadedInv, [TrackNext]_<<refVars, trackVars>>
             PROVE  HeadedInv'
  OBVIOUS
<1>0. ref \in References
  BY DEF RefTypeInv
\* The points are taken up anew.
<1>1. ASSUME NEW pt, ref' = Waypoints(pt), phase' \in {"waypoints", "resampled"}
      PROVE  HeadedInv'
  <2>1. \A i \in 1..(Len(ref'.pt) - 1) : ref'.gear[i] = 1
    BY Zenon, <1>1, WaypointsForward
  <2>2. phase' \notin Done
    BY <1>1 DEF Done
  <2> QED
    BY Zenon, <2>1, <2>2 DEF HeadedInv
<1>2. CASE Resample
  BY Zenon, <1>1, <1>2 DEF Resample
<1>3. CASE ServeTrack
  BY Zenon, <1>1, <1>3 DEF ServeTrack
<1>4. CASE ServeFile
  BY Zenon, <1>1, <1>4 DEF ServeFile
<1>5. ASSUME NEW by \in {"guarded", "entry"}, Improve(by)
      PROVE  HeadedInv'
  BY Zenon, <1>1, <1>5 DEF Improve
<1>6. CASE Complete
  <2> DEFINE heading == [i \in Indices(ref) |-> Heading(ref.pt, i)]
             turn == [i \in Indices(ref) |-> TurnAt(ref.pt, i)]
             energy == [i \in Indices(ref) |-> EnergyAt(ref.pt, i)]
  <2>1. \A i \in 1..Len(ref.pt) : heading[i] = Heading(ref.pt, i)
    BY DEF Indices
  <2> HIDE DEF heading, turn, energy
  <2>2. ref' = [ref EXCEPT !.heading = heading, !.turn = turn, !.energy = energy]
    BY Zenon, <1>6 DEF Complete, heading, turn, energy
  <2>3. ref'.pt = ref.pt /\ ref'.gear = ref.gear /\ ref'.heading = heading
    BY <1>0, <2>2 DEF References
  <2>4. recipe' = recipe
    BY <1>6 DEF Complete
  <2> QED
    BY Zenon, <2>1, <2>3, <2>4 DEF HeadedInv
\* Gears, points and headings stay as they are.
<1>7. ASSUME recipe' = recipe, ref'.pt = ref.pt, ref'.gear = ref.gear,
             ref'.heading = ref.heading, phase \in Done
      PROVE  HeadedInv'
  BY Zenon, <1>7 DEF HeadedInv
<1>8. CASE Shape
  <2> DEFINE energy == Braked(Ramped(ref.energy, ref.arc), ref.arc)
  <2> HIDE DEF energy
  <2>1. ref' = [ref EXCEPT !.energy = energy]
    BY Zenon, <1>8 DEF Shape, energy
  <2>2. ref'.pt = ref.pt /\ ref'.gear = ref.gear /\ ref'.heading = ref.heading
    BY <1>0, <2>1 DEF References
  <2>3. recipe' = recipe /\ phase \in Done
    BY <1>8 DEF Shape, Done
  <2> QED
    BY <1>7, <2>2, <2>3
<1>9. CASE Judge
  BY <1>7, <1>9 DEF Judge, Done
<1>10. ASSUME NEW p \in SeedPoses, NEW heading \in SeedYaws, Seed(p, heading)
       PROVE  HeadedInv'
  BY <1>7, <1>10 DEF Seed, HandedOver, Done
<1>11. ASSUME NEW k \in Indices(ref), NEW offset \in Offsets, NEW slant \in Slants,
              Follow(k, offset, slant)
       PROVE  HeadedInv'
  <2>1. CASE at = 0
    BY <1>7, <1>11, <2>1 DEF Follow, HandedOver, Done
  <2>2. CASE at # 0
    BY <1>7, <1>11, <2>2 DEF Follow, MadeInv, Done
  <2> QED
    BY <2>1, <2>2
<1>12. CASE UNCHANGED <<refVars, trackVars>>
  <2>1. UNCHANGED <<recipe, phase, ref>>
    BY <1>12 DEF refVars
  <2> QED
    BY Zenon, <2>1 DEF HeadedInv
<1> QED
  BY <1>2, <1>3, <1>4, <1>5, <1>6, <1>8, <1>9, <1>10, <1>11, <1>12
     DEF TrackNext, Prepare, RefNext

\* What a clear way is.
LEMMA LaidOut ==
  ASSUME RefTypeInv, MadeInv, WayIsClear
  PROVE  Laid(ref)
PROOF
<1>1. ref \in References /\ Fits(ref)
  BY DEF RefTypeInv
<1>2. CASE recipe # "raw"
  BY Zenon, <1>1, <1>2 DEF MadeInv, Laid
<1>3. CASE recipe = "raw"
  <2>1. Regular(ref)
    BY Zenon, <1>3 DEF WayIsClear
  <2>2. Meshed(ref.pt)
    BY Zenon, <2>1 DEF Regular, Meshed, OnMesh, SegmentsOf
  <2> QED
    BY Zenon, <1>1, <2>1, <2>2 DEF Regular, Laid
<1> QED
  BY <1>2, <1>3

LEMMA HeadedOut ==
  ASSUME RefTypeInv, MadeInv, HeadedInv, WayIsClear, phase \in Done
  PROVE  Headed(ref)
PROOF
<1>1. CASE recipe = "raw"
  BY Zenon, <1>1 DEF WayIsClear, Regular, Headed
<1>2. CASE recipe # "raw"
  <2> SUFFICES ASSUME NEW k \in Trail(ref)
               PROVE  ref.heading[k] = Direction(Tangents(ref)[k][1], Tangents(ref)[k][2])
    BY DEF Headed
  <2>1. k \in Indices(ref) /\ Straight(ref, k)
    BY Zenon DEF Trail
  <2>2. Heading(ref.pt, k) = Direction(Tangents(ref)[k][1], Tangents(ref)[k][2])
    BY Zenon, <2>1, LaidOut, StraightHeading
  <2> QED
    BY Zenon, <1>2, <2>1, <2>2 DEF HeadedInv, Indices
<1> QED
  BY <1>1, <1>2

LEMMA StartOut ==
  ASSUME RefTypeInv, MadeInv, HeadedInv, WayIsClear, phase \in Done, recipe = "served"
  PROVE  StartsClear(ref)
PROOF
<1> DEFINE n == Len(ref.pt)
           a == ref.pt[1]
           b == ref.pt[2]
           u == Tangents(ref)[1]
           c == Chord(a, b)
<1>1. Laid(ref) /\ ClearOfStart(ref) /\ n > 1
  <2>1. ClearOfStart(ref)
    BY DEF WayIsClear
  <2> QED
    BY <2>1, LaidOut DEF ClearOfStart
<1>2. n \in Nat /\ 1 \in SegmentsOf(ref) /\ 1 \in 1..(n - 1) /\ 1 \in 1..n
  BY <1>1, LaidParts
<1>3. recipe # "raw" /\ recipe \in Adapted
  BY DEF Adapted
<1>4. a # b
  <2>1. Apart(ref.pt) /\ 1 + 1 = 2
    BY <1>3 DEF MadeInv
  <2> QED
    BY Zenon, <1>2, <2>1 DEF Apart
<1>5. a \in Points /\ b \in Points
  <2>1. 1 + 1 = 2
    OBVIOUS
  <2> QED
    BY Zenon, <1>1, <1>2, <2>1, LaidParts
<1>6. u \in Units /\ b = Along(a, u, c)
  <2>1. 1 + 1 = 2 /\ 0 \in Int
    OBVIOUS
  <2>2. ~Degenerate(ref, 1)
    BY Zenon, <1>4, <2>1 DEF Degenerate
  <2>3. ASSUME NEW j \in SegmentsOf(ref), ~Degenerate(ref, j)
        PROVE  /\ Tangents(ref)[j] \in Units
               /\ ref.pt[j + 1] = Along(ref.pt[j], Tangents(ref)[j],
                                        Chord(ref.pt[j], ref.pt[j + 1]))
    BY Zenon, <1>1, <1>5, <2>3, FootOf
  <2> QED
    BY Zenon, <1>2, <2>1, <2>2, <2>3
<1>7. Heading(ref.pt, 1) = Direction(b[1] - a[1], b[2] - a[2])
  <2>1. Most(1 - 1, 1) = 1 /\ Least(1 + 1, n) = 2
    BY <1>1, <1>2 DEF Most, Least
  <2> QED
    BY Zenon, <2>1 DEF Heading
<1>8. ref.heading[1] = Heading(ref.pt, 1) /\ ref.gear[1] = 1
  BY Zenon, <1>2, <1>3 DEF HeadedInv
<1> HIDE DEF n, a, b, u
<1>9. c \in Nat \ {0}
  BY <1>4, <1>5, ChordType
<1> HIDE DEF c
<1>10. /\ b[1] - a[1] \in Int /\ b[2] - a[2] \in Int
       /\ b[1] - a[1] = c * u[1] /\ b[2] - a[2] = c * u[2]
  <2>1. /\ a[1] \in Int /\ a[2] \in Int /\ b[1] \in Int /\ b[2] \in Int
        /\ c * u[1] \in Int /\ c * u[2] \in Int
    BY <1>5, <1>6, <1>9 DEF Points, Units
  <2>2. b[1] = a[1] + c * u[1] /\ b[2] = a[2] + c * u[2]
    BY <1>6 DEF Along
  <2> QED
    BY <2>1, <2>2
<1>11. Direction(b[1] - a[1], b[2] - a[2]) = Direction(u[1], u[2])
  BY <1>6, <1>9, <1>10, DirectionAlong
<1>12. ref.gear[1] > 0
  BY <1>8
<1> QED
  BY Zenon, <1>1, <1>4, <1>7, <1>8, <1>11, <1>12 DEF StartsClear, a, b, u

\* The follower stays where it can get to, and is found there.
FollowInv ==
    /\ at # 0 => at \in Trail(ref)
    /\ WayIsClear => FollowerIsFound

LEMMA FollowInvInit ==
  TrackInit => FollowInv
PROOF
<1> SUFFICES ASSUME TrackInit
             PROVE  FollowInv
  OBVIOUS
<1>1. at = 0 /\ phase # "seeded"
  BY DEF TrackInit, RefInit, FromWaypoints, FromRows, FromScenario, FromTrack,
         FromElsewhere
<1> QED
  BY Zenon, <1>1 DEF FollowInv, FollowerIsFound, FollowerFound, ServedFromTheStart

LEMMA FollowInvNext ==
  RefTypeInv /\ MadeInv /\ HeadedInv /\ FollowInv /\ [TrackNext]_<<refVars, trackVars>>
     => FollowInv'
PROOF
<1> SUFFICES ASSUME RefTypeInv, MadeInv, HeadedInv, FollowInv,
                    [TrackNext]_<<refVars, trackVars>>
             PROVE  FollowInv'
  OBVIOUS
<1>1. CASE Prepare
  <2>1. phase # "followed" /\ phase' # "seeded" /\ at' = at
    BY <1>1 DEF Prepare, RefNext, Resample, ServeTrack, ServeFile, Complete, Shape,
                Judge, Improve, trackVars
  <2>2. at' = 0
    BY Zenon, <2>1 DEF MadeInv
  <2> QED
    BY Zenon, <2>1, <2>2 DEF FollowInv, FollowerIsFound, FollowerFound,
                             ServedFromTheStart
<1>2. ASSUME NEW p \in SeedPoses, NEW heading \in SeedYaws, Seed(p, heading)
      PROVE  FollowInv'
  <2>1. /\ UNCHANGED <<recipe, ref>> /\ pose' = p /\ yaw' = heading /\ at' = 0
        /\ found' = ClosestPoint(ref, p, heading, NoArc) /\ phase \in Done
    BY <1>2 DEF Seed, HandedOver, Done
  <2>2. ASSUME WayIsClear, recipe = "served", 2 * Chord(p, ref.pt[1]) <= Ds,
               heading \in {NoYaw, ref.heading[1]}
        PROVE  found'.stage # 3 /\ found'.arc <= Ds
    <3>1. StartsClear(ref)
      BY Zenon, <2>1, <2>2, StartOut
    <3>2. p \in Points
      BY Zenon, TrackingAssumption DEF Points
    <3>3. /\ ClosestPoint(ref, p, heading, NoArc).stage # 3
          /\ ClosestPoint(ref, p, heading, NoArc).arc <= Ds
      BY Zenon, <2>2, <3>1, <3>2, StartFound
    <3> QED
      BY Zenon, <2>1, <3>3
  <2>3. WayIsClear' <=> WayIsClear
    BY <2>1 DEF WayIsClear
  <2> QED
    BY Zenon, <2>1, <2>2, <2>3 DEF FollowInv, FollowerIsFound, FollowerFound,
                                   ServedFromTheStart
<1>3. ASSUME NEW k \in Indices(ref), NEW offset \in Offsets, NEW slant \in Slants,
             Follow(k, offset, slant)
      PROVE  FollowInv'
  <2> DEFINE sPrev == IF at = 0 \/ found.stage = 3 THEN NoArc ELSE found.arc
             yw == Facing(ref, k, slant)
             answer == ClosestPoint(ref, Beside(ref, k, offset), yw, sPrev)
  <2>1. /\ UNCHANGED <<recipe, ref>> /\ pose' = Beside(ref, k, offset) /\ yaw' = yw
        /\ at' = k /\ phase' = "followed" /\ found' = answer /\ Straight(ref, k)
        /\ IF at = 0 THEN HandedOver /\ k = 2 ELSE k \in at..(at + MaxStride)
    BY Zenon, <1>3 DEF Follow
  <2>2. phase \in Done
    <3>1. CASE at = 0
      BY <2>1, <3>1 DEF HandedOver, Done
    <3>2. CASE at # 0
      BY <3>2 DEF MadeInv, Done
    <3> QED
      BY <3>1, <3>2
  <2>3. k \in Trail(ref)
    <3>1. (at = 0 /\ k = 2) \/ (at \in Trail(ref) /\ k \in at..(at + MaxStride))
      BY Zenon, <2>1 DEF FollowInv
    <3>2. Indices(ref) \subseteq Nat
      BY DEF Indices
    <3> QED
      BY Zenon, <2>1, <3>1, <3>2, TrailOn
  <2>4. ASSUME WayIsClear
        PROVE  /\ answer.stage # 3 /\ answer.arc = ref.arc[k]
               /\ answer.lat = OffsetAt(ref, Beside(ref, k, offset), answer.arc)
               /\ recipe # "raw" => HeadingErrorAt(ref, yw, answer.arc)
                                      = Ds * Turned(yw, Facing(ref, k, 0))
    <3>1. Laid(ref) /\ Headed(ref) /\ ClearAhead(ref)
      BY Zenon, <2>2, <2>4, LaidOut, HeadedOut DEF WayIsClear
    <3>2. \/ at = 0 /\ k = 2 /\ sPrev = NoArc
          \/ at \in Trail(ref) /\ k \in at..(at + MaxStride) /\ sPrev = ref.arc[at]
      <4>1. CASE at = 0
        BY Zenon, <2>1, <4>1
      <4>2. CASE at # 0
        <5>1. found.stage # 3 /\ found.arc = ref.arc[at]
          BY Zenon, <2>4, <4>2 DEF FollowInv, FollowerIsFound, FollowerFound
        <5> QED
          BY Zenon, <2>1, <4>2, <5>1 DEF FollowInv
      <4> QED
        BY <4>1, <4>2
    <3>3. recipe # "raw" => ref.gear[k] > 0
      <4>1. k \in 1..(Len(ref.pt) - 1)
        BY <2>1 DEF Straight
      <4>2. recipe # "raw" => ref.gear[k] = 1
        BY Zenon, <4>1 DEF HeadedInv
      <4> QED
        BY <4>2
    <3> HIDE DEF sPrev
    <3>4. LET p == Beside(ref, k, offset)
              heading == Facing(ref, k, slant)
              it == ClosestPoint(ref, p, heading, sPrev)
          IN  /\ k \in Trail(ref) /\ it.stage # 3 /\ it.arc = ref.arc[k]
              /\ it.lat = OffsetAt(ref, p, it.arc)
              /\ ref.gear[k] > 0 =>
                    HeadingErrorAt(ref, heading, it.arc)
                      = Ds * Turned(heading, Facing(ref, k, 0))
      BY <2>1, <3>1, <3>2, FollowerStep
    <3> QED
      BY Zenon, <3>3, <3>4
  <2>5. WayIsClear' <=> WayIsClear
    BY <2>1 DEF WayIsClear
  <2> HIDE DEF answer, yw
  <2>6. at' # 0 => at' \in Trail(ref)'
    BY Zenon, <2>1, <2>3
  <2>7. phase' # "seeded"
    BY <2>1
  <2>8. WayIsClear' => FollowerFound'
    <3> SUFFICES ASSUME WayIsClear
                 PROVE  FollowerFound'
      BY Zenon, <2>5
    <3>1. Facing(ref', at', 0) = Facing(ref, k, 0)
      BY Zenon, <2>1
    <3>2. /\ found'.stage # 3 /\ found'.arc = ref'.arc[at']
          /\ found'.lat = OffsetAt(ref', pose', found'.arc)
          /\ recipe' # "raw" => HeadingErrorAt(ref', yaw', found'.arc)
                                  = Ds * Turned(yaw', Facing(ref', at', 0))
      BY Zenon, <2>1, <2>4
    <3> QED
      BY Zenon, <3>2 DEF FollowerFound
  <2> QED
    BY Zenon, <2>6, <2>7, <2>8 DEF FollowInv, FollowerIsFound, ServedFromTheStart
<1>4. CASE UNCHANGED <<refVars, trackVars>>
  <2>1. UNCHANGED <<recipe, phase, ref, verdict, pose, yaw, at, found>>
    BY <1>4 DEF refVars, trackVars
  <2>2. (WayIsClear' <=> WayIsClear) /\ (FollowerIsFound' <=> FollowerIsFound)
    BY <2>1 DEF WayIsClear, FollowerIsFound, FollowerFound, ServedFromTheStart
  <2> QED
    BY Zenon, <2>1, <2>2 DEF FollowInv
<1> QED
  BY Zenon, <1>1, <1>2, <1>3, <1>4 DEF TrackNext

\* FollowerIsFound: on every clear way closest_point answers a robot that
\* follows the path, whatever of its offsets and slants it has and however far
\* it went between two cycles, with the arc it is at, the offset it has and, in
\* the frame of that arc, its heading error; and one that starts within half a
\* sample of the first pose of a served track is found there, not at its end.
THEOREM FollowerSound == TrackSpec => [](WayIsClear => FollowerIsFound)
PROOF
<1>1. FollowInv => (WayIsClear => FollowerIsFound)
  BY DEF FollowInv
<1>2. PreparedInv => MadeInv
  BY DEF PreparedInv
<1> QED
  BY <1>1, <1>2, HeadedInvInit, HeadedInvNext, FollowInvInit, FollowInvNext,
     ReferenceTypeInvariance, PreparedInvariance, PTL DEF TrackSpec
=============================================================================
