---------------------------- MODULE AdviceProofs ----------------------------
(***************************************************************************)
(* Proofs about Thresholds and Goals, for every use, target and number of  *)
(* homes or days; and about DeviceUsage, for every day of every appliance: *)
(* what summing by clock hours does to its row, and that no adviser takes  *)
(* back what the user was notified of.                                     *)
(*                                                                         *)
(* The loops over readings and days are functions defined by recursion.    *)
(* The provers have no induction over the naturals that they can           *)
(* instantiate; the pigeonhole theorem gives one for sets (SetInduction),  *)
(* and with it that such functions exist (RecursionExists).                *)
(***************************************************************************)
EXTENDS DeviceUsage, Goals, Thresholds, FiniteSetTheorems, SequenceTheorems, TLAPS

-----------------------------------------------------------------------------
(* Thresholds *)

\* The percentile's place is one of the list's, and leaves less than a twentieth of the
\* places after it.
LEMMA PercentilePlace ==
  ASSUME NEW n \in Nat, n > MinHomes
  PROVE  /\ p95_index(n) \in 1..n
         /\ \A i \in 1..n : i > p95_index(n) => 20 * (n - i + 1) < n
         /\ n <= 20 => p95_index(n) = n
  BY DEF p95_index, MinHomes

\* However many homes there are and whatever they used, evaluate_analytics_thresholds
\* alerts only homes of the last twentieth, and nobody when there are twenty or fewer.
THEOREM PercentileAlertsFew ==
  ASSUME NEW totals \in Seq(Nat), Ascending(totals)
  PROVE  FewStandOut(totals)
<1> DEFINE n == Len(totals)
<1>1. n \in Nat /\ DOMAIN totals = 1..n
  OBVIOUS
<1>2. CASE n <= MinHomes
  BY <1>1, <1>2 DEF FewStandOut, HighConsumption, MinHomes
<1>3. CASE n > MinHomes
  <2>1. /\ p95_index(n) \in 1..n
        /\ \A i \in 1..n : i > p95_index(n) => 20 * (n - i + 1) < n
        /\ n <= 20 => p95_index(n) = n
    BY <1>1, <1>3, PercentilePlace
  <2>2. ASSUME NEW i \in HighConsumption(totals)
        PROVE  i \in 1..n /\ i > p95_index(n)
    <3>1. i \in 1..n /\ totals[i] > totals[p95_index(n)]
      BY <1>1, <2>2 DEF HighConsumption
    <3>2. CASE i <= p95_index(n)
      <4>1. totals[i] <= totals[p95_index(n)]
        BY <1>1, <2>1, <3>1, <3>2 DEF Ascending
      <4>2. totals[i] \in Nat /\ totals[p95_index(n)] \in Nat
        BY <1>1, <2>1, <3>1
      <4>3. QED
        BY <3>1, <4>1, <4>2
    <3>3. QED
      BY <2>1, <3>1, <3>2
  <2>3. QED
    BY <1>1, <2>1, <2>2 DEF FewStandOut
<1>4. QED
  BY <1>1, <1>2, <1>3 DEF MinHomes

\* An hour that exceeds nothing but an average it is part of: the anomaly scan is silent
\* until a device has three days of that hour, and never critical until it has six.
THEOREM AnomaliesNeedHistory ==
  ASSUME NEW wh \in Nat, NEW others \in Nat, NEW days \in Nat \ {0}
  PROVE  HistoryIsNeeded(wh, others, days)
<1>1. days < 3 => ~Anomalous(wh, others, days)
  <2>1. SUFFICES ASSUME days \in {1, 2}, wh + others > 5 * days
                 PROVE  ~(wh * days >= 3 * (wh + others))
    BY DEF Anomalous, Reaches, baseline_avg, threshold_factor, BaselineFloor
  <2>2. CASE days = 1
    BY <2>1, <2>2
  <2>3. CASE days = 2
    BY <2>1, <2>3
  <2>4. QED
    BY <2>1, <2>2, <2>3
<1>2. days < 6 => ~Critical(wh, others, days)
  <2>1. SUFFICES ASSUME days \in 1..5, wh + others > 5 * days
                 PROVE  ~(wh * days >= 6 * (wh + others))
    BY DEF Critical, Reaches, baseline_avg, threshold_factor, BaselineFloor
  <2>2. wh * days <= 5 * wh
    BY <2>1
  <2>3. wh * days \in Nat
    OBVIOUS
  <2>4. QED
    BY <2>1, <2>2, <2>3
<1>3. days = 3 /\ Anomalous(wh, others, days) => others = 0
  BY DEF Anomalous, Reaches, baseline_avg, threshold_factor
<1>4. QED
  BY <1>1, <1>2, <1>3 DEF HistoryIsNeeded

-----------------------------------------------------------------------------
(* Induction and recursion *)

\* Induction over the naturals, for a set: were n missing, i + 1 would send the members up
\* to n into those other than 0, which are fewer.
LEMMA SetInduction ==
  ASSUME NEW S, 0 \in S, \A n \in Nat : n \in S => n + 1 \in S
  PROVE  \A n \in Nat : n \in S
<1> SUFFICES ASSUME NEW n \in Nat, n \notin S
             PROVE  FALSE
  OBVIOUS
<1> DEFINE T == {i \in 0..n : i \in S}
           f == [i \in T |-> i + 1]
<1>1. IsFiniteSet(T) /\ Cardinality(T) \in Nat
  <2>1. IsFiniteSet(0..n)
    BY FS_Interval
  <2>2. T \in SUBSET (0..n)
    OBVIOUS
  <2>3. IsFiniteSet(T)
    BY <2>1, <2>2, FS_Subset
  <2>4. QED
    BY <2>3, FS_CardinalityType
<1>2. 0 \in T
  OBVIOUS
<1>3. IsFiniteSet(T \ {0}) /\ Cardinality(T \ {0}) < Cardinality(T)
  <2> HIDE DEF T
  <2>1. IsFiniteSet(T \ {0}) /\ Cardinality(T \ {0}) = Cardinality(T) - 1
    BY <1>1, <1>2, FS_RemoveElement
  <2>2. QED
    BY <1>1, <2>1
<1>4. f \in [T -> T \ {0}]
  <2>1. ASSUME NEW i \in T
        PROVE  i + 1 \in T \ {0}
    <3>1. i \in 0..n /\ i \in S /\ i # n
      OBVIOUS
    <3>2. i + 1 \in 0..n /\ i + 1 \in S /\ i + 1 # 0
      BY <3>1
    <3>3. QED
      BY <3>2
  <2>2. QED
    BY <2>1
<1>5. PICK x, y \in T : x # y /\ f[x] = f[y]
  <2> HIDE DEF T, f
  <2>1. QED
    BY <1>1, <1>3, <1>4, FS_PigeonHole
<1>6. x + 1 = y + 1
  BY <1>5
<1>7. QED
  BY <1>5, <1>6

\* Functions defined by recursion over the naturals exist.
Recursion(f, T, base, step) ==
    /\ f \in [Nat -> T] /\ f[0] = base
    /\ \A n \in Nat : f[n + 1] = step[<<f[n], n>>]

\* A loop over a counter, given as its step, has the values it runs through.
LEMMA RecursionExists ==
  ASSUME NEW T, NEW base \in T, NEW step \in [T \X Nat -> T]
  PROVE  \E f : Recursion(f, T, base, step)
<1> DEFINE Upto(n, g) == /\ g \in [0..n -> T] /\ g[0] = base
                         /\ \A i \in 0..(n - 1) : g[i + 1] = step[<<g[i], i>>]
           S == {n \in Nat : \E g : Upto(n, g)}
<1>1. 0 \in S
  <2>1. Upto(0, [i \in 0..0 |-> base])
    OBVIOUS
  <2>2. QED
    BY <2>1
<1>2. ASSUME NEW n \in Nat, n \in S
      PROVE  n + 1 \in S
  <2>1. PICK g : Upto(n, g)
    BY <1>2
  <2> DEFINE h == [i \in 0..(n + 1) |-> IF i = n + 1 THEN step[<<g[n], n>>] ELSE g[i]]
  <2>2. g[n] \in T
    BY <2>1
  <2>3. h \in [0..(n + 1) -> T]
    BY <2>1, <2>2
  <2>4. h[0] = base
    BY <2>1
  <2>5. ASSUME NEW i \in 0..n
        PROVE  h[i + 1] = step[<<h[i], i>>]
    <3>1. CASE i = n
      <4>1. h[n + 1] = step[<<g[n], n>>] /\ h[n] = g[n]
        OBVIOUS
      <4>2. QED
        BY <3>1, <4>1
    <3>2. CASE i # n
      <4>1. i \in 0..(n - 1) /\ i + 1 \in 0..(n + 1) /\ i + 1 # n + 1
        BY <3>2
      <4>2. h[i + 1] = g[i + 1] /\ h[i] = g[i]
        BY <4>1
      <4>3. QED
        BY <2>1, <4>1, <4>2
    <3>3. QED
      BY <3>1, <3>2
  <2>6. Upto(n + 1, h)
    <3>1. (n + 1) - 1 = n
      OBVIOUS
    <3>2. QED
      BY <2>3, <2>4, <2>5, <3>1
  <2> HIDE DEF h, Upto
  <2>7. n + 1 \in Nat /\ \E g1 : Upto(n + 1, g1)
    BY <2>6
  <2>8. QED
    BY <2>7
<1>3. \A n \in Nat : n \in S
  <2> HIDE DEF S
  <2>1. QED
    BY <1>1, <1>2, SetInduction
<1>4. \A n \in Nat : \E g : Upto(n, g)
  BY <1>3
<1> DEFINE G(n) == CHOOSE g : Upto(n, g)
           f == [n \in Nat |-> G(n)[n]]
<1>5. \A n \in Nat : Upto(n, G(n))
  BY <1>4
<1>6. ASSUME NEW n \in Nat
      PROVE  \A i \in 0..n : G(n)[i] = f[i]
  <2> DEFINE R == {i \in Nat : \A m \in Nat : i <= m => G(m)[i] = f[i]}
  <2> HIDE DEF G
  <2>1. 0 \in R
    BY <1>5
  <2>2. ASSUME NEW i \in Nat, i \in R
        PROVE  i + 1 \in R
    <3>1. ASSUME NEW m \in Nat, i + 1 <= m
          PROVE  G(m)[i + 1] = step[<<f[i], i>>]
      <4>1. i \in 0..(m - 1) /\ G(m)[i] = f[i]
        BY <2>2, <3>1
      <4>2. QED
        BY <1>5, <4>1
    <3>2. f[i + 1] = G(i + 1)[i + 1]
      OBVIOUS
    <3>3. QED
      BY <3>1, <3>2
  <2>3. \A i \in Nat : i \in R
    <3> HIDE DEF R
    <3>1. QED
      BY <2>1, <2>2, SetInduction
  <2>4. QED
    BY <2>3
<1>7. f \in [Nat -> T]
  <2> HIDE DEF G
  <2>1. QED
    BY <1>5
<1>8. f[0] = base
  <2> HIDE DEF G
  <2>1. QED
    BY <1>5
<1>9. ASSUME NEW n \in Nat
      PROVE  f[n + 1] = step[<<f[n], n>>]
  <2>1. G(n + 1)[n + 1] = step[<<G(n + 1)[n], n>>]
    <3> HIDE DEF G
    <3>1. n \in 0..((n + 1) - 1)
      OBVIOUS
    <3>2. QED
      BY <1>5, <3>1
  <2> HIDE DEF G, f
  <2>2. G(n + 1)[n + 1] = f[n + 1] /\ G(n + 1)[n] = f[n]
    BY <1>6
  <2>3. QED
    BY <2>1, <2>2
<1>10. QED
  <2> HIDE DEF f
  <2>1. QED
    BY <1>7, <1>8, <1>9 DEF Recursion

\* A sum is the last of any partial sums.
LEMMA SumIsLast ==
  ASSUME NEW n \in Nat, NEW f, NEW s \in [0..n -> Int], s[0] = 0,
         \A i \in 1..n : s[i] = s[i - 1] + f[i]
  PROVE  SumTo(f, n) = s[n]
<1> DEFINE Sums(g) == g = [i \in 0..n |-> IF i = 0 THEN 0 ELSE g[i - 1] + f[i]]
<1>1. Sums(s)
  <2>1. ASSUME NEW i \in 0..n
        PROVE  s[i] = IF i = 0 THEN 0 ELSE s[i - 1] + f[i]
    <3>1. CASE i = 0
      BY <3>1
    <3>2. CASE i # 0
      BY <3>2
    <3>3. QED
      BY <3>1, <3>2
  <2>2. QED
    BY <2>1
<1>2. PICK g : Sums(g) /\ SumTo(f, n) = g[n]
  BY <1>1 DEF SumTo
<1>3. g[0] = 0 /\ \A i \in 1..n : g[i] = g[i - 1] + f[i]
  <2>1. ASSUME NEW i \in 0..n
        PROVE  g[i] = IF i = 0 THEN 0 ELSE g[i - 1] + f[i]
    BY <1>2
  <2>2. QED
    BY <2>1
<1> DEFINE S == {i \in Nat : i \in 0..n => g[i] = s[i]}
<1>4. 0 \in S
  BY <1>3
<1>5. ASSUME NEW i \in Nat, i \in S
      PROVE  i + 1 \in S
  <2>1. CASE i + 1 \in 0..n
    <3>1. i \in 0..n /\ i + 1 \in 1..n /\ (i + 1) - 1 = i
      BY <2>1
    <3>2. g[i + 1] = g[i] + f[i + 1] /\ s[i + 1] = s[i] + f[i + 1]
      BY <1>3, <3>1
    <3>3. g[i] = s[i]
      BY <1>5, <3>1
    <3>4. QED
      BY <3>2, <3>3
  <2>2. CASE i + 1 \notin 0..n
    BY <2>2
  <2>3. QED
    BY <2>1, <2>2
<1>6. \A i \in Nat : i \in S
  <2> HIDE DEF S
  <2>1. QED
    BY <1>4, <1>5, SetInduction
<1>7. g[n] = s[n]
  <2>1. n \in S
    BY <1>6
  <2>2. QED
    BY <2>1
<1>8. QED
  BY <1>2, <1>7

\* What a sum of integers is made of.
LEMMA SumSteps ==
  ASSUME NEW n \in Nat, NEW f, \A i \in 1..n : f[i] \in Int
  PROVE  /\ \A m \in 0..n : SumTo(f, m) \in Int
         /\ SumTo(f, 0) = 0
         /\ \A m \in 0..(n - 1) : SumTo(f, m + 1) = SumTo(f, m) + f[m + 1]
<1> DEFINE step == [p \in Int \X Nat |-> IF p[2] \in 0..(n - 1) THEN p[1] + f[p[2] + 1] ELSE 0]
<1>1. step \in [Int \X Nat -> Int]
  <2>1. ASSUME NEW p \in Int \X Nat
        PROVE  (IF p[2] \in 0..(n - 1) THEN p[1] + f[p[2] + 1] ELSE 0) \in Int
    <3>1. p[1] \in Int /\ p[2] \in Nat
      OBVIOUS
    <3>2. CASE p[2] \in 0..(n - 1)
      <4>1. p[2] + 1 \in 1..n
        BY <3>1, <3>2
      <4>2. QED
        BY <3>1, <3>2, <4>1
    <3>3. QED
      BY <3>1, <3>2
  <2>2. QED
    BY <2>1
<1>2. PICK F : Recursion(F, Int, 0, step)
  <2> HIDE DEF step
  <2>1. QED
    BY <1>1, RecursionExists
<1>3. ASSUME NEW m \in 0..(n - 1)
      PROVE  F[m + 1] = F[m] + f[m + 1]
  <2>1. <<F[m], m>> \in Int \X Nat
    BY <1>2 DEF Recursion
  <2>2. step[<<F[m], m>>] = F[m] + f[m + 1]
    BY <2>1
  <2>3. QED
    BY <1>2, <2>2 DEF Recursion
<1>4. ASSUME NEW m \in 0..n
      PROVE  SumTo(f, m) = F[m]
  <2> DEFINE s == [i \in 0..m |-> F[i]]
  <2>1. s \in [0..m -> Int] /\ s[0] = 0
    BY <1>2 DEF Recursion
  <2>2. ASSUME NEW i \in 1..m
        PROVE  s[i] = s[i - 1] + f[i]
    <3>1. i - 1 \in 0..(n - 1) /\ (i - 1) + 1 = i /\ i \in 0..m /\ i - 1 \in 0..m
      OBVIOUS
    <3>2. F[i] = F[i - 1] + f[i]
      BY <1>3, <3>1
    <3>3. QED
      BY <3>1, <3>2
  <2>3. SumTo(f, m) = s[m]
    <3> HIDE DEF s
    <3>1. m \in Nat
      OBVIOUS
    <3>2. QED
      BY <2>1, <2>2, <3>1, SumIsLast
  <2>4. QED
    BY <2>3
<1>5. SumTo(f, 0) = 0
  BY <1>2, <1>4 DEF Recursion
<1>6. ASSUME NEW m \in 0..(n - 1)
      PROVE  SumTo(f, m + 1) = SumTo(f, m) + f[m + 1]
  BY <1>3, <1>4
<1>7. QED
  BY <1>2, <1>4, <1>5, <1>6 DEF Recursion

\* Sums of two functions that differ at most at one place differ as the functions do there.
LEMMA SumChanges ==
  ASSUME NEW n \in Nat, NEW f, NEW g, NEW k \in 1..n,
         \A i \in 1..n : f[i] \in Int /\ g[i] \in Int,
         \A i \in 1..n : i # k => f[i] = g[i]
  PROVE  SumTo(g, n) = SumTo(f, n) + g[k] - f[k]
<1> DEFINE S == {m \in Nat : m \in 0..n =>
                    SumTo(g, m) = SumTo(f, m) + (IF k <= m THEN g[k] - f[k] ELSE 0)}
<1>1. /\ \A m \in 0..n : SumTo(f, m) \in Int /\ SumTo(g, m) \in Int
      /\ SumTo(f, 0) = 0 /\ SumTo(g, 0) = 0
      /\ \A m \in 0..(n - 1) : /\ SumTo(f, m + 1) = SumTo(f, m) + f[m + 1]
                               /\ SumTo(g, m + 1) = SumTo(g, m) + g[m + 1]
  BY SumSteps
<1>2. 0 \in S
  BY <1>1
<1>3. ASSUME NEW m \in Nat, m \in S
      PROVE  m + 1 \in S
  <2>1. CASE m + 1 \in 0..n
    <3>1. m \in 0..n /\ m \in 0..(n - 1) /\ m + 1 \in 1..n
      BY <2>1
    <3>2. SumTo(g, m) = SumTo(f, m) + (IF k <= m THEN g[k] - f[k] ELSE 0)
      BY <1>3, <3>1
    <3>3. CASE k = m + 1
      BY <1>1, <3>1, <3>2, <3>3
    <3>4. CASE k # m + 1
      <4>1. f[m + 1] = g[m + 1] /\ (k <= m + 1 <=> k <= m)
        BY <3>1, <3>4
      <4>2. QED
        BY <1>1, <3>1, <3>2, <4>1
    <3>5. QED
      BY <3>3, <3>4
  <2>2. CASE m + 1 \notin 0..n
    BY <2>2
  <2>3. QED
    BY <2>1, <2>2
<1>4. \A m \in Nat : m \in S
  <2> HIDE DEF S
  <2>1. QED
    BY <1>2, <1>3, SetInduction
<1>5. QED
  BY <1>1, <1>4

\* Sums of equal values are equal, and sums of naturals are naturals.
LEMMA SumsOfEquals ==
  ASSUME NEW n \in Nat, NEW f, NEW g,
         \A i \in 1..n : f[i] \in Int /\ f[i] = g[i]
  PROVE  SumTo(f, n) = SumTo(g, n)
<1>1. CASE n = 0
  BY <1>1, SumSteps
<1>2. CASE n # 0
  <2>1. n \in 1..n /\ g[n] = f[n] /\ f[n] \in Int
    BY <1>2
  <2>2. SumTo(g, n) = SumTo(f, n) + g[n] - f[n]
    BY <2>1, SumChanges
  <2>3. SumTo(f, n) \in Int
    BY SumSteps
  <2>4. QED
    BY <2>1, <2>2, <2>3
<1>3. QED
  BY <1>1, <1>2

\* A sum of naturals is one.
LEMMA SumOfNaturals ==
  ASSUME NEW n \in Nat, NEW f, \A i \in 1..n : f[i] \in Nat
  PROVE  SumTo(f, n) \in Nat
<1> DEFINE S == {m \in Nat : m \in 0..n => SumTo(f, m) \in Nat}
<1>1. /\ SumTo(f, 0) = 0
      /\ \A m \in 0..(n - 1) : SumTo(f, m + 1) = SumTo(f, m) + f[m + 1]
  BY SumSteps
<1>2. 0 \in S
  BY <1>1
<1>3. ASSUME NEW m \in Nat, m \in S
      PROVE  m + 1 \in S
  <2>1. CASE m + 1 \in 0..n
    <3>1. m \in 0..n /\ m \in 0..(n - 1) /\ m + 1 \in 1..n
      BY <2>1
    <3>2. QED
      BY <1>1, <1>3, <3>1
  <2>2. CASE m + 1 \notin 0..n
    BY <2>2
  <2>3. QED
    BY <2>1, <2>2
<1>4. \A m \in Nat : m \in S
  <2> HIDE DEF S
  <2>1. QED
    BY <1>2, <1>3, SetInduction
<1>5. QED
  BY <1>4

-----------------------------------------------------------------------------
(* Goals *)

\* A product with a larger factor is not smaller.
LEMMA ProductGrows ==
  ASSUME NEW x \in Nat, NEW a \in Nat, NEW b \in Nat, a <= b
  PROVE  x * a \in Nat /\ x * b \in Nat /\ x * a <= x * b
<1>1. x * b = x * a + x * (b - a) /\ b - a \in Nat
  OBVIOUS
<1>2. x * (b - a) \in Nat /\ x * a \in Nat /\ x * b \in Nat
  BY <1>1
<1>3. QED
  BY <1>1, <1>2

\* evaluate_goal_progress, whatever was used: on track of a target means within it, and a goal
\* that has an end date, or a week, is on track until then exactly when all of its days at the
\* average so far would be.
THEOREM OnTrackIsFair ==
  ASSUME NEW target \in Nat, NEW used \in Nat, NEW type \in GoalType, NEW left \in Nat,
         NEW start \in Nat, NEW today \in Nat, start <= today, NEW end \in Nat \cup {NoEnd}
  PROVE  /\ on_track(type, target, used, start, end, today, left) => target = 0 \/ used <= target
         /\ type = "weekly" \/ (type = "monthly" /\ end # NoEnd) =>
               (today - start < Span(start, end) =>
                    (on_track(type, target, used, start, end, today, left)
                        <=> used * Span(start, end) <= target * (today - start + 1)))
<1> DEFINE elapsed == today - start + 1
           span == Span(start, end)
<1>1. on_track(type, target, used, start, end, today, left) => target = 0 \/ used <= target
  BY DEF on_track
<1>2. ASSUME type = "weekly" \/ (type = "monthly" /\ end # NoEnd), today - start < span
      PROVE  on_track(type, target, used, start, end, today, left)
                 <=> used * span <= target * elapsed
  <2>1. /\ span \in Nat /\ elapsed \in Nat /\ 1 <= elapsed /\ elapsed <= span
        /\ elapsed + days_remaining(type, start, end, today, left) = span
    <3>1. CASE end = NoEnd
      BY <1>2, <3>1 DEF days_remaining, Span
    <3>2. CASE end # NoEnd
      <4>1. end \in Nat /\ span = end - start + 1
        BY <3>2 DEF Span
      <4>2. days_remaining(type, start, end, today, left) = end - today
        BY <3>2 DEF days_remaining
      <4>3. QED
        BY <1>2, <4>1, <4>2
    <3>3. QED
      BY <3>1, <3>2
  <2> HIDE DEF elapsed, span
  <2>2. ASSUME used * span <= target * elapsed
        PROVE  used <= target
    <3>1. used * elapsed \in Nat /\ used * span \in Nat /\ used * elapsed <= used * span
      BY <2>1, ProductGrows
    <3>2. CASE used >= target + 1
      <4>1. elapsed * (target + 1) <= elapsed * used
        BY <2>1, <3>2, ProductGrows
      <4>2. elapsed * (target + 1) = target * elapsed + elapsed /\ elapsed * used = used * elapsed
        BY <2>1
      <4>3. target * elapsed \in Nat
        BY <2>1, ProductGrows
      <4>4. QED
        BY <2>1, <2>2, <3>1, <4>1, <4>2, <4>3
    <3>3. QED
      BY <3>2
  <2>3. on_track(type, target, used, start, end, today, left)
            <=> (target = 0 \/ used <= target) /\ used * span <= target * elapsed
    BY <1>2, <2>1 DEF on_track, elapsed
  <2>4. QED
    BY <2>2, <2>3
<1>3. QED
  BY <1>1, <1>2

\* A member no other exceeds is the maximum.
LEMMA MaxIs ==
  ASSUME NEW S \in SUBSET Int, NEW x \in S, \A y \in S : x >= y
  PROVE  Max(S) = x
<1>1. Max(S) \in S /\ \A y \in S : Max(S) >= y
  BY DEF Max
<1>2. Max(S) >= x /\ x >= Max(S) /\ x \in Int /\ Max(S) \in Int
  BY <1>1
<1>3. QED
  BY <1>2

\* The length of the stretch of days that met the goal and ends on day i is k.
StretchTo(history, target, i, k) ==
    /\ k \in 0..i /\ AllMet(history, target, i - k + 1, i)
    /\ \A m \in 0..i : AllMet(history, target, i - m + 1, i) => m <= k

\* One day more continues the stretch or ends it.
LEMMA StretchGrows ==
  ASSUME NEW history, NEW target, NEW i \in Nat, NEW k \in Nat, StretchTo(history, target, i, k)
  PROVE  StretchTo(history, target, i + 1, IF Met(history[i + 1], target) THEN k + 1 ELSE 0)
<1>1. CASE Met(history[i + 1], target)
  <2>1. k + 1 \in 0..(i + 1) /\ (i + 1) - (k + 1) + 1 = i - k + 1
    BY DEF StretchTo
  <2>2. AllMet(history, target, i - k + 1, i + 1)
    <3>1. ASSUME NEW d \in (i - k + 1)..(i + 1)
          PROVE  Met(history[d], target)
      <4>1. d = i + 1 \/ d \in (i - k + 1)..i
        BY DEF StretchTo
      <4>2. QED
        BY <1>1, <4>1 DEF StretchTo, AllMet
    <3>2. QED
      BY <3>1 DEF AllMet
  <2>3. ASSUME NEW m \in 0..(i + 1), AllMet(history, target, (i + 1) - m + 1, i + 1)
        PROVE  m <= k + 1
    <3>1. CASE m = 0
      BY <3>1
    <3>2. CASE m # 0
      <4>1. m - 1 \in 0..i /\ i - (m - 1) + 1 = (i + 1) - m + 1
        BY <3>2
      <4>2. AllMet(history, target, i - (m - 1) + 1, i)
        <5>1. \A d \in (i - (m - 1) + 1)..i : d \in ((i + 1) - m + 1)..(i + 1)
          OBVIOUS
        <5>2. QED
          BY <2>3, <5>1 DEF AllMet
      <4>3. m - 1 <= k
        BY <4>1, <4>2 DEF StretchTo
      <4>4. QED
        BY <4>3
    <3>3. QED
      BY <3>1, <3>2
  <2>4. QED
    BY <1>1, <2>1, <2>2, <2>3 DEF StretchTo
<1>2. CASE ~Met(history[i + 1], target)
  <2>1. 0 \in 0..(i + 1) /\ AllMet(history, target, (i + 1) - 0 + 1, i + 1)
    BY DEF AllMet
  <2>2. ASSUME NEW m \in 0..(i + 1), AllMet(history, target, (i + 1) - m + 1, i + 1)
        PROVE  m <= 0
    <3>1. CASE m = 0
      BY <3>1
    <3>2. CASE m # 0
      <4>1. i + 1 \in ((i + 1) - m + 1)..(i + 1)
        BY <3>2
      <4>2. QED
        BY <1>2, <2>2, <4>1 DEF AllMet
    <3>3. QED
      BY <3>1, <3>2
  <2>3. QED
    BY <1>2, <2>1, <2>2 DEF StretchTo
<1>3. QED
  BY <1>1, <1>2

\* Before the first day there is no stretch.
LEMMA StretchBegins ==
  ASSUME NEW history, NEW target
  PROVE  StretchTo(history, target, 0, 0)
  BY DEF StretchTo, AllMet

\* The loop from today backwards counts the stretch that ends today.
LEMMA ActiveStreak ==
  ASSUME NEW history \in Seq(Nat \cup {NoRecord}), NEW target
  PROVE  StretchTo(history, target, Len(history), active_streak(history, target))
<1> DEFINE n == Len(history)
           Loop(g) == g = [i \in 0..n |-> IF i > 0 /\ Met(history[i], target) THEN g[i - 1] + 1
                                          ELSE 0]
           step == [p \in Nat \X Nat |-> IF Met(history[p[2] + 1], target) THEN p[1] + 1 ELSE 0]
<1>1. n \in Nat
  OBVIOUS
<1>2. \E g : Loop(g)
  <2>1. step \in [Nat \X Nat -> Nat]
    OBVIOUS
  <2>2. PICK F : Recursion(F, Nat, 0, step)
    <3> HIDE DEF step
    <3>1. QED
      BY <2>1, RecursionExists
  <2> DEFINE g == [i \in 0..n |-> F[i]]
  <2>3. ASSUME NEW i \in 0..n
        PROVE  g[i] = IF i > 0 /\ Met(history[i], target) THEN g[i - 1] + 1 ELSE 0
    <3>1. CASE i = 0
      BY <1>1, <2>2, <3>1 DEF Recursion
    <3>2. CASE i # 0
      <4>1. i - 1 \in Nat /\ (i - 1) + 1 = i /\ i - 1 \in 0..n /\ i > 0
        BY <1>1, <3>2
      <4>2. F[i] = step[<<F[i - 1], i - 1>>] /\ <<F[i - 1], i - 1>> \in Nat \X Nat
        BY <2>2, <4>1 DEF Recursion
      <4>3. F[i] = IF Met(history[i], target) THEN F[i - 1] + 1 ELSE 0
        BY <4>1, <4>2
      <4>4. QED
        BY <4>1, <4>3
    <3>3. QED
      BY <3>1, <3>2
  <2>4. Loop(g)
    BY <2>3
  <2> HIDE DEF g, Loop
  <2>5. QED
    BY <2>4
<1>3. PICK g : Loop(g) /\ active_streak(history, target) = g[n]
  BY <1>2 DEF active_streak
<1>4. \A i \in 0..n : g[i] = IF i > 0 /\ Met(history[i], target) THEN g[i - 1] + 1 ELSE 0
  BY <1>3
<1> DEFINE S == {i \in Nat : i \in 0..n => g[i] \in Nat /\ StretchTo(history, target, i, g[i])}
<1>5. 0 \in S
  <2>1. g[0] = 0
    BY <1>1, <1>4
  <2>2. QED
    BY <2>1, StretchBegins
<1>6. ASSUME NEW i \in Nat, i \in S
      PROVE  i + 1 \in S
  <2>1. CASE i + 1 \in 0..n
    <3>1. i \in 0..n /\ i + 1 > 0 /\ (i + 1) - 1 = i
      BY <2>1
    <3>2. g[i + 1] = IF Met(history[i + 1], target) THEN g[i] + 1 ELSE 0
      BY <1>4, <2>1, <3>1
    <3>3. g[i] \in Nat /\ StretchTo(history, target, i, g[i])
      BY <1>6, <3>1
    <3>4. g[i + 1] \in Nat
      BY <3>2, <3>3
    <3>5. StretchTo(history, target, i + 1, g[i + 1])
      BY <3>2, <3>3, StretchGrows
    <3>6. QED
      BY <3>4, <3>5
  <2>2. CASE i + 1 \notin 0..n
    BY <2>2
  <2>3. QED
    BY <2>1, <2>2
<1>7. \A i \in Nat : i \in S
  <2> HIDE DEF S
  <2>1. QED
    BY <1>5, <1>6, SetInduction
<1>8. StretchTo(history, target, n, g[n])
  BY <1>1, <1>7
<1>9. QED
  BY <1>3, <1>8

\* l is the length of the longest stretch of days up to i that met the goal.
LongestTo(history, target, i, l) ==
    /\ l = 0 \/ \E a, b \in 1..i : a <= b /\ AllMet(history, target, a, b) /\ l = b - a + 1
    /\ \A a, b \in 1..i : a <= b /\ AllMet(history, target, a, b) => b - a + 1 <= l

\* What the loop over the window makes of its state u with day i.
AfterDay(u, history, target, i) ==
    LET run == IF Met(history[i], target) THEN u.run + 1 ELSE 0
    IN  [run |-> run, longest |-> Max({u.longest, run})]

RunState == [run : Nat, longest : Nat]

\* One pass of the loop of longest_streak, without its maximum.
LEMMA AfterDayIs ==
  ASSUME NEW u \in RunState, NEW history, NEW target, NEW i
  PROVE  LET run == IF Met(history[i], target) THEN u.run + 1 ELSE 0
         IN  /\ AfterDay(u, history, target, i) \in RunState
             /\ AfterDay(u, history, target, i).run = run
             /\ AfterDay(u, history, target, i).longest = IF u.longest >= run THEN u.longest ELSE run
<1> DEFINE run == IF Met(history[i], target) THEN u.run + 1 ELSE 0
<1>1. run \in Nat /\ u.longest \in Nat
  BY DEF RunState
<1>2. AfterDay(u, history, target, i) = [run |-> run, longest |-> Max({u.longest, run})]
  BY DEF AfterDay
<1> HIDE DEF run
<1>3. Max({u.longest, run}) = IF u.longest >= run THEN u.longest ELSE run
  <2> DEFINE m == IF u.longest >= run THEN u.longest ELSE run
             S == {u.longest, run}
  <2>1. S \in SUBSET Int /\ m \in S /\ \A y \in S : m >= y
    BY <1>1
  <2> HIDE DEF m, S
  <2>2. Max(S) = m
    BY <2>1, MaxIs
  <2>3. QED
    BY <2>2 DEF m, S
<1>4. QED
  BY <1>1, <1>2, <1>3 DEF run, RunState

\* One day more: the run is the stretch up to it and the longest remains the longest.
LEMMA LongestGrows ==
  ASSUME NEW history, NEW target, NEW i \in Nat, NEW u \in RunState,
         StretchTo(history, target, i, u.run), LongestTo(history, target, i, u.longest)
  PROVE  LET v == AfterDay(u, history, target, i + 1)
         IN  /\ v \in RunState
             /\ StretchTo(history, target, i + 1, v.run)
             /\ LongestTo(history, target, i + 1, v.longest)
             /\ v.run <= v.longest
<1> DEFINE v == AfterDay(u, history, target, i + 1)
           k == v.run
           l == v.longest
<1>1. /\ u.run \in Nat /\ u.longest \in Nat /\ v \in RunState /\ k \in Nat /\ l \in Nat
      /\ k = IF Met(history[i + 1], target) THEN u.run + 1 ELSE 0
      /\ l = IF u.longest >= k THEN u.longest ELSE k
  BY AfterDayIs DEF RunState
<1> HIDE DEF v
<1>2. StretchTo(history, target, i + 1, k)
  BY <1>1, StretchGrows
<1> HIDE DEF k, l
<1>3. l = 0 \/ \E a, b \in 1..(i + 1) : a <= b /\ AllMet(history, target, a, b) /\ l = b - a + 1
  <2>1. CASE l = u.longest
    BY <2>1 DEF LongestTo
  <2>2. CASE l # u.longest
    <3>1. l = k /\ k > 0
      BY <1>1, <2>2
    <3>2. (i + 1) - k + 1 \in 1..(i + 1) /\ AllMet(history, target, (i + 1) - k + 1, i + 1)
      BY <1>1, <1>2, <3>1 DEF StretchTo
    <3>3. l = (i + 1) - ((i + 1) - k + 1) + 1 /\ i + 1 \in 1..(i + 1) /\ (i + 1) - k + 1 <= i + 1
      BY <1>1, <3>1
    <3>4. QED
      BY <3>2, <3>3
  <2>3. QED
    BY <2>1, <2>2
<1>4. ASSUME NEW a \in 1..(i + 1), NEW b \in 1..(i + 1), a <= b, AllMet(history, target, a, b)
      PROVE  b - a + 1 <= l
  <2>1. CASE b = i + 1
    <3>1. (i + 1) - (b - a + 1) + 1 = a /\ b - a + 1 \in 0..(i + 1)
      BY <1>4, <2>1
    <3>2. b - a + 1 <= k
      BY <1>2, <1>4, <2>1, <3>1 DEF StretchTo
    <3>3. QED
      BY <1>1, <3>1, <3>2
  <2>2. CASE b # i + 1
    <3>1. a \in 1..i /\ b \in 1..i
      BY <1>4, <2>2
    <3>2. b - a + 1 <= u.longest
      BY <1>4, <3>1 DEF LongestTo
    <3>3. QED
      BY <1>1, <3>1, <3>2
  <2>3. QED
    BY <2>1, <2>2
<1>5. LongestTo(history, target, i + 1, l)
  BY <1>3, <1>4 DEF LongestTo
<1>6. k <= l
  BY <1>1
<1>7. QED
  BY <1>1, <1>2, <1>5, <1>6 DEF v, k, l

\* The loop over the window keeps the longest stretch.
LEMMA LongestStreak ==
  ASSUME NEW history \in Seq(Nat \cup {NoRecord}), NEW target
  PROVE  /\ longest_streak(history, target) \in Nat
         /\ LongestTo(history, target, Len(history), longest_streak(history, target))
         /\ \E k \in Nat : /\ StretchTo(history, target, Len(history), k)
                           /\ k <= longest_streak(history, target)
<1> DEFINE n == Len(history)
           none == [run |-> 0, longest |-> 0]
           Loop(g) == g = [i \in 0..n |-> IF i = 0 THEN none
                                          ELSE AfterDay(g[i - 1], history, target, i)]
           step == [p \in RunState \X Nat |-> AfterDay(p[1], history, target, p[2] + 1)]
<1>1. n \in Nat /\ none \in RunState
  BY DEF RunState
<1>2. \E g : Loop(g)
  <2>1. step \in [RunState \X Nat -> RunState]
    <3>1. ASSUME NEW p \in RunState \X Nat
          PROVE  AfterDay(p[1], history, target, p[2] + 1) \in RunState
      <4>1. p[1] \in RunState
        OBVIOUS
      <4>2. QED
        BY <4>1, AfterDayIs
    <3>2. QED
      BY <3>1
  <2>2. PICK F : Recursion(F, RunState, none, step)
    <3> HIDE DEF step, none
    <3>1. QED
      BY <1>1, <2>1, RecursionExists
  <2> DEFINE g == [i \in 0..n |-> F[i]]
  <2>3. ASSUME NEW i \in 0..n
        PROVE  g[i] = IF i = 0 THEN none ELSE AfterDay(g[i - 1], history, target, i)
    <3>1. CASE i = 0
      BY <1>1, <2>2, <3>1 DEF Recursion
    <3>2. CASE i # 0
      <4>1. i - 1 \in Nat /\ (i - 1) + 1 = i /\ i - 1 \in 0..n
        BY <1>1, <3>2
      <4>2. F[i] = step[<<F[i - 1], i - 1>>] /\ <<F[i - 1], i - 1>> \in RunState \X Nat
        BY <2>2, <4>1 DEF Recursion
      <4>3. F[i] = AfterDay(F[i - 1], history, target, i)
        BY <4>1, <4>2
      <4>4. QED
        BY <3>2, <4>1, <4>3
    <3>3. QED
      BY <3>1, <3>2
  <2>4. Loop(g)
    BY <2>3
  <2> HIDE DEF g, Loop
  <2>5. QED
    BY <2>4
<1>3. PICK g : Loop(g) /\ longest_streak(history, target) = g[n].longest
  BY <1>2 DEF longest_streak, AfterDay
<1>4. /\ \A i \in 0..n : g[i] = IF i = 0 THEN none ELSE AfterDay(g[i - 1], history, target, i)
  BY <1>3
<1> DEFINE Good(u, i) == /\ u \in RunState /\ StretchTo(history, target, i, u.run)
                         /\ LongestTo(history, target, i, u.longest) /\ u.run <= u.longest
           S == {i \in Nat : i \in 0..n => Good(g[i], i)}
<1>5. 0 \in S
  <2>1. g[0] = none
    BY <1>1, <1>4
  <2>2. StretchTo(history, target, 0, 0) /\ LongestTo(history, target, 0, 0)
    BY StretchBegins DEF LongestTo
  <2>3. QED
    BY <1>1, <2>1, <2>2
<1>6. ASSUME NEW i \in Nat, i \in S
      PROVE  i + 1 \in S
  <2>1. CASE i + 1 \in 0..n
    <3>1. i \in 0..n /\ i + 1 # 0 /\ (i + 1) - 1 = i
      BY <2>1
    <3>2. g[i + 1] = AfterDay(g[i], history, target, i + 1)
      BY <1>4, <2>1, <3>1
    <3>3. Good(g[i], i)
      BY <1>6, <3>1
    <3>4. Good(g[i + 1], i + 1)
      BY <3>2, <3>3, LongestGrows
    <3>5. QED
      BY <3>4
  <2>2. CASE i + 1 \notin 0..n
    BY <2>2
  <2>3. QED
    BY <2>1, <2>2
<1>7. \A i \in Nat : i \in S
  <2> HIDE DEF S
  <2>1. QED
    BY <1>5, <1>6, SetInduction
<1>8. Good(g[n], n)
  <2>1. n \in S /\ n \in 0..n
    <3> HIDE DEF S
    <3>1. QED
      BY <1>1, <1>7
  <2>2. QED
    BY <2>1
<1>9. QED
  BY <1>3, <1>8 DEF RunState

\* The size of a union of sets that have nothing in common.
LEMMA DisjointUnion ==
  ASSUME NEW S, IsFiniteSet(S), NEW T, IsFiniteSet(T), S \cap T = {}
  PROVE  IsFiniteSet(S \cup T) /\ Cardinality(S \cup T) = Cardinality(S) + Cardinality(T)
<1>1. /\ IsFiniteSet(S \cup T)
      /\ Cardinality(S \cup T) = Cardinality(S) + Cardinality(T) - Cardinality(S \cap T)
  BY FS_Union
<1>2. Cardinality(S \cap T) = 0
  BY FS_EmptySet
<1>3. Cardinality(S) \in Nat /\ Cardinality(T) \in Nat
  BY FS_CardinalityType
<1>4. QED
  BY <1>1, <1>2, <1>3

\* get_goal_streak of every history of uses and days without a row, for every target and
\* for none: the streaks are the longest stretches of days within the goal, the active one
\* the stretch that ends today, and it is zero while today has no row.
THEOREM StreaksAreRuns ==
  ASSUME NEW history \in Seq(Nat \cup {NoRecord}), NEW target \in Nat \cup {NoGoal}
  PROVE  StreakIsRun(history, target)
<1> DEFINE n == Len(history)
           k == active_streak(history, target)
           l == longest_streak(history, target)
           met == {i \in DOMAIN history : Met(history[i], target)}
           over == {i \in DOMAIN history : history[i] # NoRecord /\ target # NoGoal
                                              /\ ~Met(history[i], target)}
           nodata == {i \in DOMAIN history : history[i] = NoRecord}
           Streaks == {p \in (1..n) \X (1..n) : p[1] <= p[2] /\ AllMet(history, target, p[1], p[2])}
<1>1. n \in Nat /\ DOMAIN history = 1..n
  OBVIOUS
<1>2. StretchTo(history, target, n, k)
  BY ActiveStreak
<1>3. l \in Nat /\ LongestTo(history, target, n, l) /\ k <= l
  <2>1. l \in Nat /\ LongestTo(history, target, n, l)
    BY LongestStreak
  <2>2. PICK m \in Nat : StretchTo(history, target, n, m) /\ m <= l
    BY LongestStreak
  <2>3. m \in 0..n /\ k \in 0..n
    BY <1>2, <2>2 DEF StretchTo
  <2>4. k <= m
    BY <1>2, <2>2, <2>3 DEF StretchTo
  <2>5. QED
    BY <2>1, <2>2, <2>3, <2>4
<1> HIDE DEF n, k, l
<1>4. k = Max({m \in 0..n : AllMet(history, target, n - m + 1, n)})
  <2> DEFINE S == {m \in 0..n : AllMet(history, target, n - m + 1, n)}
  <2>1. S \in SUBSET Int /\ k \in S
    BY <1>1, <1>2 DEF StretchTo
  <2>2. ASSUME NEW m \in S
        PROVE  k >= m
    <3>1. m <= k /\ m \in Int /\ k \in Int
      BY <1>1, <1>2, <2>1 DEF StretchTo
    <3>2. QED
      BY <3>1
  <2> HIDE DEF S
  <2>3. Max(S) = k
    BY <2>1, <2>2, MaxIs
  <2>4. QED
    BY <2>3 DEF S
<1>5. l = Max({0} \cup {p[2] - p[1] + 1 : p \in Streaks})
  <2> DEFINE S == {0} \cup {p[2] - p[1] + 1 : p \in Streaks}
  <2>1. \A p \in Streaks : /\ p[1] \in 1..n /\ p[2] \in 1..n /\ p[1] <= p[2]
                           /\ AllMet(history, target, p[1], p[2])
    OBVIOUS
  <2>2. \A a, b \in 1..n : a <= b /\ AllMet(history, target, a, b) => b - a + 1 \in S
    <3>1. ASSUME NEW a \in 1..n, NEW b \in 1..n, a <= b, AllMet(history, target, a, b)
          PROVE  b - a + 1 \in S
      <4>1. <<a, b>> \in Streaks /\ <<a, b>>[1] = a /\ <<a, b>>[2] = b
        BY <3>1
      <4>2. QED
        BY <4>1
    <3>2. QED
      BY <3>1
  <2>3. S \in SUBSET Int
    <3>1. \A p \in Streaks : p[2] - p[1] + 1 \in Int
      BY <1>1, <2>1
    <3> HIDE DEF Streaks
    <3>2. QED
      BY <3>1
  <2>4. l \in S
    <3>1. CASE l = 0
      BY <3>1
    <3>2. CASE l # 0
      <4> HIDE DEF S
      <4>1. QED
        BY <1>3, <2>2, <3>2 DEF LongestTo
    <3>3. QED
      BY <3>1, <3>2
  <2>5. \A y \in S : l >= y
    <3>1. \A p \in Streaks : p[2] - p[1] + 1 <= l
      BY <1>3, <2>1 DEF LongestTo
    <3> HIDE DEF Streaks
    <3>2. \A y \in S : y = 0 \/ \E p \in Streaks : y = p[2] - p[1] + 1
      OBVIOUS
    <3>3. ASSUME NEW y \in S
          PROVE  l >= y
      <4>1. CASE y = 0
        BY <1>3, <4>1
      <4>2. CASE y # 0
        <5>1. y <= l /\ y \in Int
          BY <2>3, <3>1, <3>2, <4>2
        <5>2. QED
          BY <1>3, <5>1
      <4>3. QED
        BY <4>1, <4>2
    <3> HIDE DEF S
    <3>4. QED
      BY <3>3
  <2> HIDE DEF S
  <2>6. Max(S) = l
    BY <2>3, <2>4, <2>5, MaxIs
  <2>7. QED
    BY <2>6 DEF S
<1>6. /\ IsFiniteSet(1..n) /\ Cardinality(1..n) = n
  BY <1>1, FS_Interval
<1>7. /\ IsFiniteSet(met) /\ Cardinality(met) \in Nat
      /\ IsFiniteSet(over) /\ Cardinality(over) \in Nat
      /\ IsFiniteSet(nodata) /\ Cardinality(nodata) \in Nat
  <2>1. met \in SUBSET (1..n) /\ over \in SUBSET (1..n) /\ nodata \in SUBSET (1..n)
    BY <1>1
  <2> HIDE DEF met, over, nodata
  <2>2. IsFiniteSet(met) /\ IsFiniteSet(over) /\ IsFiniteSet(nodata)
    BY <1>6, <2>1, FS_Subset
  <2>3. QED
    BY <2>2, FS_CardinalityType
<1>8. l <= Cardinality(met)
  <2>1. CASE l = 0
    BY <1>7, <2>1
  <2>2. CASE l # 0
    <3>1. PICK a \in 1..n, b \in 1..n : a <= b /\ AllMet(history, target, a, b) /\ l = b - a + 1
      BY <1>3, <2>2 DEF LongestTo
    <3>2. (a..b) \in SUBSET met
      <4>1. \A i \in a..b : i \in 1..n /\ Met(history[i], target)
        BY <1>1, <3>1 DEF AllMet
      <4>2. QED
        BY <1>1, <4>1
    <3>3. Cardinality(a..b) = b - a + 1
      <4>1. a \in Int /\ b \in Int
        BY <1>1
      <4>2. QED
        BY <3>1, <4>1, FS_Interval
    <3> HIDE DEF met
    <3>4. Cardinality(a..b) <= Cardinality(met)
      BY <1>7, <3>2, FS_Subset
    <3>5. QED
      BY <3>1, <3>3, <3>4
  <2>3. QED
    BY <2>1, <2>2
<1>9. target # NoGoal => Cardinality(met) + Cardinality(over) + Cardinality(nodata) = n
  <2>1. SUFFICES ASSUME target # NoGoal
                 PROVE  Cardinality(met) + Cardinality(over) + Cardinality(nodata) = n
    OBVIOUS
  <2>2. /\ met \cap over = {} /\ (met \cup over) \cap nodata = {}
        /\ (met \cup over) \cup nodata = 1..n
    BY <1>1, <2>1 DEF Met
  <2> HIDE DEF met, over, nodata
  <2>3. /\ IsFiniteSet(met \cup over)
        /\ Cardinality(met \cup over) = Cardinality(met) + Cardinality(over)
    BY <1>7, <2>2, DisjointUnion
  <2> DEFINE either == met \cup over
  <2> HIDE DEF either
  <2>4. /\ IsFiniteSet(either) /\ either \cap nodata = {} /\ either \cup nodata = 1..n
        /\ Cardinality(either) = Cardinality(met) + Cardinality(over)
    BY <2>2, <2>3 DEF either
  <2>5. Cardinality(either \cup nodata) = Cardinality(either) + Cardinality(nodata)
    BY <1>7, <2>4, DisjointUnion
  <2>6. QED
    BY <1>6, <2>4, <2>5
<1>10. n > 0 /\ history[n] = NoRecord => k = 0
  <2>1. SUFFICES ASSUME n > 0, history[n] = NoRecord, k # 0
                 PROVE  FALSE
    OBVIOUS
  <2>2. n \in (n - k + 1)..n
    BY <1>1, <1>2, <2>1 DEF StretchTo
  <2>3. Met(history[n], target)
    BY <1>2, <2>2 DEF StretchTo, AllMet
  <2>4. QED
    BY <2>1, <2>3 DEF Met
<1>11. QED
  <2>1. /\ get_goal_streak(history, target).active_streak = k
        /\ get_goal_streak(history, target).longest_streak = l
        /\ get_goal_streak(history, target).days_under = Cardinality(met)
        /\ get_goal_streak(history, target).days_over = Cardinality(over)
        /\ get_goal_streak(history, target).days_no_data = Cardinality(nodata)
    BY DEF get_goal_streak, Days, k, l
  <2> HIDE DEF met, over, nodata
  <2>2. QED
    BY <1>3, <1>4, <1>5, <1>8, <1>9, <1>10, <2>1 DEF StreakIsRun, n

\* evaluate_goal_progress of every history: the user is told to be on track of a target only
\* while the goal is met, and, of a goal with an end date or a weekly one, until that ends,
\* exactly when the average so far keeps all of its days under the target.
THEOREM TracksAreFair ==
  ASSUME NEW history \in Seq(Nat \cup {NoRecord}), NEW start \in DOMAIN history,
         NEW end \in Nat \cup {NoEnd}, NEW type \in GoalType, NEW target \in Nat, NEW left \in Nat
  PROVE  TrackIsFair(history, start, end, type, target, left)
<1> DEFINE n == Len(history)
           f == [i \in DOMAIN history |-> IF i < start \/ history[i] = NoRecord THEN 0 ELSE history[i]]
<1>1. n \in Nat /\ start \in Nat /\ start <= n /\ DOMAIN history = 1..n
  OBVIOUS
<1>2. \A i \in 1..n : f[i] \in Nat
  BY <1>1
<1> HIDE DEF f
<1>3. SumTo(f, n) \in Nat
  <2> HIDE DEF n
  <2>1. QED
    BY <1>1, <1>2, SumOfNaturals
<1>4. UsedSince(history, start) \in Nat
  BY <1>3 DEF UsedSince, f
<1>5. QED
  BY <1>1, <1>4, OnTrackIsFair DEF TrackIsFair

-----------------------------------------------------------------------------
(* The sums of a day *)

Usage == [was_active : BOOLEAN, cycles : Nat, minutes : Nat, wh : Nat]

InOrder(s) == \A i, j \in 1..Len(s) : i < j => s[i].at < s[j].at

\* What whole division by a positive number yields.
LEMMA Quotient ==
  ASSUME NEW a \in Int, NEW d \in Nat \ {0}
  PROVE  /\ a \div d \in Int
         /\ d * (a \div d) <= a /\ a < d * (a \div d) + d
         /\ a >= 0 => a \div d \in Nat
<1>1. a \div d \in Int
  OBVIOUS
<1>2. d * (a \div d) <= a /\ a < d * (a \div d) + d
  OBVIOUS
<1>3. a >= 0 => a \div d \in Nat
  OBVIOUS
<1>4. QED
  BY <1>1, <1>2, <1>3

\* Later slots are in later hours, and two slots of an hour are less than an hour apart.
LEMMA HoursInOrder ==
  ASSUME NEW a \in Nat, NEW b \in Nat, a <= b
  PROVE  /\ HourOf(a) \in Int /\ HourOf(a) <= HourOf(b)
         /\ HourOf(a) = HourOf(b) => b - a < HourSlots
         /\ a > 0 => HourOf(a) >= 1
<1> DEFINE x == (a - 1) \div HourSlots
           y == (b - 1) \div HourSlots
<1>1. HourSlots \in Nat \ {0} /\ a - 1 \in Int /\ b - 1 \in Int
  BY DayAssumption
<1>2. /\ x \in Int /\ HourSlots * x <= a - 1 /\ a - 1 < HourSlots * x + HourSlots
      /\ y \in Int /\ HourSlots * y <= b - 1 /\ b - 1 < HourSlots * y + HourSlots
      /\ a > 0 => x \in Nat
  BY <1>1, Quotient
<1> HIDE DEF x, y
<1>3. x <= y
  <2>1. SUFFICES ASSUME y + 1 <= x
                 PROVE  FALSE
    BY <1>2
  <2>2. HourSlots * (y + 1) <= HourSlots * x
    BY <1>1, <1>2, <2>1
  <2>3. HourSlots * (y + 1) = HourSlots * y + HourSlots
    BY <1>1, <1>2
  <2>4. QED
    BY <1>1, <1>2, <2>2, <2>3
<1>4. x = y => b - a < HourSlots
  BY <1>1, <1>2
<1>5. HourOf(a) = x + 1 /\ HourOf(b) = y + 1
  BY DEF HourOf, x, y
<1>6. QED
  BY <1>2, <1>3, <1>4, <1>5

\* Between two readings the energy and the minutes are naturals, rounded down.
LEMMA EnergyType ==
  ASSUME NEW p \in Reading, NEW c \in Reading, p.at < c.at
  PROVE  /\ Energy(p, c) \in Nat
         /\ (60 * (c.at - p.at)) \div HourSlots \in Nat
         /\ HourSlots * ((60 * (c.at - p.at)) \div HourSlots) <= 60 * (c.at - p.at)
<1>1. /\ p.at \in Nat /\ c.at \in Nat /\ c.at - p.at \in Nat
      /\ p.watts \in Nat /\ c.watts \in Nat
  <2>1. p.at \in 1..Slots /\ c.at \in 1..Slots /\ p.watts \in Watts /\ c.watts \in Watts
    BY DEF Reading
  <2>2. Slots \in Nat /\ Watts \subseteq Nat
    BY DayAssumption
  <2>3. p.watts \in Nat /\ c.watts \in Nat
    BY <2>1, <2>2
  <2>4. p.at \in Nat /\ c.at \in Nat
    BY <2>1, <2>2
  <2>5. QED
    BY <2>3, <2>4
<1>2. HourSlots \in Nat \ {0} /\ 2 * HourSlots \in Nat \ {0}
  BY DayAssumption
<1>3. Twice(p, c) \in Nat
  BY <1>1 DEF Twice
<1>4. Twice(p, c) * (c.at - p.at) \in Int /\ Twice(p, c) * (c.at - p.at) >= 0
  <2> DEFINE w == Twice(p, c)
             t == c.at - p.at
  <2> HIDE DEF w, t
  <2>1. w \in Nat /\ t \in Nat
    BY <1>1, <1>3 DEF w, t
  <2>2. w * t \in Int /\ w * t >= 0
    BY <2>1
  <2>3. QED
    BY <2>2 DEF w, t
<1>5. Energy(p, c) \in Nat
  BY <1>2, <1>4, Quotient DEF Energy
<1>6. 60 * (c.at - p.at) \in Int /\ 60 * (c.at - p.at) >= 0
  BY <1>1
<1>7. QED
  BY <1>2, <1>5, <1>6, Quotient

\* The step of detect_usage_cycles keeps the types of what it counts.
LEMMA AdvanceType ==
  ASSUME NEW u \in Usage, NEW p \in Reading, NEW c \in Reading, p.at < c.at
  PROVE  Advance(u, p, c) \in Usage
<1>1. On(p, c) \in BOOLEAN
  BY DEF On
<1>2. CASE ~Continuous(p, c)
  BY <1>2 DEF Advance, Usage
<1>3. CASE Continuous(p, c)
  <2> DEFINE w == Energy(p, c)
             t == (60 * (c.at - p.at)) \div HourSlots
  <2>1. w \in Nat /\ t \in Nat
    BY EnergyType
  <2>2. Advance(u, p, c) =
          [was_active |-> On(p, c),
           cycles  |-> u.cycles + (IF On(p, c) /\ ~u.was_active THEN 1 ELSE 0),
           minutes |-> u.minutes + (IF On(p, c) THEN t ELSE 0),
           wh      |-> u.wh + w]
    BY <1>3 DEF Advance
  <2> HIDE DEF w, t
  <2>3. /\ u.cycles + (IF On(p, c) /\ ~u.was_active THEN 1 ELSE 0) \in Nat
        /\ u.minutes + (IF On(p, c) THEN t ELSE 0) \in Nat
        /\ u.wh + w \in Nat
    BY <2>1 DEF Usage
  <2>4. QED
    BY <1>1, <2>2, <2>3 DEF Usage
<1>4. QED
  BY <1>2, <1>3

\* What the loop over a list ends with is the last of any usages that satisfy its equation.
LEMMA UsageIsLast ==
  ASSUME NEW s \in Seq(Reading), s # <<>>, NEW u \in [1..Len(s) -> Usage], u[1] = Unused,
         \A i \in 2..Len(s) : u[i] = Advance(u[i - 1], s[i - 1], s[i])
  PROVE  detect_usage_cycles(s) = u[Len(s)]
<1> DEFINE n == Len(s)
           Loop(g) == g = [i \in 1..n |-> IF i = 1 THEN Unused
                                          ELSE Advance(g[i - 1], s[i - 1], s[i])]
<1>1. n \in Nat \ {0}
  OBVIOUS
<1>2. Loop(u)
  <2>1. ASSUME NEW i \in 1..n
        PROVE  u[i] = IF i = 1 THEN Unused ELSE Advance(u[i - 1], s[i - 1], s[i])
    <3>1. CASE i = 1
      BY <3>1
    <3>2. CASE i # 1
      <4>1. i \in 2..n
        BY <3>2
      <4>2. QED
        BY <3>2, <4>1
    <3>3. QED
      BY <3>1, <3>2
  <2>2. QED
    BY <2>1
<1>3. PICK g : Loop(g) /\ detect_usage_cycles(s) = g[n]
  BY <1>2 DEF detect_usage_cycles
<1>4. g[1] = Unused /\ \A i \in 2..n : g[i] = Advance(g[i - 1], s[i - 1], s[i])
  <2>1. ASSUME NEW i \in 1..n
        PROVE  g[i] = IF i = 1 THEN Unused ELSE Advance(g[i - 1], s[i - 1], s[i])
    BY <1>3
  <2>2. QED
    BY <1>1, <2>1
<1> DEFINE S == {i \in Nat : i + 1 \in 1..n => g[i + 1] = u[i + 1]}
<1>5. 0 \in S
  BY <1>4
<1>6. ASSUME NEW i \in Nat, i \in S
      PROVE  i + 1 \in S
  <2>1. CASE (i + 1) + 1 \in 1..n
    <3>1. i + 1 \in 1..n /\ (i + 1) + 1 \in 2..n /\ ((i + 1) + 1) - 1 = i + 1
      BY <2>1
    <3>2. g[i + 1] = u[i + 1]
      BY <1>6, <3>1
    <3>3. /\ g[(i + 1) + 1] = Advance(g[i + 1], s[i + 1], s[(i + 1) + 1])
          /\ u[(i + 1) + 1] = Advance(u[i + 1], s[i + 1], s[(i + 1) + 1])
      BY <1>4, <3>1
    <3>4. QED
      BY <3>2, <3>3
  <2>2. CASE (i + 1) + 1 \notin 1..n
    BY <2>2
  <2>3. QED
    BY <2>1, <2>2
<1>7. \A i \in Nat : i \in S
  <2> HIDE DEF S
  <2>1. QED
    BY <1>5, <1>6, SetInduction
<1>8. g[n] = u[n]
  <2>1. n - 1 \in Nat /\ (n - 1) + 1 = n /\ n \in 1..n
    BY <1>1
  <2>2. n - 1 \in S
    <3> HIDE DEF S, n
    <3>1. QED
      BY <1>7, <2>1
  <2>3. QED
    BY <2>1, <2>2
<1>9. QED
  BY <1>3, <1>8

\* There are such usages.
LEMMA UsagesExist ==
  ASSUME NEW s \in Seq(Reading), s # <<>>, InOrder(s)
  PROVE  \E u \in [1..Len(s) -> Usage] :
            u[1] = Unused /\ \A i \in 2..Len(s) : u[i] = Advance(u[i - 1], s[i - 1], s[i])
<1> DEFINE n == Len(s)
           step == [p \in Usage \X Nat |->
                       IF p[2] + 2 \in 2..n THEN Advance(p[1], s[p[2] + 1], s[p[2] + 2]) ELSE Unused]
<1>1. n \in Nat \ {0} /\ Unused \in Usage
  BY DEF Unused, Usage
<1>2. step \in [Usage \X Nat -> Usage]
  <2>1. ASSUME NEW p \in Usage \X Nat
        PROVE  (IF p[2] + 2 \in 2..n THEN Advance(p[1], s[p[2] + 1], s[p[2] + 2]) ELSE Unused)
                   \in Usage
    <3>1. p[1] \in Usage /\ p[2] \in Nat
      OBVIOUS
    <3>2. CASE p[2] + 2 \in 2..n
      <4>1. p[2] + 1 \in 1..n /\ p[2] + 2 \in 1..n /\ p[2] + 1 < p[2] + 2
        BY <3>1, <3>2
      <4>2. s[p[2] + 1] \in Reading /\ s[p[2] + 2] \in Reading
        BY <4>1
      <4>3. s[p[2] + 1].at < s[p[2] + 2].at
        BY <4>1 DEF InOrder
      <4>4. Advance(p[1], s[p[2] + 1], s[p[2] + 2]) \in Usage
        BY <3>1, <4>2, <4>3, AdvanceType
      <4>5. QED
        BY <3>2, <4>4
    <3>3. CASE p[2] + 2 \notin 2..n
      BY <1>1, <3>3
    <3>4. QED
      BY <3>2, <3>3
  <2>2. QED
    BY <2>1
<1>3. PICK F : Recursion(F, Usage, Unused, step)
  <2> HIDE DEF step
  <2>1. QED
    BY <1>1, <1>2, RecursionExists
<1> DEFINE u == [i \in 1..n |-> F[i - 1]]
<1>4. u \in [1..n -> Usage] /\ u[1] = Unused
  BY <1>1, <1>3 DEF Recursion
<1>5. ASSUME NEW i \in 2..n
      PROVE  u[i] = Advance(u[i - 1], s[i - 1], s[i])
  <2>1. /\ i - 2 \in Nat /\ (i - 2) + 1 = i - 1 /\ (i - 2) + 2 = i /\ (i - 2) + 2 \in 2..n
        /\ i \in 1..n /\ i - 1 \in 1..n /\ (i - 1) - 1 = i - 2
    OBVIOUS
  <2>2. F[i - 1] = step[<<F[i - 2], i - 2>>]
    BY <1>3, <2>1 DEF Recursion
  <2>3. <<F[i - 2], i - 2>> \in Usage \X Nat
    BY <1>3, <2>1 DEF Recursion
  <2>4. step[<<F[i - 2], i - 2>>] = Advance(F[i - 2], s[i - 1], s[i])
    BY <2>1, <2>3
  <2>5. u[i] = F[i - 1] /\ u[i - 1] = F[i - 2]
    BY <2>1
  <2>6. QED
    BY <2>2, <2>4, <2>5
<1>6. QED
  <2> HIDE DEF u
  <2>1. QED
    BY <1>4, <1>5

\* One more reading advances the usage of a list.
LEMMA DetectAppends ==
  ASSUME NEW s \in Seq(Reading), NEW r \in Reading, InOrder(Append(s, r))
  PROVE  /\ detect_usage_cycles(s) \in Usage /\ detect_usage_cycles(Append(s, r)) \in Usage
         /\ detect_usage_cycles(Append(s, r)) =
               IF s = <<>> THEN Unused ELSE Advance(detect_usage_cycles(s), s[Len(s)], r)
<1> DEFINE n == Len(s)
           t == Append(s, r)
<1>1. /\ t \in Seq(Reading) /\ t # <<>> /\ n \in Nat /\ Len(t) = n + 1 /\ t[n + 1] = r
      /\ \A i \in 1..n : t[i] = s[i]
  OBVIOUS
<1>2. PICK u \in [1..(n + 1) -> Usage] :
        u[1] = Unused /\ \A i \in 2..(n + 1) : u[i] = Advance(u[i - 1], t[i - 1], t[i])
  <2>1. InOrder(t)
    OBVIOUS
  <2> HIDE DEF t
  <2>2. \E u \in [1..Len(t) -> Usage] :
            u[1] = Unused /\ \A i \in 2..Len(t) : u[i] = Advance(u[i - 1], t[i - 1], t[i])
    BY <1>1, <2>1, UsagesExist
  <2>3. QED
    BY <1>1, <2>2
<1> HIDE DEF t
<1>3. detect_usage_cycles(t) = u[n + 1] /\ u[n + 1] \in Usage
  <2>1. u \in [1..Len(t) -> Usage] /\ \A i \in 2..Len(t) : u[i] = Advance(u[i - 1], t[i - 1], t[i])
    BY <1>1, <1>2
  <2>2. detect_usage_cycles(t) = u[Len(t)]
    BY <1>1, <1>2, <2>1, UsageIsLast
  <2>3. QED
    BY <1>1, <1>2, <2>2
<1>4. CASE s = <<>>
  <2>1. n = 0
    BY <1>4
  <2>2. detect_usage_cycles(s) = Unused /\ Unused \in Usage
    BY <1>4 DEF detect_usage_cycles, Unused, Usage
  <2>3. QED
    BY <1>2, <1>3, <1>4, <2>1, <2>2 DEF t
<1>5. CASE s # <<>>
  <2> DEFINE v == [i \in 1..n |-> u[i]]
  <2>1. n \in Nat \ {0} /\ n \in 1..n /\ n \in 1..(n + 1) /\ n + 1 \in 2..(n + 1) /\ (n + 1) - 1 = n
    BY <1>5
  <2>2. v \in [1..n -> Usage] /\ v[1] = Unused /\ v[n] = u[n] /\ u[n] \in Usage
    BY <1>2, <2>1
  <2>3. ASSUME NEW i \in 2..n
        PROVE  v[i] = Advance(v[i - 1], s[i - 1], s[i])
    <3>1. i \in 1..n /\ i - 1 \in 1..n /\ i \in 2..(n + 1)
      OBVIOUS
    <3>2. t[i] = s[i] /\ t[i - 1] = s[i - 1]
      BY <1>1, <3>1
    <3>3. QED
      BY <1>2, <3>1, <3>2
  <2>4. detect_usage_cycles(s) = v[n]
    <3> HIDE DEF v
    <3>1. QED
      BY <1>5, <2>2, <2>3, UsageIsLast
  <2>5. u[n + 1] = Advance(u[n], t[n], t[n + 1])
    BY <1>2, <2>1
  <2>6. QED
    BY <1>1, <1>3, <1>5, <2>1, <2>2, <2>4, <2>5 DEF t
<1>6. QED
  BY <1>4, <1>5

\* detect_usage_cycles counts in naturals.
LEMMA DetectType ==
  ASSUME NEW s \in Seq(Reading), InOrder(s)
  PROVE  detect_usage_cycles(s) \in Usage
<1>1. CASE s = <<>>
  BY <1>1 DEF detect_usage_cycles, Unused, Usage
<1>2. CASE s # <<>>
  <2>1. PICK u \in [1..Len(s) -> Usage] :
          u[1] = Unused /\ \A i \in 2..Len(s) : u[i] = Advance(u[i - 1], s[i - 1], s[i])
    BY <1>2, UsagesExist
  <2>2. detect_usage_cycles(s) = u[Len(s)]
    BY <1>2, <2>1, UsageIsLast
  <2>3. Len(s) \in 1..Len(s)
    BY <1>2
  <2>4. QED
    BY <2>1, <2>2, <2>3
<1>3. QED
  BY <1>1, <1>2

\* A set of numbers up to n that is not empty has a least and a greatest one.
LEMMA Extremes ==
  ASSUME NEW n \in Nat, NEW S \in SUBSET (1..n), S # {}
  PROVE  /\ Min(S) \in S /\ \A i \in S : Min(S) <= i
         /\ Max(S) \in S /\ \A i \in S : i <= Max(S)
         /\ Min(S) \in 1..n /\ Max(S) \in Min(S)..n
<1> DEFINE Has(R) == /\ \E x \in R : \A y \in R : x <= y
                     /\ \E x \in R : \A y \in R : x >= y
           T == {m \in Nat : \A R \in SUBSET (1..m) : R # {} => Has(R)}
<1>1. 0 \in T
  <2>1. 1..0 = {}
    OBVIOUS
  <2>2. \A R \in SUBSET (1..0) : R = {}
    BY <2>1
  <2>3. QED
    BY <2>2
<1>2. ASSUME NEW m \in Nat, m \in T
      PROVE  m + 1 \in T
  <2>1. SUFFICES ASSUME NEW R \in SUBSET (1..(m + 1)), R # {}
                 PROVE  Has(R)
    OBVIOUS
  <2> DEFINE Q == R \ {m + 1}
  <2>2. Q \in SUBSET (1..m)
    OBVIOUS
  <2>3. CASE Q = {}
    <3>1. R = {m + 1}
      BY <2>1, <2>3
    <3>2. QED
      BY <3>1
  <2>4. CASE Q # {} /\ m + 1 \in R
    <3>1. PICK x \in Q : \A y \in Q : x <= y
      BY <1>2, <2>2, <2>4
    <3>2. \A y \in R : y \in Q \/ y = m + 1
      OBVIOUS
    <3>3. x \in 1..m /\ \A y \in R : x <= y
      BY <2>2, <3>1, <3>2
    <3>4. \A y \in R : m + 1 >= y
      BY <2>1
    <3>5. QED
      BY <2>4, <3>1, <3>3, <3>4
  <2>5. CASE m + 1 \notin R
    <3>1. Q = R
      BY <2>5
    <3>2. QED
      BY <1>2, <2>1, <2>2, <3>1
  <2>6. QED
    BY <2>3, <2>4, <2>5
<1>3. \A m \in Nat : m \in T
  <2> HIDE DEF T
  <2>1. QED
    BY <1>1, <1>2, SetInduction
<1>4. Has(S)
  BY <1>3
<1>5. Min(S) \in S /\ \A i \in S : Min(S) <= i
  BY <1>4 DEF Min
<1>6. Max(S) \in S /\ \A i \in S : Max(S) >= i
  BY <1>4 DEF Max
<1>7. Min(S) \in 1..n /\ Max(S) \in Min(S)..n
  <2>1. \A i \in S : i \in 1..n
    OBVIOUS
  <2>2. Min(S) \in 1..n /\ Max(S) \in 1..n /\ Min(S) <= Max(S)
    BY <1>5, <1>6, <2>1
  <2>3. QED
    BY <2>2
<1>8. QED
  BY <1>5, <1>6, <1>7

\* The first and the last of some positions of a list.
LEMMA ExtremesAre ==
  ASSUME NEW n \in Nat, NEW S \in SUBSET (1..n), NEW x \in S
  PROVE  /\ (\A i \in S : x <= i) => Min(S) = x
         /\ (\A i \in S : i <= x) => Max(S) = x
<1>1. /\ Min(S) \in S /\ \A i \in S : Min(S) <= i
      /\ Max(S) \in S /\ \A i \in S : i <= Max(S)
      /\ Min(S) \in 1..n /\ Max(S) \in Min(S)..n
  <2>1. S # {}
    OBVIOUS
  <2>2. QED
    BY <2>1, Extremes
<1>2. x \in 1..n
  OBVIOUS
<1>3. QED
  BY <1>1, <1>2

\* A part of an ordered list is in order, and no part of it that ends before its last
\* reading tells whether there is one more.
LEMMA Parts ==
  ASSUME NEW s \in Seq(Reading), InOrder(s),
         NEW a \in 1..Len(s), NEW b \in a..Len(s)
  PROVE  /\ SubSeq(s, a, b) \in Seq(Reading) /\ InOrder(SubSeq(s, a, b))
         /\ SubSeq(s, a, b) # <<>> /\ Len(SubSeq(s, a, b)) = b - a + 1
         /\ SubSeq(s, a, b)[b - a + 1] = s[b]
<1> DEFINE p == SubSeq(s, a, b)
<1>1. \A i \in a..b : s[i] \in Reading
  OBVIOUS
<1>2. p \in Seq(Reading) /\ Len(p) = b - a + 1 /\ \A i \in 1..(b - a + 1) : p[i] = s[a + i - 1]
  BY <1>1
<1> HIDE DEF p
<1>3. InOrder(p)
  <2>1. ASSUME NEW i \in 1..Len(p), NEW j \in 1..Len(p), i < j
        PROVE  p[i].at < p[j].at
    <3>1. a + i - 1 \in 1..Len(s) /\ a + j - 1 \in 1..Len(s) /\ a + i - 1 < a + j - 1
      BY <1>2, <2>1
    <3>2. s[a + i - 1].at < s[a + j - 1].at
      BY <3>1 DEF InOrder
    <3>3. QED
      BY <1>2, <2>1, <3>2
  <2>2. QED
    BY <2>1 DEF InOrder
<1>4. p # <<>> /\ p[b - a + 1] = s[b]
  <2>1. b - a + 1 \in 1..(b - a + 1) /\ a + (b - a + 1) - 1 = b
    OBVIOUS
  <2>2. Len(p) # 0
    BY <1>2, <2>1
  <2>3. QED
    BY <1>2, <2>1, <2>2
<1>5. QED
  BY <1>2, <1>3, <1>4 DEF p

\* A part of a list with one reading more is one of the list, or that with the reading.
LEMMA PartsOfAppend ==
  ASSUME NEW s \in Seq(Reading), NEW r \in Reading, NEW a \in 1..(Len(s) + 1)
  PROVE  /\ \A b \in a..Len(s) : SubSeq(Append(s, r), a, b) = SubSeq(s, a, b)
         /\ SubSeq(Append(s, r), a, Len(s) + 1) = Append(SubSeq(s, a, Len(s)), r)
         /\ SubSeq(s, a, Len(s)) \in Seq(Reading)
<1> DEFINE n == Len(s)
           t == Append(s, r)
<1>1. /\ t \in Seq(Reading) /\ n \in Nat /\ Len(t) = n + 1 /\ t[n + 1] = r
      /\ \A i \in 1..n : t[i] = s[i]
  OBVIOUS
<1>2. ASSUME NEW b \in a..n
      PROVE  SubSeq(t, a, b) = SubSeq(s, a, b)
  OBVIOUS
<1>3. SubSeq(t, a, n + 1) = Append(SubSeq(s, a, n), r)
  OBVIOUS
<1>4. SubSeq(s, a, n) \in Seq(Reading)
  OBVIOUS
<1>5. QED
  BY <1>2, <1>3, <1>4

\* The slot of a reading.
LEMMA Slot ==
  ASSUME NEW r \in Reading
  PROVE  r.at \in 1..Slots /\ r.at \in Nat /\ r.at > 0
<1>1. r.at \in 1..Slots /\ Slots \in Nat
  BY DayAssumption DEF Reading
<1>2. QED
  BY <1>1

\* The usage of an hour, and what one more reading does to it: it advances the hour of the
\* last reading, or begins another one.
LEMMA HourlyType ==
  ASSUME NEW s \in Seq(Reading), InOrder(s), NEW h
  PROVE  Hourly(s, h) \in Usage
<1> DEFINE I == InHour(s, h)
<1>1. CASE I = {}
  BY <1>1 DEF Hourly, Unused, Usage
<1>2. CASE I # {}
  <2>1. I \in SUBSET (1..Len(s)) /\ Len(s) \in Nat
    BY DEF InHour
  <2> HIDE DEF I
  <2>2. Min(I) \in 1..Len(s) /\ Max(I) \in Min(I)..Len(s)
    BY <1>2, <2>1, Extremes
  <2>3. detect_usage_cycles(SubSeq(s, Min(I), Max(I))) \in Usage
    BY <2>2, Parts, DetectType
  <2>4. QED
    BY <1>2, <2>3 DEF Hourly, I
<1>3. QED
  BY <1>1, <1>2

\* A reading leaves the other hours as they are; in its own it advances the usage if the one
\* before is of that hour as well, and otherwise starts it from nothing.
LEMMA HourlyAppends ==
  ASSUME NEW s \in Seq(Reading), NEW r \in Reading, InOrder(Append(s, r))
  PROVE  /\ \A h : h # HourOf(r.at) => Hourly(Append(s, r), h) = Hourly(s, h)
         /\ s # <<>> /\ HourOf(s[Len(s)].at) = HourOf(r.at) =>
               Hourly(Append(s, r), HourOf(r.at)) = Advance(Hourly(s, HourOf(r.at)), s[Len(s)], r)
         /\ s = <<>> \/ HourOf(s[Len(s)].at) # HourOf(r.at) =>
               Hourly(Append(s, r), HourOf(r.at)) = Unused /\ Hourly(s, HourOf(r.at)) = Unused
<1> DEFINE n == Len(s)
           t == Append(s, r)
           k == HourOf(r.at)
<1>1. /\ t \in Seq(Reading) /\ n \in Nat /\ Len(t) = n + 1 /\ t[n + 1] = r
      /\ \A i \in 1..n : t[i] = s[i]
      /\ DOMAIN t = 1..(n + 1) /\ DOMAIN s = 1..n
  OBVIOUS
<1>2. InOrder(s) /\ InOrder(t)
  <2>1. ASSUME NEW i \in 1..n, NEW j \in 1..n, i < j
        PROVE  s[i].at < s[j].at
    BY <1>1, <2>1 DEF InOrder
  <2>2. QED
    BY <2>1 DEF InOrder
<1>3. \A h : InHour(t, h) = InHour(s, h) \cup {i \in {n + 1} : h = k}
  BY <1>1 DEF InHour
<1>4. \A h : InHour(s, h) \in SUBSET (1..n) /\ InHour(t, h) \in SUBSET (1..(n + 1))
  BY <1>1 DEF InHour
<1> HIDE DEF t
<1>5. ASSUME NEW h, h # k
      PROVE  Hourly(t, h) = Hourly(s, h)
  <2> DEFINE I == InHour(s, h)
  <2>1. InHour(t, h) = I /\ I \in SUBSET (1..n)
    BY <1>3, <1>4, <1>5
  <2>2. CASE I = {}
    BY <2>1, <2>2 DEF Hourly
  <2>3. CASE I # {}
    <3> HIDE DEF I
    <3>1. Min(I) \in 1..n /\ Max(I) \in Min(I)..n
      BY <1>1, <2>1, <2>3, Extremes
    <3>2. Min(I) \in 1..(n + 1)
      BY <1>1, <3>1
    <3>3. SubSeq(t, Min(I), Max(I)) = SubSeq(s, Min(I), Max(I))
      BY <3>1, <3>2, PartsOfAppend DEF t
    <3>4. Hourly(t, h) = detect_usage_cycles(SubSeq(t, Min(I), Max(I)))
      BY <2>1, <2>3 DEF Hourly
    <3>5. Hourly(s, h) = detect_usage_cycles(SubSeq(s, Min(I), Max(I)))
      BY <2>3 DEF Hourly, I
    <3>6. QED
      BY <3>3, <3>4, <3>5
  <2>4. QED
    BY <2>2, <2>3
<1> DEFINE I == InHour(s, k)
           J == InHour(t, k)
<1>6. J = I \cup {n + 1} /\ I \in SUBSET (1..n) /\ J \in SUBSET (1..(n + 1)) /\ J # {}
  BY <1>3, <1>4
<1>7. Max(J) = n + 1
  <2> HIDE DEF I, J
  <2>1. n + 1 \in J /\ \A i \in J : i <= n + 1
    BY <1>1, <1>6
  <2>2. n + 1 \in Nat
    BY <1>1
  <2>3. QED
    BY <1>6, <2>1, <2>2, ExtremesAre
<1>8. ASSUME s # <<>>, HourOf(s[n].at) = k
      PROVE  Hourly(t, k) = Advance(Hourly(s, k), s[n], r)
  <2>1. n \in 1..n /\ n \in I
    <3>1. n \in 1..n
      BY <1>1, <1>8
    <3>2. QED
      BY <1>1, <1>8, <3>1 DEF InHour
  <2> HIDE DEF I, J
  <2>2. Min(I) \in I /\ Min(I) \in 1..n /\ \A i \in I : Min(I) <= i
    BY <1>1, <1>6, <2>1, Extremes
  <2>3. Max(I) = n
    <3>1. \A i \in I : i <= n
      BY <1>1, <1>6
    <3>2. QED
      BY <1>1, <1>6, <2>1, <3>1, ExtremesAre
  <2>4. Min(J) = Min(I)
    <3>1. Min(I) \in J /\ \A i \in J : Min(I) <= i
      BY <1>1, <1>6, <2>2
    <3>2. n + 1 \in Nat
      BY <1>1
    <3>3. QED
      BY <1>6, <3>1, <3>2, ExtremesAre
  <2> DEFINE a == Min(I)
             p == SubSeq(s, a, n)
  <2>5. a \in 1..n /\ n \in a..n /\ a \in 1..(n + 1)
    BY <1>1, <1>6, <2>2
  <2> HIDE DEF a
  <2>6. SubSeq(t, a, n + 1) = Append(p, r)
    BY <2>5, PartsOfAppend DEF t
  <2>7. p \in Seq(Reading) /\ p # <<>> /\ Len(p) = n - a + 1 /\ p[n - a + 1] = s[n]
    BY <1>2, <2>5, Parts
  <2>8. InOrder(Append(p, r))
    <3>1. a \in 1..Len(t) /\ n + 1 \in a..Len(t)
      BY <1>1, <2>5
    <3>2. InOrder(SubSeq(t, a, n + 1))
      BY <1>1, <1>2, <3>1, Parts
    <3>3. QED
      BY <2>6, <3>2
  <2> HIDE DEF p
  <2>9. detect_usage_cycles(Append(p, r)) = Advance(detect_usage_cycles(p), s[n], r)
    BY <2>7, <2>8, DetectAppends
  <2>10. Hourly(s, k) = detect_usage_cycles(p)
    BY <2>1, <2>3 DEF Hourly, I, p, a
  <2>11. Hourly(t, k) = detect_usage_cycles(SubSeq(t, a, n + 1))
    BY <1>6, <1>7, <2>4 DEF Hourly, J, a
  <2>12. QED
    BY <2>6, <2>9, <2>10, <2>11
<1>9. ASSUME s = <<>> \/ HourOf(s[n].at) # k
      PROVE  Hourly(t, k) = Unused /\ Hourly(s, k) = Unused
  <2>1. I = {}
    <3>1. SUFFICES ASSUME NEW i \in I
                   PROVE  FALSE
      OBVIOUS
    <3>2. i \in 1..n /\ HourOf(s[i].at) = k /\ s # <<>> /\ n \in 1..n /\ i <= n
      BY <1>1, <1>6 DEF InHour
    <3>3. s[i].at <= s[n].at /\ s[n].at <= r.at
      <4>1. s[i] \in Reading /\ s[n] \in Reading
        BY <3>2
      <4>2. s[i].at <= s[n].at
        <5>1. CASE i = n
          BY <4>1, <5>1, Slot
        <5>2. CASE i # n
          <6>1. i < n
            BY <3>2, <5>2
          <6>2. QED
            BY <1>2, <3>2, <4>1, <6>1, Slot DEF InOrder
        <5>3. QED
          BY <5>1, <5>2
      <4>3. t[n].at < t[n + 1].at
        <5>1. n \in 1..Len(t) /\ n + 1 \in 1..Len(t) /\ n < n + 1
          BY <1>1, <3>2
        <5>2. QED
          BY <1>2, <5>1 DEF InOrder
      <4>4. t[n] = s[n] /\ s[n].at \in Nat /\ r.at \in Nat
        BY <1>1, <3>2, <4>1, Slot
      <4>5. QED
        BY <1>1, <4>2, <4>3, <4>4
    <3>4. s[i].at \in Nat /\ s[n].at \in Nat /\ r.at \in Nat
      BY <3>2, Slot
    <3>5. HourOf(s[i].at) <= HourOf(s[n].at) /\ HourOf(s[n].at) <= HourOf(r.at)
      BY <3>3, <3>4, HoursInOrder
    <3>6. HourOf(s[i].at) \in Int /\ HourOf(s[n].at) \in Int
      BY <3>3, <3>4, HoursInOrder
    <3>7. QED
      BY <1>9, <3>2, <3>5, <3>6
  <2>2. Hourly(s, k) = Unused
    BY <2>1 DEF Hourly
  <2>3. J = {n + 1}
    BY <1>6, <2>1
  <2>4. Min(J) = n + 1
    <3> HIDE DEF I, J
    <3>1. n + 1 \in J /\ (\A i \in J : n + 1 <= i) /\ n + 1 \in Nat
      BY <1>1, <2>3
    <3>2. QED
      BY <1>6, <3>1, ExtremesAre
  <2>5. SubSeq(t, n + 1, n + 1) = Append(<<>>, r)
    <3>1. n + 1 \in 1..(n + 1)
      BY <1>1
    <3>2. SubSeq(t, n + 1, n + 1) = Append(SubSeq(s, n + 1, n), r)
      BY <3>1, PartsOfAppend DEF t
    <3>3. SubSeq(s, n + 1, n) = <<>>
      BY <1>1
    <3>4. QED
      BY <3>2, <3>3
  <2>6. detect_usage_cycles(Append(<<>>, r)) = Unused
    <3> DEFINE e == <<>>
    <3>1. e \in Seq(Reading) /\ InOrder(Append(e, r))
      BY DEF InOrder
    <3>2. QED
      BY <3>1, DetectAppends
  <2>7. Hourly(t, k) = detect_usage_cycles(SubSeq(t, n + 1, n + 1))
    BY <1>6, <1>7, <2>4 DEF Hourly
  <2>8. QED
    BY <2>2, <2>5, <2>6, <2>7
<1>10. QED
  BY <1>5, <1>8, <1>9 DEF t

CyclesOf(s) == SumTo([h \in 1..LastHour |-> Hourly(s, h).cycles], LastHour)
MinutesOf(s) == SumTo([h \in 1..LastHour |-> Hourly(s, h).minutes], LastHour)
EnergyOf(s) == SumTo([h \in 1..LastHour |-> Hourly(s, h).wh], LastHour)

\* Every reading is in one of the hours the day is summed over.
LEMMA HourInDay ==
  ASSUME NEW r \in Reading
  PROVE  LastHour \in Nat /\ HourOf(r.at) \in 1..LastHour
<1>1. r.at \in Nat /\ r.at > 0 /\ Slots \in Nat /\ r.at <= Slots
  BY Slot, DayAssumption
<1>2. /\ HourOf(r.at) \in Int /\ HourOf(r.at) <= HourOf(Slots) /\ HourOf(r.at) >= 1
  BY <1>1, HoursInOrder
<1>3. HourOf(Slots) \in Int
  BY <1>1, HoursInOrder
<1>4. QED
  BY <1>2, <1>3 DEF LastHour

\* The hours can be counted, also of a day without readings.
LEMMA LastHourType ==
  LastHour \in Nat
<1>1. Slots \in Nat /\ Slots > 0
  BY DayAssumption
<1>2. HourOf(Slots) \in Int /\ HourOf(Slots) >= 1
  BY <1>1, HoursInOrder
<1>3. QED
  BY <1>2 DEF LastHour

\* A sum of zeros is zero.
LEMMA SumOfZeros ==
  ASSUME NEW n \in Nat, NEW f, \A i \in 1..n : f[i] = 0
  PROVE  SumTo(f, n) = 0
<1> DEFINE z == [i \in 0..n |-> 0]
<1>1. z \in [0..n -> Int] /\ z[0] = 0
  OBVIOUS
<1>2. \A i \in 1..n : z[i] = z[i - 1] + f[i]
  <2>1. ASSUME NEW i \in 1..n
        PROVE  z[i] = z[i - 1] + f[i]
    <3>1. i \in 0..n /\ i - 1 \in 0..n
      OBVIOUS
    <3>2. QED
      BY <3>1
  <2>2. QED
    BY <2>1
<1> HIDE DEF z
<1>3. SumTo(f, n) = z[n]
  BY <1>1, <1>2, SumIsLast
<1>4. QED
  BY <1>3 DEF z

\* The sums over the hours are naturals, and zero for a list without readings.
LEMMA SumsType ==
  ASSUME NEW s \in Seq(Reading), InOrder(s)
  PROVE  /\ CyclesOf(s) \in Nat /\ MinutesOf(s) \in Nat /\ EnergyOf(s) \in Nat
         /\ s = <<>> => CyclesOf(s) = 0 /\ MinutesOf(s) = 0 /\ EnergyOf(s) = 0
<1> DEFINE C == [h \in 1..LastHour |-> Hourly(s, h).cycles]
           M == [h \in 1..LastHour |-> Hourly(s, h).minutes]
           W == [h \in 1..LastHour |-> Hourly(s, h).wh]
<1>1. \A h \in 1..LastHour : Hourly(s, h) \in Usage
  BY HourlyType
<1>2. \A h \in 1..LastHour : C[h] \in Nat /\ M[h] \in Nat /\ W[h] \in Nat
  BY <1>1 DEF Usage
<1>3. ASSUME s = <<>>
      PROVE  \A h \in 1..LastHour : C[h] = 0 /\ M[h] = 0 /\ W[h] = 0
  <2>1. \A h : InHour(s, h) = {}
    BY <1>3 DEF InHour
  <2>2. QED
    BY <2>1 DEF Hourly, Unused
<1> HIDE DEF C, M, W
<1>4. SumTo(C, LastHour) \in Nat /\ SumTo(M, LastHour) \in Nat /\ SumTo(W, LastHour) \in Nat
  BY <1>2, LastHourType, SumOfNaturals
<1>5. s = <<>> => /\ SumTo(C, LastHour) = 0
                  /\ SumTo(M, LastHour) = 0
                  /\ SumTo(W, LastHour) = 0
  BY <1>3, LastHourType, SumOfZeros
<1>6. QED
  BY <1>4, <1>5 DEF CyclesOf, MinutesOf, EnergyOf, C, M, W

\* One more reading adds to the sums what it adds to its hour, and nothing when it is the
\* first of its hour.
LEMMA SumsAppend ==
  ASSUME NEW s \in Seq(Reading), NEW r \in Reading, InOrder(Append(s, r))
  PROVE  /\ s = <<>> \/ HourOf(s[Len(s)].at) # HourOf(r.at) =>
               /\ CyclesOf(Append(s, r)) = CyclesOf(s)
               /\ MinutesOf(Append(s, r)) = MinutesOf(s)
               /\ EnergyOf(Append(s, r)) = EnergyOf(s)
         /\ s # <<>> /\ HourOf(s[Len(s)].at) = HourOf(r.at) =>
               LET u == Hourly(s, HourOf(r.at))
                   v == Advance(u, s[Len(s)], r)
               IN  /\ CyclesOf(Append(s, r)) = CyclesOf(s) + v.cycles - u.cycles
                   /\ MinutesOf(Append(s, r)) = MinutesOf(s) + v.minutes - u.minutes
                   /\ EnergyOf(Append(s, r)) = EnergyOf(s) + v.wh - u.wh
<1> DEFINE t == Append(s, r)
           k == HourOf(r.at)
           Cs == [h \in 1..LastHour |-> Hourly(s, h).cycles]
           Ms == [h \in 1..LastHour |-> Hourly(s, h).minutes]
           Ws == [h \in 1..LastHour |-> Hourly(s, h).wh]
           Ct == [h \in 1..LastHour |-> Hourly(t, h).cycles]
           Mt == [h \in 1..LastHour |-> Hourly(t, h).minutes]
           Wt == [h \in 1..LastHour |-> Hourly(t, h).wh]
<1>1. t \in Seq(Reading) /\ InOrder(s) /\ InOrder(t)
  <2>1. /\ t \in Seq(Reading) /\ Len(t) = Len(s) + 1
        /\ \A i \in 1..Len(s) : t[i] = s[i] /\ i \in 1..Len(t)
    OBVIOUS
  <2>2. QED
    BY <2>1 DEF InOrder
<1>2. k \in 1..LastHour /\ LastHour \in Nat
  BY HourInDay
<1>3. \A h \in 1..LastHour : Hourly(s, h) \in Usage /\ Hourly(t, h) \in Usage
  <2> HIDE DEF t
  <2>1. QED
    BY <1>1, HourlyType
<1>4. \A h \in 1..LastHour : h # k => Hourly(t, h) = Hourly(s, h)
  BY HourlyAppends
<1>5. \A h \in 1..LastHour : /\ Cs[h] \in Int /\ Ms[h] \in Int /\ Ws[h] \in Int
                             /\ Ct[h] \in Int /\ Mt[h] \in Int /\ Wt[h] \in Int
                             /\ h # k => Cs[h] = Ct[h] /\ Ms[h] = Mt[h] /\ Ws[h] = Wt[h]
  <2> HIDE DEF t, k
  <2>1. QED
    BY <1>3, <1>4 DEF Usage
<1>6. /\ Cs[k] = Hourly(s, k).cycles /\ Ct[k] = Hourly(t, k).cycles
      /\ Ms[k] = Hourly(s, k).minutes /\ Mt[k] = Hourly(t, k).minutes
      /\ Ws[k] = Hourly(s, k).wh /\ Wt[k] = Hourly(t, k).wh
  BY <1>2
<1> HIDE DEF Cs, Ms, Ws, Ct, Mt, Wt
<1>7. /\ SumTo(Ct, LastHour) = SumTo(Cs, LastHour) + Ct[k] - Cs[k]
      /\ SumTo(Mt, LastHour) = SumTo(Ms, LastHour) + Mt[k] - Ms[k]
      /\ SumTo(Wt, LastHour) = SumTo(Ws, LastHour) + Wt[k] - Ws[k]
  <2> HIDE DEF t, k
  <2>1. QED
    BY <1>2, <1>5, SumChanges
<1>8. /\ CyclesOf(t) = CyclesOf(s) + Ct[k] - Cs[k]
      /\ MinutesOf(t) = MinutesOf(s) + Mt[k] - Ms[k]
      /\ EnergyOf(t) = EnergyOf(s) + Wt[k] - Ws[k]
  BY <1>7 DEF CyclesOf, MinutesOf, EnergyOf, Cs, Ms, Ws, Ct, Mt, Wt
<1>9. CASE s = <<>> \/ HourOf(s[Len(s)].at) # k
  <2>1. Hourly(t, k) = Hourly(s, k)
    BY <1>9, HourlyAppends
  <2>2. Ct[k] = Cs[k] /\ Mt[k] = Ms[k] /\ Wt[k] = Ws[k] /\ Cs[k] \in Int /\ Ms[k] \in Int /\ Ws[k] \in Int
    BY <1>2, <1>5, <1>6, <2>1
  <2>3. CyclesOf(s) \in Nat /\ MinutesOf(s) \in Nat /\ EnergyOf(s) \in Nat
    BY <1>1, SumsType
  <2>4. QED
    BY <1>8, <1>9, <2>2, <2>3
<1>10. CASE s # <<>> /\ HourOf(s[Len(s)].at) = k
  <2>1. Hourly(t, k) = Advance(Hourly(s, k), s[Len(s)], r)
    BY <1>10, HourlyAppends
  <2>2. QED
    BY <1>6, <1>8, <1>10, <2>1
<1>11. QED
  BY <1>9, <1>10

\* A reading adds one stretch at most, to those sets whose condition it meets; the stretches
\* before it stay what they were.
LEMMA StretchesAppend ==
  ASSUME NEW s \in Seq(Reading), s # <<>>, NEW r \in Reading
  PROVE  LET n == Len(s)
             t == Append(s, r)
             New(C) == {i \in {n} : Continuous(s[n], r) /\ C}
         IN  /\ Stretches(s) \in SUBSET (1..(n - 1))
             /\ Stretches(t) = Stretches(s) \cup New(TRUE)
             /\ OnStretches(t) = OnStretches(s) \cup New(On(s[n], r))
             /\ Crossing(t) = Crossing(s) \cup New(HourOf(s[n].at) # HourOf(r.at))
             /\ CutWhileOn(t) = CutWhileOn(s)
                                   \cup New(HourOf(s[n].at) # HourOf(r.at) /\ On(s[n], r))
             /\ Runs(t) = Runs(s) \cup New(On(s[n], r) /\ n - 1 \notin OnStretches(s))
<1> DEFINE n == Len(s)
           t == Append(s, r)
<1>1. /\ n \in Nat \ {0} /\ Len(t) = n + 1 /\ t[n + 1] = r /\ n \in 1..n /\ t[n] = s[n]
      /\ \A i \in 1..(n - 1) : t[i] = s[i] /\ t[i + 1] = s[i + 1]
      /\ (n + 1) - 1 = n /\ 1..n = (1..(n - 1)) \cup {n} /\ n \notin 1..(n - 1)
  OBVIOUS
<1> HIDE DEF t, n
<1>2. Stretches(s) \in SUBSET (1..(n - 1))
  BY DEF Stretches, n
<1>3. /\ \A i \in 1..(n - 1) : i \in Stretches(t) <=> i \in Stretches(s)
      /\ n \in Stretches(t) <=> Continuous(s[n], r)
      /\ \A i \in Stretches(t) : i \in 1..(n - 1) \/ i = n
  BY <1>1 DEF Stretches, n
<1>4. /\ \A i \in 1..(n - 1) : i \in OnStretches(t) <=> i \in OnStretches(s)
      /\ n \in OnStretches(t) <=> Continuous(s[n], r) /\ On(s[n], r)
  BY <1>1, <1>3 DEF OnStretches
<1>5. /\ \A i \in 1..(n - 1) : i \in Crossing(t) <=> i \in Crossing(s)
      /\ n \in Crossing(t) <=> Continuous(s[n], r) /\ HourOf(s[n].at) # HourOf(r.at)
  BY <1>1, <1>3 DEF Crossing
<1>6. /\ OnStretches(t) \in SUBSET Stretches(t) /\ Crossing(t) \in SUBSET Stretches(t)
      /\ OnStretches(s) \in SUBSET Stretches(s) /\ Crossing(s) \in SUBSET Stretches(s)
  BY DEF OnStretches, Crossing
<1>7. /\ \A i \in 1..(n - 1) : i \in Runs(t) <=> i \in Runs(s)
      /\ n \in Runs(t) <=> n \in OnStretches(t) /\ n - 1 \notin OnStretches(s)
      /\ Runs(t) \in SUBSET Stretches(t) /\ Runs(s) \in SUBSET Stretches(s)
  <2>1. Runs(t) \in SUBSET Stretches(t) /\ Runs(s) \in SUBSET Stretches(s)
    BY <1>6 DEF Runs
  <2>2. \A i \in 1..n : i - 1 \in OnStretches(t) <=> i - 1 \in OnStretches(s)
    <3>1. ASSUME NEW i \in 1..n
          PROVE  i - 1 \in OnStretches(t) <=> i - 1 \in OnStretches(s)
      <4>1. CASE i - 1 \in 1..(n - 1)
        BY <1>4, <4>1
      <4>2. CASE i - 1 \notin 1..(n - 1)
        <5>1. i - 1 # n
          BY <1>1
        <5>2. QED
          BY <1>2, <1>3, <1>6, <4>2, <5>1
      <4>3. QED
        BY <4>1, <4>2
    <3>2. QED
      BY <3>1
  <2>3. \A i \in 1..n : i \in Runs(t) <=> i \in OnStretches(t) /\ i - 1 \notin OnStretches(s)
    BY <2>2 DEF Runs
  <2>4. QED
    BY <1>1, <1>4, <2>1, <2>3 DEF Runs
<1> DEFINE New(C) == {i \in {n} : Continuous(s[n], r) /\ C}
<1>8. Stretches(t) = Stretches(s) \cup New(TRUE)
  BY <1>2, <1>3
<1>9. OnStretches(t) = OnStretches(s) \cup New(On(s[n], r))
  BY <1>2, <1>3, <1>4, <1>6
<1>10. Crossing(t) = Crossing(s) \cup New(HourOf(s[n].at) # HourOf(r.at))
  BY <1>2, <1>3, <1>5, <1>6
<1>11. CutWhileOn(t) = CutWhileOn(s) \cup New(HourOf(s[n].at) # HourOf(r.at) /\ On(s[n], r))
  BY <1>1, <1>2, <1>6, <1>9, <1>10 DEF CutWhileOn
<1>12. Runs(t) = Runs(s) \cup New(On(s[n], r) /\ n - 1 \notin OnStretches(s))
  BY <1>2, <1>3, <1>4, <1>7
<1>13. QED
  BY <1>2, <1>8, <1>9, <1>10, <1>11, <1>12 DEF t, n

\* The energy of some stretches, with one more reading.
LEMMA WhAppend ==
  ASSUME NEW s \in Seq(Reading), s # <<>>, NEW r \in Reading, InOrder(Append(s, r)),
         NEW S \in SUBSET (1..(Len(s) - 1)), NEW B \in BOOLEAN
  PROVE  /\ WhOf(S, s) \in Int
         /\ Energy(s[Len(s)], r) \in Nat
         /\ WhOf(S \cup {i \in {Len(s)} : B}, Append(s, r)) =
               WhOf(S, s) + (IF B THEN Energy(s[Len(s)], r) ELSE 0)
<1> DEFINE n == Len(s)
           t == Append(s, r)
           T == S \cup {i \in {n} : B}
           f == [i \in 1..(n - 1) |-> IF i \in S THEN Energy(s[i], s[i + 1]) ELSE 0]
           g == [i \in 1..n |-> IF i \in T THEN Energy(t[i], t[i + 1]) ELSE 0]
<1>1. /\ n \in Nat \ {0} /\ Len(t) = n + 1 /\ t[n + 1] = r /\ n \in 1..n /\ t[n] = s[n]
      /\ \A i \in 1..(n - 1) : t[i] = s[i] /\ t[i + 1] = s[i + 1] /\ i \in 1..n /\ i # n
      /\ (n + 1) - 1 = n /\ n - 1 \in Nat /\ n \notin 1..(n - 1) /\ t \in Seq(Reading)
  OBVIOUS
<1>2. ASSUME NEW i \in 1..n
      PROVE  Energy(t[i], t[i + 1]) \in Nat
  <2> HIDE DEF t, n
  <2>1. i \in 1..Len(t) /\ i + 1 \in 1..Len(t) /\ i < i + 1
    BY <1>1
  <2>2. t[i] \in Reading /\ t[i + 1] \in Reading
    BY <1>1, <2>1
  <2>3. t[i].at < t[i + 1].at
    <3>1. InOrder(t)
      BY DEF t
    <3>2. QED
      BY <2>1, <3>1 DEF InOrder
  <2>4. QED
    BY <2>2, <2>3, EnergyType
<1> HIDE DEF t, n
<1>3. \A i \in 1..n : g[i] \in Int
  BY <1>2
<1>4. \A i \in 1..(n - 1) : f[i] \in Int /\ f[i] = g[i]
  <2>1. ASSUME NEW i \in 1..(n - 1)
        PROVE  f[i] \in Int /\ f[i] = g[i]
    <3>1. i \in S <=> i \in T
      BY <1>1
    <3>2. Energy(s[i], s[i + 1]) = Energy(t[i], t[i + 1]) /\ i \in 1..n
      BY <1>1
    <3>3. Energy(t[i], t[i + 1]) \in Nat
      BY <1>2, <3>2
    <3> HIDE DEF T
    <3>4. QED
      BY <3>1, <3>2, <3>3
  <2>2. QED
    BY <2>1
<1>5. g[n] = IF B THEN Energy(s[n], r) ELSE 0
  <2>1. n \in T <=> B
    BY <1>1 DEF n
  <2> HIDE DEF T
  <2>2. QED
    BY <1>1, <2>1
<1> HIDE DEF f, g, T
<1>6. SumTo(g, (n - 1) + 1) = SumTo(g, n - 1) + g[(n - 1) + 1] /\ SumTo(g, n - 1) \in Int
  <2>1. n - 1 \in 0..(n - 1) /\ n - 1 \in 0..n /\ n \in Nat
    BY <1>1
  <2>2. QED
    BY <1>3, <2>1, SumSteps
<1>7. (n - 1) + 1 = n
  BY <1>1
<1>8. SumTo(f, n - 1) = SumTo(g, n - 1)
  BY <1>1, <1>4, SumsOfEquals
<1>9. WhOf(S, s) = SumTo(f, n - 1)
  BY DEF WhOf, f, n
<1>10. WhOf(T, t) = SumTo(g, n)
  BY <1>1 DEF WhOf, g
<1>11. Energy(s[n], r) \in Nat
  BY <1>1, <1>2
<1>12. QED
  BY <1>5, <1>6, <1>7, <1>8, <1>9, <1>10, <1>11 DEF t, n, T

\* The energy of any stretches is an integer.
LEMMA WhType ==
  ASSUME NEW s \in Seq(Reading), s # <<>>, InOrder(s), NEW S
  PROVE  WhOf(S, s) \in Int
<1> DEFINE n == Len(s)
           f == [i \in 1..(n - 1) |-> IF i \in S THEN Energy(s[i], s[i + 1]) ELSE 0]
<1>1. n - 1 \in Nat /\ n - 1 \in 0..(n - 1)
  OBVIOUS
<1>2. ASSUME NEW i \in 1..(n - 1)
      PROVE  Energy(s[i], s[i + 1]) \in Nat
  <2>1. i \in 1..n /\ i + 1 \in 1..n /\ i < i + 1
    OBVIOUS
  <2>2. s[i] \in Reading /\ s[i + 1] \in Reading
    BY <2>1
  <2>3. s[i].at < s[i + 1].at
    BY <2>1 DEF InOrder
  <2>4. QED
    BY <2>2, <2>3, EnergyType
<1>3. \A i \in 1..(n - 1) : f[i] \in Int
  BY <1>2
<1> HIDE DEF f, n
<1>4. SumTo(f, n - 1) \in Int
  BY <1>1, <1>3, SumSteps
<1>5. QED
  BY <1>4 DEF WhOf, f, n

\* What holds of a list with every reading: the energy and the cycles of SplitByHour, where
\* a stretch cut just now has not added a cycle yet; whether the last hour ends with the
\* device on; and that no more minutes are summed than passed.
Split(s) ==
    /\ EnergyOf(s) = WhOf(Stretches(s), s) - WhOf(Crossing(s), s)
    /\ -Cardinality(CutWhileOn(s)) <= CyclesOf(s) - Cardinality(Runs(s))
    /\ CyclesOf(s) - Cardinality(Runs(s)) <= Cardinality(CutWhileOn(s) \ {Len(s) - 1})
    /\ Hourly(s, HourOf(s[Len(s)].at)).was_active
          <=> Len(s) - 1 \in OnStretches(s) \ Crossing(s)
    /\ HourSlots * MinutesOf(s) <= 60 * s[Len(s)].at

\* Stretches can be counted.
LEMMA FiniteStretches ==
  ASSUME NEW s \in Seq(Reading)
  PROVE  /\ IsFiniteSet(CutWhileOn(s)) /\ Cardinality(CutWhileOn(s)) \in Nat
         /\ IsFiniteSet(Runs(s)) /\ Cardinality(Runs(s)) \in Nat
<1>1. IsFiniteSet(1..(Len(s) - 1))
  <2>1. 1 \in Int /\ Len(s) - 1 \in Int
    OBVIOUS
  <2>2. QED
    BY <2>1, FS_Interval
<1>2. CutWhileOn(s) \in SUBSET (1..(Len(s) - 1)) /\ Runs(s) \in SUBSET (1..(Len(s) - 1))
  BY DEF CutWhileOn, Runs, OnStretches, Crossing, Stretches
<1>3. IsFiniteSet(CutWhileOn(s)) /\ IsFiniteSet(Runs(s))
  BY <1>1, <1>2, FS_Subset
<1>4. QED
  BY <1>3, FS_CardinalityType

\* One reading makes no stretch.
LEMMA SplitOfOne ==
  ASSUME NEW r \in Reading
  PROVE  Split(Append(<<>>, r))
<1> DEFINE e == <<>>
           t == Append(e, r)
<1>1. e \in Seq(Reading) /\ t \in Seq(Reading) /\ Len(t) = 1 /\ t[Len(t)] = r
  OBVIOUS
<1>2. InOrder(t) /\ InOrder(e)
  BY <1>1 DEF InOrder
<1>3. CyclesOf(t) = CyclesOf(e) /\ MinutesOf(t) = MinutesOf(e) /\ EnergyOf(t) = EnergyOf(e)
  BY <1>1, <1>2, SumsAppend
<1>4. CyclesOf(e) = 0 /\ MinutesOf(e) = 0 /\ EnergyOf(e) = 0
  BY <1>1, <1>2, SumsType
<1>5. Hourly(t, HourOf(r.at)) = Unused
  BY <1>1, <1>2, HourlyAppends
<1>6. Stretches(t) = {}
  BY <1>1 DEF Stretches
<1>7. OnStretches(t) = {} /\ Crossing(t) = {} /\ CutWhileOn(t) = {} /\ Runs(t) = {}
  BY <1>6 DEF OnStretches, Crossing, CutWhileOn, Runs
<1>8. Cardinality({}) = 0
  BY FS_EmptySet
<1>9. WhOf({}, t) = 0
  <2> DEFINE f == [i \in 1..0 |-> IF i \in {} THEN Energy(t[i], t[i + 1]) ELSE 0]
  <2>1. WhOf({}, t) = SumTo(f, 0)
    <3>1. Len(t) - 1 = 0
      BY <1>1
    <3>2. QED
      BY <3>1 DEF WhOf
  <2>2. SumTo(f, 0) = 0
    <3> HIDE DEF f
    <3>1. \A i \in 1..0 : f[i] = 0
      OBVIOUS
    <3>2. QED
      BY <3>1, SumOfZeros
  <2>3. QED
    BY <2>1, <2>2
<1>10. r.at \in Nat /\ HourSlots \in Nat
  BY Slot, DayAssumption
<1> HIDE DEF t, e
<1>11. ~Unused.was_active
  BY DEF Unused
<1>12. CutWhileOn(t) \ {Len(t) - 1} = {}
  BY <1>7
<1>13. EnergyOf(t) = WhOf(Stretches(t), t) - WhOf(Crossing(t), t)
  BY <1>3, <1>4, <1>6, <1>7, <1>9
<1>14. /\ -Cardinality(CutWhileOn(t)) <= CyclesOf(t) - Cardinality(Runs(t))
       /\ CyclesOf(t) - Cardinality(Runs(t)) <= Cardinality(CutWhileOn(t) \ {Len(t) - 1})
  BY <1>3, <1>4, <1>7, <1>8, <1>12
<1>15. HourSlots * MinutesOf(t) <= 60 * t[Len(t)].at
  BY <1>1, <1>3, <1>4, <1>10
<1>16. QED
  BY <1>1, <1>5, <1>7, <1>11, <1>13, <1>14, <1>15 DEF Split, t, e

\* The count of one more stretch: c cycles and r runs before it, d and q after it, k stretches
\* cut before and l after it, of which j are not the last; on, in the same hour, after one
\* that was on, and that crossed an hour.
LEMMA CyclesCount ==
  ASSUME NEW c \in Nat, NEW r \in Nat, NEW k \in Nat, NEW j \in Nat, NEW d, NEW q, NEW l,
         NEW on \in BOOLEAN, NEW same \in BOOLEAN, NEW was \in BOOLEAN,
         NEW crossed \in BOOLEAN, NEW active \in BOOLEAN,
         -k <= c - r, c - r <= j, j = IF was /\ crossed THEN k - 1 ELSE k,
         same => (active <=> was /\ ~crossed),
         d = c + (IF same /\ on /\ ~active THEN 1 ELSE 0),
         q = r + (IF on /\ ~was THEN 1 ELSE 0),
         l = k + (IF on /\ ~same THEN 1 ELSE 0)
  PROVE  -l <= d - q /\ d - q <= k
<1>1. CASE ~on
  BY <1>1
<1>2. CASE on /\ ~same
  BY <1>2
<1>3. CASE on /\ same
  BY <1>3
<1>4. QED
  BY <1>1, <1>2, <1>3

\* The induction's step.  The new stretch is cut or not, and on or not; if on, the last one
\* was on or not, and cut or not, which says whether the loop and the runs add one.
LEMMA SplitAppends ==
  ASSUME NEW s \in Seq(Reading), s # <<>>, NEW r \in Reading, InOrder(Append(s, r)), Split(s)
  PROVE  Split(Append(s, r))
<1> DEFINE n == Len(s)
           t == Append(s, r)
           p == s[n]
           k == HourOf(r.at)
           same == HourOf(p.at) = k
           near == Continuous(p, r)
           on == near /\ On(p, r)
           u == Hourly(s, k)
           v == Advance(u, p, r)
           e == Energy(p, r)
           m == (60 * (r.at - p.at)) \div HourSlots
           cut == CutWhileOn(s)
           runs == Runs(s)
<1>1. /\ n \in Nat \ {0} /\ Len(t) = n + 1 /\ t[n + 1] = r /\ p \in Reading
      /\ t[n] = p /\ (n + 1) - 1 = n /\ t \in Seq(Reading)
      /\ \A i \in 1..n : t[i] = s[i]
  OBVIOUS
<1>2. InOrder(s) /\ p.at < r.at
  <2> HIDE DEF t, n
  <2>1. /\ \A i \in 1..n : i \in 1..Len(t) /\ t[i] = s[i]
        /\ n \in 1..Len(t) /\ n + 1 \in 1..Len(t) /\ n < n + 1
    BY <1>1
  <2>2. InOrder(t)
    BY DEF t
  <2>3. t[n].at < t[n + 1].at
    BY <2>1, <2>2 DEF InOrder
  <2>4. InOrder(s)
    BY <2>1, <2>2 DEF InOrder, n
  <2>5. QED
    BY <1>1, <2>3, <2>4
<1>3. p.at \in Nat /\ r.at \in Nat /\ HourSlots \in Nat \ {0}
  BY <1>1, Slot, DayAssumption
<1>4. same => near
  <2>1. same => r.at - p.at < HourSlots
    BY <1>2, <1>3, HoursInOrder
  <2>2. QED
    BY <1>3, <2>1 DEF Continuous
<1>5. /\ e \in Nat /\ m \in Nat /\ HourSlots * m <= 60 * (r.at - p.at)
  BY <1>1, <1>2, EnergyType
<1>6. u \in Usage
  BY <1>2, HourlyType
<1>7. /\ CyclesOf(s) \in Nat /\ MinutesOf(s) \in Nat /\ EnergyOf(s) \in Nat
  BY <1>2, SumsType
<1>8. /\ Stretches(s) \in SUBSET (1..(n - 1))
      /\ Stretches(t) = Stretches(s) \cup {i \in {n} : near /\ TRUE}
      /\ OnStretches(t) = OnStretches(s) \cup {i \in {n} : near /\ On(p, r)}
      /\ Crossing(t) = Crossing(s) \cup {i \in {n} : near /\ HourOf(p.at) # k}
      /\ CutWhileOn(t) = cut \cup {i \in {n} : near /\ (HourOf(p.at) # k /\ On(p, r))}
      /\ Runs(t) = runs \cup {i \in {n} : near /\ (On(p, r) /\ n - 1 \notin OnStretches(s))}
  BY StretchesAppend
<1>9. /\ OnStretches(s) \in SUBSET (1..(n - 1)) /\ Crossing(s) \in SUBSET (1..(n - 1))
      /\ cut = OnStretches(s) \cap Crossing(s) /\ runs \in SUBSET (1..(n - 1))
      /\ n \notin 1..(n - 1) /\ n - 1 # n
  <2>1. OnStretches(s) \in SUBSET Stretches(s) /\ Crossing(s) \in SUBSET Stretches(s)
    BY DEF OnStretches, Crossing
  <2>2. n \notin 1..(n - 1) /\ n - 1 # n
    <3> HIDE DEF n
    <3>1. QED
      BY <1>1
  <2>3. runs \in SUBSET OnStretches(s)
    BY DEF Runs
  <2>4. cut = OnStretches(s) \cap Crossing(s)
    BY DEF CutWhileOn
  <2>5. QED
    BY <1>8, <2>1, <2>2, <2>3, <2>4
<1>10. /\ same => /\ CyclesOf(t) = CyclesOf(s) + v.cycles - u.cycles
                  /\ MinutesOf(t) = MinutesOf(s) + v.minutes - u.minutes
                  /\ EnergyOf(t) = EnergyOf(s) + v.wh - u.wh
                  /\ Hourly(t, k) = v
       /\ ~same => /\ CyclesOf(t) = CyclesOf(s)
                   /\ MinutesOf(t) = MinutesOf(s)
                   /\ EnergyOf(t) = EnergyOf(s)
                   /\ Hourly(t, k) = Unused
  BY SumsAppend, HourlyAppends
<1>11. same => /\ v.was_active = On(p, r)
               /\ v.cycles = u.cycles + (IF on /\ ~u.was_active THEN 1 ELSE 0)
               /\ v.minutes = u.minutes + (IF on THEN m ELSE 0)
               /\ v.wh = u.wh + e
  BY <1>4 DEF Advance
<1>12. same => (u.was_active <=> n - 1 \in OnStretches(s) \ Crossing(s))
  BY DEF Split
<1>13. IsFiniteSet(cut) /\ Cardinality(cut) \in Nat /\ IsFiniteSet(runs) /\ Cardinality(runs) \in Nat
  BY FiniteStretches
<1>14. EnergyOf(t) = WhOf(Stretches(t), t) - WhOf(Crossing(t), t)
  <2>1. /\ WhOf(Stretches(s), s) \in Int /\ WhOf(Crossing(s), s) \in Int
        /\ WhOf(Stretches(t), t) = WhOf(Stretches(s), s) + (IF near THEN e ELSE 0)
        /\ WhOf(Crossing(t), t) = WhOf(Crossing(s), s) + (IF near /\ ~same THEN e ELSE 0)
    <3>1. near \in BOOLEAN /\ (near /\ ~same) \in BOOLEAN
      BY DEF Continuous
    <3>2. /\ Stretches(t) = Stretches(s) \cup {i \in {n} : near}
          /\ Crossing(t) = Crossing(s) \cup {i \in {n} : near /\ ~same}
      BY <1>8
    <3> HIDE DEF near, same
    <3>3. /\ WhOf(Stretches(s), s) \in Int
          /\ WhOf(Stretches(s) \cup {i \in {n} : near}, t)
                = WhOf(Stretches(s), s) + (IF near THEN e ELSE 0)
      BY <1>8, <3>1, WhAppend
    <3> DEFINE B == near /\ ~same
    <3> HIDE DEF B
    <3>4. B \in BOOLEAN
      BY <3>1 DEF B
    <3>5. /\ WhOf(Crossing(s), s) \in Int
          /\ WhOf(Crossing(s) \cup {i \in {n} : B}, t)
                = WhOf(Crossing(s), s) + (IF B THEN e ELSE 0)
      BY <1>9, <3>4, WhAppend
    <3>6. QED
      BY <3>2, <3>3, <3>5 DEF B
  <2>2. EnergyOf(t) = EnergyOf(s) + (IF same THEN e ELSE 0)
    <3> HIDE DEF same, v, u, e
    <3>1. u.wh \in Nat
      BY <1>6 DEF Usage
    <3>2. QED
      BY <1>5, <1>7, <1>10, <1>11, <3>1
  <2>3. EnergyOf(s) = WhOf(Stretches(s), s) - WhOf(Crossing(s), s)
    BY DEF Split
  <2> HIDE DEF same, near, e
  <2>4. QED
    BY <1>4, <1>5, <1>7, <2>1, <2>2, <2>3
<1>15. HourSlots * MinutesOf(t) <= 60 * r.at
  <2>1. HourSlots * MinutesOf(s) <= 60 * p.at
    BY DEF Split
  <2>2. MinutesOf(t) = MinutesOf(s) + m \/ MinutesOf(t) = MinutesOf(s)
    <3> HIDE DEF same, v, u, m, on
    <3>1. u.minutes \in Nat
      BY <1>6 DEF Usage
    <3>2. QED
      BY <1>5, <1>7, <1>10, <1>11, <3>1
  <2> HIDE DEF m
  <2>3. HourSlots * (MinutesOf(s) + m) = HourSlots * MinutesOf(s) + HourSlots * m
    BY <1>3, <1>5, <1>7
  <2>4. HourSlots * MinutesOf(s) \in Int /\ HourSlots * m \in Int
    BY <1>3, <1>5, <1>7
  <2>5. QED
    BY <1>2, <1>3, <1>5, <2>1, <2>2, <2>3, <2>4
<1>16. Hourly(t, k).was_active <=> n \in OnStretches(t) \ Crossing(t)
  <2>1. n \in OnStretches(t) <=> near /\ On(p, r)
    BY <1>8, <1>9
  <2>2. n \in Crossing(t) <=> near /\ ~same
    BY <1>8, <1>9
  <2>3. CASE same
    BY <1>4, <1>10, <1>11, <2>1, <2>2, <2>3
  <2>4. CASE ~same
    BY <1>10, <2>1, <2>2, <2>4 DEF Unused
  <2>5. QED
    BY <2>3, <2>4
<1> DEFINE D == CyclesOf(s) - Cardinality(runs)
           first == on /\ n - 1 \notin OnStretches(s)
<1>17. /\ -Cardinality(cut) <= D /\ D <= Cardinality(cut \ {n - 1})
  BY DEF Split
<1>18. /\ Cardinality(cut \ {n - 1}) \in Nat
       /\ Cardinality(cut \ {n - 1}) = IF n - 1 \in cut THEN Cardinality(cut) - 1 ELSE Cardinality(cut)
  <2>1. /\ IsFiniteSet(cut \ {n - 1})
        /\ Cardinality(cut \ {n - 1}) = IF n - 1 \in cut THEN Cardinality(cut) - 1
                                                          ELSE Cardinality(cut)
    BY <1>13, FS_RemoveElement
  <2>2. QED
    BY <2>1, FS_CardinalityType
<1>19. /\ Cardinality(Runs(t)) = Cardinality(runs) + (IF first THEN 1 ELSE 0)
  <2>1. CASE first
    <3>1. Runs(t) = runs \cup {n} /\ n \notin runs
      BY <1>8, <1>9, <2>1
    <3>2. QED
      BY <1>13, <2>1, <3>1, FS_AddElement
  <2>2. CASE ~first
    <3>1. Runs(t) = runs
      BY <1>8, <2>2
    <3>2. QED
      BY <1>13, <2>2, <3>1
  <2>3. QED
    BY <2>1, <2>2
<1>20. Cardinality(CutWhileOn(t)) = Cardinality(cut) + (IF on /\ ~same THEN 1 ELSE 0)
  <2>1. CASE on /\ ~same
    <3>1. CutWhileOn(t) = cut \cup {n} /\ n \notin cut
      BY <1>8, <1>9, <2>1
    <3>2. QED
      BY <1>13, <2>1, <3>1, FS_AddElement
  <2>2. CASE ~(on /\ ~same)
    <3>1. CutWhileOn(t) = cut
      BY <1>8, <2>2
    <3>2. QED
      BY <1>13, <2>2, <3>1
  <2>3. QED
    BY <2>1, <2>2
<1>21. CutWhileOn(t) \ {n} = cut
  BY <1>8, <1>9
<1>22. CyclesOf(t) = CyclesOf(s) + (IF same /\ on /\ ~u.was_active THEN 1 ELSE 0)
  <2> HIDE DEF same, v, u, on
  <2>1. u.cycles \in Nat
    BY <1>6 DEF Usage
  <2>2. QED
    BY <1>7, <1>10, <1>11, <2>1
<1>23. n - 1 \in cut <=> n - 1 \in OnStretches(s) /\ n - 1 \in Crossing(s)
  BY <1>9
<1>24. /\ -Cardinality(CutWhileOn(t)) <= CyclesOf(t) - Cardinality(Runs(t))
       /\ CyclesOf(t) - Cardinality(Runs(t)) <= Cardinality(CutWhileOn(t) \ {n})
  <2> DEFINE was == n - 1 \in OnStretches(s)
             crossed == n - 1 \in Crossing(s)
             active == u.was_active
  <2>1. /\ on \in BOOLEAN /\ same \in BOOLEAN /\ was \in BOOLEAN /\ crossed \in BOOLEAN
        /\ active \in BOOLEAN
    BY <1>6 DEF Usage, Continuous, On
  <2>2. same => (active <=> was /\ ~crossed)
    BY <1>12
  <2>3. Cardinality(cut \ {n - 1}) = IF was /\ crossed THEN Cardinality(cut) - 1 ELSE Cardinality(cut)
    BY <1>18, <1>23
  <2>4. Cardinality(Runs(t)) = Cardinality(runs) + (IF on /\ ~was THEN 1 ELSE 0)
    BY <1>19
  <2>5. CyclesOf(t) = CyclesOf(s) + (IF same /\ on /\ ~active THEN 1 ELSE 0)
    BY <1>22
  <2>6. Cardinality(CutWhileOn(t) \ {n}) = Cardinality(cut)
    BY <1>21
  <2> HIDE DEF same, on, u, was, crossed, active, cut, runs
  <2>7. QED
    BY <1>7, <1>13, <1>17, <1>18, <1>20, <2>1, <2>2, <2>3, <2>4, <2>5, <2>6, CyclesCount
<1>25. QED
  <2>1. Len(t) - 1 = n /\ t[Len(t)] = r
    BY <1>1
  <2> HIDE DEF t, n
  <2>2. QED
    BY <1>14, <1>15, <1>16, <1>24, <2>1 DEF Split, t

\* Every list of readings in order splits so, by induction over its length.
LEMMA SplitHolds ==
  ASSUME NEW s \in Seq(Reading), s # <<>>, InOrder(s)
  PROVE  Split(s)
<1> DEFINE N == {m \in Nat : \A q \in Seq(Reading) : Len(q) = m + 1 /\ InOrder(q) => Split(q)}
<1>1. ASSUME NEW q \in Seq(Reading), NEW m \in Nat, Len(q) = m + 1, InOrder(q)
      PROVE  \E w \in Seq(Reading), r \in Reading :
                q = Append(w, r) /\ Len(w) = m /\ InOrder(w)
  <2>1. PICK w \in Seq(Reading), r \in Reading : q = Append(w, r)
    <3>1. q # <<>>
      BY <1>1
    <3>2. QED
      BY <3>1, SequenceEmptyOrAppend
  <2>2. /\ Len(w) \in Nat /\ Len(q) = Len(w) + 1
        /\ \A i \in 1..Len(w) : q[i] = w[i] /\ i \in 1..Len(q)
    BY <2>1
  <2>3. Len(w) = m
    BY <1>1, <2>2
  <2>4. InOrder(w)
    BY <1>1, <2>2 DEF InOrder
  <2>5. QED
    BY <2>1, <2>3, <2>4
<1>2. 0 \in N
  <2>1. SUFFICES ASSUME NEW q \in Seq(Reading), Len(q) = 0 + 1, InOrder(q)
                 PROVE  Split(q)
    OBVIOUS
  <2>2. PICK w \in Seq(Reading), r \in Reading : q = Append(w, r) /\ Len(w) = 0
    BY <1>1, <2>1
  <2>3. w = <<>>
    BY <2>2
  <2>4. QED
    BY <2>2, <2>3, SplitOfOne
<1>3. ASSUME NEW m \in Nat, m \in N
      PROVE  m + 1 \in N
  <2>1. SUFFICES ASSUME NEW q \in Seq(Reading), Len(q) = (m + 1) + 1, InOrder(q)
                 PROVE  Split(q)
    OBVIOUS
  <2>2. PICK w \in Seq(Reading), r \in Reading :
          q = Append(w, r) /\ Len(w) = m + 1 /\ InOrder(w)
    <3>1. m + 1 \in Nat
      OBVIOUS
    <3>2. QED
      BY <1>1, <2>1, <3>1
  <2>3. Split(w) /\ w # <<>>
    BY <1>3, <2>2
  <2>4. QED
    BY <2>1, <2>2, <2>3, SplitAppends
<1>4. \A m \in Nat : m \in N
  <2> HIDE DEF N
  <2>1. QED
    BY <1>2, <1>3, SetInduction
<1>5. Len(s) - 1 \in Nat /\ Len(s) = (Len(s) - 1) + 1
  OBVIOUS
<1>6. QED
  <2>1. Len(s) - 1 \in N
    <3> HIDE DEF N
    <3>1. QED
      BY <1>4, <1>5
  <2>2. QED
    BY <1>5, <2>1

\* What the invariant of the day needs of any list, without the part about its last stretch.
LEMMA DayHolds ==
  ASSUME NEW s \in Seq(Reading), s # <<>>, InOrder(s)
  PROVE  /\ EnergyOf(s) = WhOf(Stretches(s), s) - WhOf(Crossing(s), s)
         /\ CyclesOf(s) - Cardinality(Runs(s))
               \in (-Cardinality(CutWhileOn(s)))..Cardinality(CutWhileOn(s))
         /\ HourSlots * MinutesOf(s) <= 60 * s[Len(s)].at
<1>1. Split(s)
  BY SplitHolds
<1>2. CyclesOf(s) \in Nat
  BY SumsType
<1>3. /\ IsFiniteSet(CutWhileOn(s)) /\ Cardinality(CutWhileOn(s)) \in Nat
      /\ Cardinality(Runs(s)) \in Nat
  BY FiniteStretches
<1>4. /\ Cardinality(CutWhileOn(s) \ {Len(s) - 1}) <= Cardinality(CutWhileOn(s))
      /\ Cardinality(CutWhileOn(s) \ {Len(s) - 1}) \in Nat
  <2>1. CutWhileOn(s) \ {Len(s) - 1} \in SUBSET CutWhileOn(s)
    OBVIOUS
  <2>2. QED
    BY <1>3, <2>1, FS_Subset, FS_CardinalityType
<1>5. CyclesOf(s) - Cardinality(Runs(s)) \in Int
  BY <1>2, <1>3
<1>6. QED
  BY <1>1, <1>3, <1>4, <1>5 DEF Split

-----------------------------------------------------------------------------
(* The day's row *)

\* The readings come in order, none after the clock, and the day's row is none or what the
\* readings there were when it was written add up to.
DayInv ==
    /\ key \in Key /\ earlier \in Earlier
    /\ clock \in 0..Slots
    /\ readings \in Seq(Reading) /\ InOrder(readings)
    /\ \A i \in 1..Len(readings) : readings[i].at <= clock
    /\ summed \in 0..Len(readings)
    /\ daily \in {NoRow, Summed(SubSeq(readings, 1, summed))}
    /\ summed > 0 => daily = Summed(SubSeq(readings, 1, summed))

\* A reading keeps what was summed.
LEMMA PassKeeps ==
  ASSUME DayInv, NEW power \in Watts \cup {Missing}, Pass(power)
  PROVE  DayInv'
<1>1. /\ clock' = clock + 1 /\ clock' \in 0..Slots /\ clock \in Nat
      /\ key' = key /\ earlier' = earlier /\ daily' = daily /\ summed' = summed
  BY DayAssumption DEF DayInv, Pass
<1>2. CASE power = Missing
  <2>1. readings' = readings
    BY <1>2 DEF Pass
  <2>2. \A i \in 1..Len(readings) : readings[i].at <= clock'
    <3>1. ASSUME NEW i \in 1..Len(readings)
          PROVE  readings[i].at <= clock'
      <4>1. readings[i] \in Reading /\ readings[i].at <= clock
        BY DEF DayInv
      <4>2. QED
        BY <1>1, <4>1, Slot
    <3>2. QED
      BY <3>1
  <2>3. Summed(SubSeq(readings, 1, summed))' = Summed(SubSeq(readings, 1, summed))
    BY <1>1, <2>1 DEF Summed
  <2>4. QED
    BY <1>1, <2>1, <2>2, <2>3 DEF DayInv
<1>3. CASE power # Missing
  <2> DEFINE s == readings
             r == [at |-> clock + 1, watts |-> power]
             t == Append(s, r)
  <2>1. s \in Seq(Reading) /\ readings' = t
    BY <1>3 DEF Pass, DayInv
  <2>2. r \in Reading
    <3>1. clock + 1 \in 1..Slots /\ power \in Watts
      BY <1>1, <1>3
    <3>2. QED
      BY <3>1 DEF Reading
  <2>3. /\ Len(s) \in Nat /\ Len(t) = Len(s) + 1 /\ t[Len(s) + 1] = r /\ t \in Seq(Reading)
        /\ \A i \in 1..Len(s) : t[i] = s[i]
    BY <2>1, <2>2
  <2>4. \A i \in 1..Len(s) : t[i].at <= clock /\ t[i].at \in Nat
    <3>1. ASSUME NEW i \in 1..Len(s)
          PROVE  t[i].at <= clock /\ t[i].at \in Nat
      <4>1. s[i] \in Reading /\ s[i].at <= clock /\ t[i] = s[i]
        BY <2>1, <2>3 DEF DayInv
      <4>2. QED
        BY <4>1, Slot
    <3>2. QED
      BY <3>1
  <2>5. t[Len(s) + 1].at = clock'
    BY <1>1, <2>3
  <2> HIDE DEF r, t
  <2>6. InOrder(t) /\ \A i \in 1..Len(t) : t[i].at <= clock'
    <3>1. ASSUME NEW i \in 1..Len(t)
          PROVE  t[i].at <= clock'
      <4>1. i \in 1..Len(s) \/ i = Len(s) + 1
        BY <2>3
      <4>2. QED
        BY <1>1, <2>4, <2>5, <4>1
    <3>2. ASSUME NEW i \in 1..Len(t), NEW j \in 1..Len(t), i < j
          PROVE  t[i].at < t[j].at
      <4>1. i \in 1..Len(s)
        BY <2>3, <3>2
      <4>2. CASE j \in 1..Len(s)
        <5>1. s[i].at < s[j].at
          BY <3>2, <4>1, <4>2 DEF DayInv, InOrder
        <5>2. QED
          BY <2>3, <4>1, <4>2, <5>1
      <4>3. CASE j \notin 1..Len(s)
        <5>1. j = Len(s) + 1
          BY <2>3, <4>3
        <5>2. QED
          BY <1>1, <2>4, <2>5, <4>1, <5>1
      <4>4. QED
        BY <4>2, <4>3
    <3>3. QED
      BY <3>1, <3>2 DEF InOrder
  <2>7. SubSeq(t, 1, summed) = SubSeq(s, 1, summed)
    <3>1. summed \in 0..Len(s)
      BY DEF DayInv
    <3>2. CASE summed = 0
      <4>1. SubSeq(t, 1, 0) = <<>> /\ SubSeq(s, 1, 0) = <<>>
        BY <2>1, <2>3
      <4>2. QED
        BY <3>2, <4>1
    <3>3. CASE summed # 0
      <4>1. 1 \in 1..(Len(s) + 1) /\ summed \in 1..Len(s)
        BY <2>3, <3>1, <3>3
      <4>2. QED
        BY <2>1, <2>2, <4>1, PartsOfAppend DEF t
    <3>4. QED
      BY <3>2, <3>3
  <2>8. Summed(SubSeq(readings, 1, summed))' = Summed(SubSeq(readings, 1, summed))
    BY <1>1, <2>1, <2>7 DEF Summed
  <2>9. summed \in 0..Len(t)
    BY <2>3 DEF DayInv
  <2>10. QED
    BY <1>1, <2>1, <2>3, <2>6, <2>8, <2>9 DEF DayInv
<1>4. QED
  BY <1>2, <1>3

\* The day's row is always what the readings it was written from add up to.
LEMMA DayInvariance == Spec => []DayInv
<1>1. Init => DayInv
  <2>1. SUFFICES ASSUME Init
                 PROVE  DayInv
    OBVIOUS
  <2>2. readings = <<>> /\ readings \in Seq(Reading) /\ Len(readings) = 0
    BY <2>1 DEF Init
  <2>3. InOrder(readings) /\ \A i \in 1..Len(readings) : readings[i].at <= clock
    BY <2>2 DEF InOrder
  <2>4. key \in Key /\ earlier \in Earlier /\ clock \in 0..Slots /\ daily = NoRow /\ summed = 0
    BY <2>1, DayAssumption DEF Init
  <2>5. QED
    BY <2>2, <2>3, <2>4 DEF DayInv
<1>2. DayInv /\ [Next]_vars => DayInv'
  <2> SUFFICES ASSUME DayInv, [Next]_vars
               PROVE  DayInv'
    OBVIOUS
  <2>1. ASSUME NEW power \in Watts \cup {Missing}, Pass(power)
        PROVE  DayInv'
    BY <2>1, PassKeeps
  <2>2. CASE Backfill
    <3>1. /\ readings' = readings /\ earlier' = earlier /\ summed' = Len(readings)
          /\ daily' = Summed(readings) /\ key' = key /\ clock' = clock
      BY <2>2 DEF Backfill
    <3>2. SubSeq(readings, 1, Len(readings)) = readings /\ Len(readings) \in 0..Len(readings)
      BY DEF DayInv
    <3>3. Summed(SubSeq(readings, 1, summed))' = Summed(readings)
      BY <3>1, <3>2 DEF Summed
    <3>4. QED
      BY <3>1, <3>2, <3>3 DEF DayInv
  <2>3. ASSUME UNCHANGED <<key, earlier, clock, readings, daily, summed>>
        PROVE  DayInv'
    BY <2>3 DEF DayInv, Summed
  <2>4. ASSUME NEW alerts, Notify(alerts)
        PROVE  DayInv'
    BY <2>3, <2>4 DEF Notify
  <2>5. CASE UNCHANGED vars
    BY <2>3, <2>5 DEF vars
  <2>6. QED
    BY <2>1, <2>2, <2>4, <2>5 DEF Next, check_device_scenario_notifications,
       trigger_smart_notifications, trigger_smart_notifications_all
<1>3. QED
  BY <1>1, <1>2, PTL DEF Spec

\* The readings the row was written from are a list like any other.
LEMMA SummedPart ==
  ASSUME DayInv
  PROVE  LET s == SubSeq(readings, 1, summed)
         IN  /\ s \in Seq(Reading) /\ InOrder(s) /\ Len(s) = summed
             /\ summed > 0 => s # <<>> /\ s[Len(s)].at <= clock
<1> DEFINE s == SubSeq(readings, 1, summed)
<1>1. readings \in Seq(Reading) /\ InOrder(readings) /\ summed \in 0..Len(readings)
  BY DEF DayInv
<1>2. CASE summed = 0
  <2>1. s = <<>>
    BY <1>1, <1>2
  <2>2. QED
    BY <1>2, <2>1 DEF InOrder
<1>3. CASE summed # 0
  <2>1. /\ 1 \in 1..Len(readings) /\ summed \in 1..Len(readings) /\ summed - 1 + 1 = summed
        /\ summed > 0
    BY <1>1, <1>3
  <2>2. /\ s \in Seq(Reading) /\ InOrder(s) /\ s # <<>>
        /\ Len(s) = summed - 1 + 1 /\ s[summed - 1 + 1] = readings[summed]
    BY <1>1, <2>1, Parts
  <2>3. readings[summed].at <= clock
    BY <2>1 DEF DayInv
  <2>4. QED
    BY <2>1, <2>2, <2>3
<1>4. QED
  BY <1>2, <1>3

-----------------------------------------------------------------------------
(* Alerts of a day *)

PushedPriority == {"critical", "warning"}

\* One use of a day is no less than another.
NoLess(u, v) == u.cycles <= v.cycles /\ u.minutes <= v.minutes /\ u.wh <= v.wh

\* What a scenario is asked about a use.
Fed(use, fT, fH, peak) ==
    [N |-> use.cycles, wh |-> use.wh, minutes |-> use.minutes, fT |-> fT, fH |-> fH,
     standbyTime |-> 0, standbyPower |-> 0, lateNightHours |-> 0,
     keepWarmTime |-> 0, shortUseCount |-> 0, isPeakTime |-> peak]

TemperatureFactors == {95, 100, 105, 108, 110, 115}
HumidityFactors == {100, 105, 110, 120}

\* What was notified held by then.
Held(n) ==
    \E fT \in TemperatureFactors, fH \in HumidityFactors, peak \in BOOLEAN :
        \E s \in APPLIANCE_SCENARIOS(Canonical(key), Fed(n.told, fT, fH, peak)) :
            s[1] \in PushedPriority /\ s[2] = n.scenario /\ s[3]

\* The day's row lags behind its readings, and what was notified behind the row.
IInv ==
    /\ daily \in Use /\ NoLess(daily, Summed(readings))
    /\ DOMAIN notified \subseteq NotificationType
    /\ \A type \in DOMAIN notified :
        LET n == notified[type]
        IN  n.told \in Use /\ NoLess(n.told, daily) /\ Held(n)

Appliance == {"dryer", "kettle", "microwave", "washingmachine", "dishwasher", "coffeemachine",
              "airfryer", "toaster", "cooker", "xbox", "water_purifier"}

\* Each appliance has the scenarios of its name, and any other device none.
LEMMA Catalogue ==
  ASSUME NEW k, NEW d
  PROVE  /\ k = "dryer" => APPLIANCE_SCENARIOS(k, d) = Dryer(d)
         /\ k = "kettle" => APPLIANCE_SCENARIOS(k, d) = Kettle(d)
         /\ k = "microwave" => APPLIANCE_SCENARIOS(k, d) = Microwave(d)
         /\ k = "washingmachine" => APPLIANCE_SCENARIOS(k, d) = WashingMachine(d)
         /\ k = "dishwasher" => APPLIANCE_SCENARIOS(k, d) = Dishwasher(d)
         /\ k = "coffeemachine" => APPLIANCE_SCENARIOS(k, d) = CoffeeMachine(d)
         /\ k = "airfryer" => APPLIANCE_SCENARIOS(k, d) = AirFryer(d)
         /\ k = "toaster" => APPLIANCE_SCENARIOS(k, d) = Toaster(d)
         /\ k = "cooker" => APPLIANCE_SCENARIOS(k, d) = Cooker(d)
         /\ k = "xbox" => APPLIANCE_SCENARIOS(k, d) = Xbox(d)
         /\ k = "water_purifier" => APPLIANCE_SCENARIOS(k, d) = WaterPurifier(d)
         /\ k \notin Appliance => APPLIANCE_SCENARIOS(k, d) = {}
  BY DEF APPLIANCE_SCENARIOS, Appliance

\* The fields of a scenario.
LEMMA Fields ==
  ASSUME NEW p, NEW name, NEW C, NEW s, s = <<p, name, C>>
  PROVE  s[1] = p /\ s[2] = name /\ (s[3] => C) /\ (C => s[3])
<1>1. s[1] = p /\ s[2] = name
  OBVIOUS
<1>2. s[3] => C
  BY Zenon
<1>3. C => s[3]
  BY Zenon
<1>4. QED
  BY <1>1, <1>2, <1>3, Zenon

LEMMA Priorities ==
  /\ "critical" \in PushedPriority /\ "warning" \in PushedPriority
  /\ "notice" \notin PushedPriority /\ "caution" \notin PushedPriority
BY DEF PushedPriority

\* A scenario of the other priorities is none that is pushed.
LEMMA NotPushed ==
  ASSUME NEW s, s[1] \in PushedPriority, NEW p, p \notin PushedPriority, NEW name, NEW C
  PROVE  s # <<p, name, C>>
<1> SUFFICES ASSUME s = <<p, name, C>>
             PROVE  FALSE
  OBVIOUS
<1>1. s[1] = p
  OBVIOUS
<1>2. QED
  BY <1>1, Zenon

\* A scenario that holds and is pushed.
LEMMA Warns ==
  ASSUME NEW S, NEW p \in PushedPriority, NEW name, NEW C, <<p, name, C>> \in S, C
  PROVE  \E r \in S : r[1] \in PushedPriority /\ r[3]
BY Fields, Zenon

\* What held of an appliance holds with more use, or is replaced by something graver, unless
\* there were more cycles to spread the energy over or the room is another.
LEMMA AlertsLast ==
  ASSUME NEW k, NEW u \in Use, NEW v \in Use, NoLess(u, v),
         NEW fT, NEW fH, NEW fT2 \in Int, NEW fH2, NEW peak, NEW peak2,
         NEW s \in APPLIANCE_SCENARIOS(k, Fed(u, fT, fH, peak)), s[1] \in PushedPriority, s[3],
         s[2] \in EnergyOfCycle => v.cycles <= u.cycles,
         s[2] = "High_temperature_effect" => fT2 > 108
  PROVE  \E r \in APPLIANCE_SCENARIOS(k, Fed(v, fT2, fH2, peak2)) : r[1] \in PushedPriority /\ r[3]
<1> DEFINE d == Fed(u, fT, fH, peak)
           e == Fed(v, fT2, fH2, peak2)
<1> SUFFICES \E r \in APPLIANCE_SCENARIOS(k, e) : r[1] \in PushedPriority /\ r[3]
  OBVIOUS
<1>1. /\ d.N \in Nat /\ d.wh \in Nat /\ d.minutes \in Nat
      /\ e.N \in Nat /\ e.wh \in Nat /\ e.minutes \in Nat
      /\ d.N <= e.N /\ d.wh <= e.wh /\ d.minutes <= e.minutes
      /\ s[2] \in EnergyOfCycle => e.N = d.N
      /\ s[2] = "High_temperature_effect" => e.fT > 108
      /\ d.standbyPower = 0
  BY DEF Fed, Use, NoLess
<1>2. s \in APPLIANCE_SCENARIOS(k, d)
  OBVIOUS
<1> HIDE DEF d, e
<1>3. CASE k = "dryer"
  <2> DEFINE Urgent(x) == PerCycle(x, 4500)
             Warning(x) == x.N > 0 /\ x.wh > 7000
  <2>1. \/ s = <<"critical", "High_energy_per_cycle", Urgent(d)>>
        \/ s = <<"warning", "Daily_consumption_high", Warning(d)>>
    BY <1>2, <1>3, Catalogue DEF Dryer, PushedPriority
  <2>2. /\ <<"critical", "High_energy_per_cycle", Urgent(e)>> \in APPLIANCE_SCENARIOS(k, e)
        /\ <<"warning", "Daily_consumption_high", Warning(e)>> \in APPLIANCE_SCENARIOS(k, e)
    BY <1>3, Catalogue DEF Dryer
  <2> HIDE DEF Urgent, Warning
  <2>3. \/ s[2] = "High_energy_per_cycle" /\ Urgent(d)
        \/ s[2] = "Daily_consumption_high" /\ Warning(d)
    <3>1. CASE s = <<"critical", "High_energy_per_cycle", Urgent(d)>>
      BY <3>1, Fields, Zenon
    <3>2. CASE s = <<"warning", "Daily_consumption_high", Warning(d)>>
      BY <3>2, Fields, Zenon
    <3>3. QED
      BY <2>1, <3>1, <3>2, Zenon
  <2>4. Urgent(e) \/ Warning(e)
    BY <1>1, <2>3 DEF Urgent, Warning, PerCycle, EnergyOfCycle
  <2>5. QED
    BY <2>2, <2>4, Priorities, Warns, Zenon
<1>4. CASE k = "kettle"
  <2> DEFINE Urgent(x) == x.N > 12
             Warning(x) == x.N \in 9..12
  <2>1. \/ s = <<"critical", "Excessive_daily_usage", Urgent(d)>>
        \/ s = <<"warning", "High_cycles_moderate_use", Warning(d)>>
    BY <1>2, <1>4, Catalogue DEF Kettle, PushedPriority
  <2>2. /\ <<"critical", "Excessive_daily_usage", Urgent(e)>> \in APPLIANCE_SCENARIOS(k, e)
        /\ <<"warning", "High_cycles_moderate_use", Warning(e)>> \in APPLIANCE_SCENARIOS(k, e)
    BY <1>4, Catalogue DEF Kettle
  <2> HIDE DEF Urgent, Warning
  <2>3. \/ s[2] = "Excessive_daily_usage" /\ Urgent(d)
        \/ s[2] = "High_cycles_moderate_use" /\ Warning(d)
    <3>1. CASE s = <<"critical", "Excessive_daily_usage", Urgent(d)>>
      BY <3>1, Fields, Zenon
    <3>2. CASE s = <<"warning", "High_cycles_moderate_use", Warning(d)>>
      BY <3>2, Fields, Zenon
    <3>3. QED
      BY <2>1, <3>1, <3>2, Zenon
  <2>4. Urgent(e) \/ Warning(e)
    BY <1>1, <2>3 DEF Urgent, Warning
  <2>5. QED
    BY <2>2, <2>4, Priorities, Warns, Zenon
<1>5. CASE k = "microwave"
  <2> DEFINE Urgent(x) == x.minutes > 30 /\ x.N > 0
             Warning(x) == x.N > 0 /\ x.wh > 800
  <2>1. \/ s = <<"critical", "Extended_continuous_use", Urgent(d)>>
        \/ s = <<"warning", "High_daily_energy", Warning(d)>>
    BY <1>2, <1>5, Catalogue DEF Microwave, PushedPriority
  <2>2. /\ <<"critical", "Extended_continuous_use", Urgent(e)>> \in APPLIANCE_SCENARIOS(k, e)
        /\ <<"warning", "High_daily_energy", Warning(e)>> \in APPLIANCE_SCENARIOS(k, e)
    BY <1>5, Catalogue DEF Microwave
  <2> HIDE DEF Urgent, Warning
  <2>3. \/ s[2] = "Extended_continuous_use" /\ Urgent(d)
        \/ s[2] = "High_daily_energy" /\ Warning(d)
    <3>1. CASE s = <<"critical", "Extended_continuous_use", Urgent(d)>>
      BY <3>1, Fields, Zenon
    <3>2. CASE s = <<"warning", "High_daily_energy", Warning(d)>>
      BY <3>2, Fields, Zenon
    <3>3. QED
      BY <2>1, <3>1, <3>2, Zenon
  <2>4. Urgent(e) \/ Warning(e)
    BY <1>1, <2>3 DEF Urgent, Warning
  <2>5. QED
    BY <2>2, <2>4, Priorities, Warns, Zenon
<1>6. CASE k = "washingmachine"
  <2> DEFINE Urgent(x) == PerCycle(x, 2000)
             Warning(x) == x.N > 2
  <2>1. \/ s = <<"critical", "High_energy_per_wash", Urgent(d)>>
        \/ s = <<"warning", "Multiple_washes_per_day", Warning(d)>>
    BY <1>2, <1>6, Catalogue DEF WashingMachine, PushedPriority
  <2>2. /\ <<"critical", "High_energy_per_wash", Urgent(e)>> \in APPLIANCE_SCENARIOS(k, e)
        /\ <<"warning", "Multiple_washes_per_day", Warning(e)>> \in APPLIANCE_SCENARIOS(k, e)
    BY <1>6, Catalogue DEF WashingMachine
  <2> HIDE DEF Urgent, Warning
  <2>3. \/ s[2] = "High_energy_per_wash" /\ Urgent(d)
        \/ s[2] = "Multiple_washes_per_day" /\ Warning(d)
    <3>1. CASE s = <<"critical", "High_energy_per_wash", Urgent(d)>>
      BY <3>1, Fields, Zenon
    <3>2. CASE s = <<"warning", "Multiple_washes_per_day", Warning(d)>>
      BY <3>2, Fields, Zenon
    <3>3. QED
      BY <2>1, <3>1, <3>2, Zenon
  <2>4. Urgent(e) \/ Warning(e)
    BY <1>1, <2>3 DEF Urgent, Warning, PerCycle, EnergyOfCycle
  <2>5. QED
    BY <2>2, <2>4, Priorities, Warns, Zenon
<1>7. CASE k = "dishwasher"
  <2> DEFINE Urgent(x) == PerCycle(x, 2500)
             Warning(x) == x.N > 1
  <2>1. \/ s = <<"critical", "Not_full", Urgent(d)>>
        \/ s = <<"warning", "Multiple_runs_per_day", Warning(d)>>
    BY <1>2, <1>7, Catalogue DEF Dishwasher, PushedPriority
  <2>2. /\ <<"critical", "Not_full", Urgent(e)>> \in APPLIANCE_SCENARIOS(k, e)
        /\ <<"warning", "Multiple_runs_per_day", Warning(e)>> \in APPLIANCE_SCENARIOS(k, e)
    BY <1>7, Catalogue DEF Dishwasher
  <2> HIDE DEF Urgent, Warning
  <2>3. \/ s[2] = "Not_full" /\ Urgent(d)
        \/ s[2] = "Multiple_runs_per_day" /\ Warning(d)
    <3>1. CASE s = <<"critical", "Not_full", Urgent(d)>>
      BY <3>1, Fields, Zenon
    <3>2. CASE s = <<"warning", "Multiple_runs_per_day", Warning(d)>>
      BY <3>2, Fields, Zenon
    <3>3. QED
      BY <2>1, <3>1, <3>2, Zenon
  <2>4. Urgent(e) \/ Warning(e)
    BY <1>1, <2>3 DEF Urgent, Warning, PerCycle, EnergyOfCycle
  <2>5. QED
    BY <2>2, <2>4, Priorities, Warns, Zenon
<1>8. CASE k = "coffeemachine"
  <2> DEFINE Urgent(x) == x.standbyPower > 8 /\ x.standbyTime > 60
             Warning(x) == x.N > 8
  <2>1. \/ s = <<"critical", "Standby_drain_detected", Urgent(d)>>
        \/ s = <<"warning", "High_daily_usage", Warning(d)>>
    BY <1>2, <1>8, Catalogue DEF CoffeeMachine, PushedPriority
  <2>2. /\ <<"critical", "Standby_drain_detected", Urgent(e)>> \in APPLIANCE_SCENARIOS(k, e)
        /\ <<"warning", "High_daily_usage", Warning(e)>> \in APPLIANCE_SCENARIOS(k, e)
    BY <1>8, Catalogue DEF CoffeeMachine
  <2> HIDE DEF Urgent, Warning
  <2>3. \/ s[2] = "Standby_drain_detected" /\ Urgent(d)
        \/ s[2] = "High_daily_usage" /\ Warning(d)
    <3>1. CASE s = <<"critical", "Standby_drain_detected", Urgent(d)>>
      BY <3>1, Fields, Zenon
    <3>2. CASE s = <<"warning", "High_daily_usage", Warning(d)>>
      BY <3>2, Fields, Zenon
    <3>3. QED
      BY <2>1, <3>1, <3>2, Zenon
  <2>4. Urgent(e) \/ Warning(e)
    BY <1>1, <2>3 DEF Urgent, Warning
  <2>5. QED
    BY <2>2, <2>4, Priorities, Warns, Zenon
<1>9. CASE k = "airfryer"
  <2> DEFINE Urgent(x) == PerCycle(x, 2000)
             Warning(x) == x.N > 3
  <2>1. \/ s = <<"critical", "Extended_session_energy", Urgent(d)>>
        \/ s = <<"warning", "Multiple_sessions", Warning(d)>>
    BY <1>2, <1>9, Catalogue DEF AirFryer, PushedPriority
  <2>2. /\ <<"critical", "Extended_session_energy", Urgent(e)>> \in APPLIANCE_SCENARIOS(k, e)
        /\ <<"warning", "Multiple_sessions", Warning(e)>> \in APPLIANCE_SCENARIOS(k, e)
    BY <1>9, Catalogue DEF AirFryer
  <2> HIDE DEF Urgent, Warning
  <2>3. \/ s[2] = "Extended_session_energy" /\ Urgent(d)
        \/ s[2] = "Multiple_sessions" /\ Warning(d)
    <3>1. CASE s = <<"critical", "Extended_session_energy", Urgent(d)>>
      BY <3>1, Fields, Zenon
    <3>2. CASE s = <<"warning", "Multiple_sessions", Warning(d)>>
      BY <3>2, Fields, Zenon
    <3>3. QED
      BY <2>1, <3>1, <3>2, Zenon
  <2>4. Urgent(e) \/ Warning(e)
    BY <1>1, <2>3 DEF Urgent, Warning, PerCycle, EnergyOfCycle
  <2>5. QED
    BY <2>2, <2>4, Priorities, Warns, Zenon
<1>10. CASE k = "toaster"
  <2> DEFINE Warning(x) == x.N > 10
  <2>1. s = <<"warning", "High_daily_cycles", Warning(d)>>
    BY <1>2, <1>10, Catalogue DEF Toaster, PushedPriority
  <2>2. <<"warning", "High_daily_cycles", Warning(e)>> \in APPLIANCE_SCENARIOS(k, e)
    BY <1>10, Catalogue DEF Toaster
  <2> HIDE DEF Warning
  <2>3. s[2] = "High_daily_cycles" /\ Warning(d)
    BY <2>1, Fields, Zenon
  <2>4. Warning(e)
    BY <1>1, <2>3 DEF Warning
  <2>5. QED
    BY <2>2, <2>4, Priorities, Warns, Zenon
<1>11. CASE k = "cooker"
  <2> DEFINE Urgent(x) == PerCycle(x, 3000)
             Warning(x) == x.minutes > 90 /\ x.N > 0
  <2>1. \/ s = <<"critical", "Very_high_energy_session", Urgent(d)>>
        \/ s = <<"warning", "Extended_cook_time", Warning(d)>>
    BY <1>2, <1>11, Catalogue DEF Cooker, PushedPriority
  <2>2. /\ <<"critical", "Very_high_energy_session", Urgent(e)>> \in APPLIANCE_SCENARIOS(k, e)
        /\ <<"warning", "Extended_cook_time", Warning(e)>> \in APPLIANCE_SCENARIOS(k, e)
    BY <1>11, Catalogue DEF Cooker
  <2> HIDE DEF Urgent, Warning
  <2>3. \/ s[2] = "Very_high_energy_session" /\ Urgent(d)
        \/ s[2] = "Extended_cook_time" /\ Warning(d)
    <3>1. CASE s = <<"critical", "Very_high_energy_session", Urgent(d)>>
      BY <3>1, Fields, Zenon
    <3>2. CASE s = <<"warning", "Extended_cook_time", Warning(d)>>
      BY <3>2, Fields, Zenon
    <3>3. QED
      BY <2>1, <3>1, <3>2, Zenon
  <2>4. Urgent(e) \/ Warning(e)
    BY <1>1, <2>3 DEF Urgent, Warning, PerCycle, EnergyOfCycle
  <2>5. QED
    BY <2>2, <2>4, Priorities, Warns, Zenon
<1>12. CASE k = "xbox"
  <2> DEFINE Urgent(x) == x.minutes > 240 /\ x.N > 0
             Warning(x) == x.fT > 108 /\ x.N > 0
  <2>1. \/ s = <<"critical", "Extended_gaming_session", Urgent(d)>>
        \/ s = <<"warning", "High_temperature_effect", Warning(d)>>
    BY <1>2, <1>12, Catalogue DEF Xbox, PushedPriority
  <2>2. /\ <<"critical", "Extended_gaming_session", Urgent(e)>> \in APPLIANCE_SCENARIOS(k, e)
        /\ <<"warning", "High_temperature_effect", Warning(e)>> \in APPLIANCE_SCENARIOS(k, e)
    BY <1>12, Catalogue DEF Xbox
  <2> HIDE DEF Urgent, Warning
  <2>3. \/ s[2] = "Extended_gaming_session" /\ Urgent(d)
        \/ s[2] = "High_temperature_effect" /\ Warning(d)
    <3>1. CASE s = <<"critical", "Extended_gaming_session", Urgent(d)>>
      BY <3>1, Fields, Zenon
    <3>2. CASE s = <<"warning", "High_temperature_effect", Warning(d)>>
      BY <3>2, Fields, Zenon
    <3>3. QED
      BY <2>1, <3>1, <3>2, Zenon
  <2>4. Urgent(e) \/ Warning(e)
    BY <1>1, <2>3 DEF Urgent, Warning
  <2>5. QED
    BY <2>2, <2>4, Priorities, Warns, Zenon
<1>13. CASE k = "water_purifier"
  <2> DEFINE Urgent(x) == PerCycle(x, 1000)
             Warning(x) == x.minutes > 120 /\ x.N > 0
  <2>1. \/ s = <<"critical", "Abnormally_high_energy", Urgent(d)>>
        \/ s = <<"warning", "Continuous_operation", Warning(d)>>
    BY <1>2, <1>13, Catalogue DEF WaterPurifier, PushedPriority
  <2>2. /\ <<"critical", "Abnormally_high_energy", Urgent(e)>> \in APPLIANCE_SCENARIOS(k, e)
        /\ <<"warning", "Continuous_operation", Warning(e)>> \in APPLIANCE_SCENARIOS(k, e)
    BY <1>13, Catalogue DEF WaterPurifier
  <2> HIDE DEF Urgent, Warning
  <2>3. \/ s[2] = "Abnormally_high_energy" /\ Urgent(d)
        \/ s[2] = "Continuous_operation" /\ Warning(d)
    <3>1. CASE s = <<"critical", "Abnormally_high_energy", Urgent(d)>>
      BY <3>1, Fields, Zenon
    <3>2. CASE s = <<"warning", "Continuous_operation", Warning(d)>>
      BY <3>2, Fields, Zenon
    <3>3. QED
      BY <2>1, <3>1, <3>2, Zenon
  <2>4. Urgent(e) \/ Warning(e)
    BY <1>1, <2>3 DEF Urgent, Warning, PerCycle, EnergyOfCycle
  <2>5. QED
    BY <2>2, <2>4, Priorities, Warns, Zenon
<1>14. QED
  <2>1. k \in Appliance
    BY <1>2, Catalogue
  <2>2. QED
    BY <2>1, <1>3, <1>4, <1>5, <1>6, <1>7, <1>8, <1>9, <1>10, <1>11, <1>12, <1>13 DEF Appliance, d, e

\* The factors of a room.
LEMMA Factors ==
  ASSUME NEW k, NEW t, NEW h
  PROVE  /\ TemperatureFactor(k, t) \in TemperatureFactors
         /\ HumidityFactor(k, h) \in HumidityFactors
         /\ t \in Int /\ t > 28 => TemperatureFactor("xbox", t) = 110
<1>1. TemperatureFactor(k, t) \in TemperatureFactors
  BY DEF TemperatureFactor, TemperatureFactors
<1>2. HumidityFactor(k, h) \in HumidityFactors
  BY DEF HumidityFactor, HumidityFactors
<1>3. t \in Int /\ t > 28 => TemperatureFactor("xbox", t) = 110
  BY DEF TemperatureFactor
<1>4. QED
  BY <1>1, <1>2, <1>3

\* The alerts for a room are the scenarios that hold of the day's row there.
LEMMA AlertsHold ==
  ASSUME NEW t, NEW h, NEW peak
  PROVE  Optimized(key, t, h, UsageData(peak)) =
            {<<s[1], s[2]>> : s \in {r \in APPLIANCE_SCENARIOS(Canonical(key),
                Fed(daily, TemperatureFactor(Canonical(key), t), HumidityFactor(Canonical(key), h),
                    peak)) : r[3]}}
  BY DEF Optimized, UsageData, Alerts, Fed

\* Only one appliance has a scenario about the temperature.
LEMMA OnlyXbox ==
  ASSUME NEW k, NEW d, NEW s \in APPLIANCE_SCENARIOS(k, d), s[2] = "High_temperature_effect"
  PROVE  k = "xbox"
<1>1. k \in Appliance
  BY Catalogue
<1>2. CASE k \in {"dryer", "kettle", "microwave", "washingmachine", "dishwasher"}
  BY <1>2, Catalogue DEF Dryer, Kettle, Microwave, WashingMachine, Dishwasher
<1>3. CASE k \in {"coffeemachine", "airfryer", "toaster", "cooker", "water_purifier"}
  BY <1>3, Catalogue DEF CoffeeMachine, AirFryer, Toaster, Cooker, WaterPurifier
<1>4. QED
  BY <1>1, <1>2, <1>3 DEF Appliance

\* A reading adds to the day or leaves it.
LEMMA ReadingsAdd ==
  ASSUME earlier \in Use, NEW s \in Seq(Reading), NEW r \in Reading, InOrder(Append(s, r))
  PROVE  Summed(s) \in Use /\ Summed(Append(s, r)) \in Use /\ NoLess(Summed(s), Summed(Append(s, r)))
<1> DEFINE t == Append(s, r)
<1>1. t \in Seq(Reading) /\ InOrder(s) /\ InOrder(t) /\ Len(t) = Len(s) + 1 /\ t[Len(t)] = r
  <2>1. /\ t \in Seq(Reading) /\ Len(t) = Len(s) + 1 /\ t[Len(t)] = r
        /\ \A i \in 1..Len(s) : t[i] = s[i] /\ i \in 1..Len(t)
    OBVIOUS
  <2>2. QED
    BY <2>1 DEF InOrder
<1>2. /\ CyclesOf(s) \in Nat /\ MinutesOf(s) \in Nat /\ EnergyOf(s) \in Nat
      /\ CyclesOf(t) \in Nat /\ MinutesOf(t) \in Nat /\ EnergyOf(t) \in Nat
  <2> HIDE DEF t
  <2>1. QED
    BY <1>1, SumsType
<1>3. CyclesOf(s) <= CyclesOf(t) /\ MinutesOf(s) <= MinutesOf(t) /\ EnergyOf(s) <= EnergyOf(t)
  <2>1. CASE s = <<>> \/ HourOf(s[Len(s)].at) # HourOf(r.at)
    BY <1>2, <2>1, SumsAppend
  <2>2. CASE s # <<>> /\ HourOf(s[Len(s)].at) = HourOf(r.at)
    <3> DEFINE u == Hourly(s, HourOf(r.at))
               p == s[Len(s)]
               v == Advance(u, p, r)
    <3>1. p \in Reading /\ p.at < r.at
      <4>1. Len(s) \in 1..Len(t) /\ Len(t) \in 1..Len(t) /\ Len(s) < Len(t) /\ t[Len(s)] = p
        BY <1>1, <2>2
      <4>2. t[Len(s)].at < t[Len(t)].at
        BY <4>1 DEF InOrder
      <4>3. QED
        BY <1>1, <2>2, <4>1, <4>2
    <3>2. u \in Usage
      BY <1>1, HourlyType
    <3> HIDE DEF u, p
    <3>3. v.cycles \in Nat /\ v.minutes \in Nat /\ v.wh \in Nat
          /\ u.cycles \in Nat /\ u.minutes \in Nat /\ u.wh \in Nat
      BY <3>1, <3>2, AdvanceType DEF Usage
    <3>4. u.cycles <= v.cycles /\ u.minutes <= v.minutes /\ u.wh <= v.wh
      <4>1. CASE ~Continuous(p, r)
        BY <3>2, <3>3, <4>1 DEF Advance, Usage
      <4>2. CASE Continuous(p, r)
        <5>1. Energy(p, r) \in Nat /\ (60 * (r.at - p.at)) \div HourSlots \in Nat
          BY <3>1, EnergyType
        <5>2. /\ v.cycles = u.cycles + (IF On(p, r) /\ ~u.was_active THEN 1 ELSE 0)
              /\ v.minutes = u.minutes + (IF On(p, r) THEN (60 * (r.at - p.at)) \div HourSlots ELSE 0)
              /\ v.wh = u.wh + Energy(p, r)
          BY <4>2 DEF Advance
        <5>3. QED
          BY <3>3, <5>1, <5>2
      <4>3. QED
        BY <4>1, <4>2
    <3>5. /\ CyclesOf(t) = CyclesOf(s) + v.cycles - u.cycles
          /\ MinutesOf(t) = MinutesOf(s) + v.minutes - u.minutes
          /\ EnergyOf(t) = EnergyOf(s) + v.wh - u.wh
      BY <2>2, SumsAppend DEF u, p
    <3> HIDE DEF v, t
    <3>6. \A a, b, c, x \in Nat : b <= c /\ x = a + c - b => a <= x
      OBVIOUS
    <3>7. CyclesOf(s) <= CyclesOf(t)
      BY <1>2, <3>3, <3>4, <3>5, <3>6
    <3>8. MinutesOf(s) <= MinutesOf(t)
      BY <1>2, <3>3, <3>4, <3>5, <3>6
    <3>9. EnergyOf(s) <= EnergyOf(t)
      BY <1>2, <3>3, <3>4, <3>5, <3>6
    <3>10. QED
      BY <3>7, <3>8, <3>9
  <2>3. QED
    BY <2>1, <2>2
<1> HIDE DEF t
<1>4. /\ Summed(s) = [cycles  |-> earlier.cycles + CyclesOf(s),
                      minutes |-> earlier.minutes + MinutesOf(s),
                      wh      |-> earlier.wh + EnergyOf(s)]
      /\ Summed(t) = [cycles  |-> earlier.cycles + CyclesOf(t),
                      minutes |-> earlier.minutes + MinutesOf(t),
                      wh      |-> earlier.wh + EnergyOf(t)]
  BY DEF Summed, CyclesOf, MinutesOf, EnergyOf
<1>5. earlier.cycles \in Nat /\ earlier.minutes \in Nat /\ earlier.wh \in Nat
  BY DEF Use
<1>6. QED
  BY <1>2, <1>3, <1>4, <1>5 DEF Use, NoLess, t

\* No less than what is no less.
LEMMA NoLessIsOrder ==
  ASSUME NEW u \in Use, NEW v \in Use, NEW w \in Use
  PROVE  /\ NoLess(u, u)
         /\ NoLess(u, v) /\ NoLess(v, w) => NoLess(u, w)
  BY DEF NoLess, Use

\* A new notification is of something that holds, and an old one stays.
LEMMA NotifyKeeps ==
  ASSUME IInv, NEW t, NEW h, NEW peak \in BOOLEAN,
         Notify(Grave(Optimized(key, t, h, UsageData(peak))))
  PROVE  IInv'
<1> DEFINE alerts == Grave(Optimized(key, t, h, UsageData(peak)))
<1>1. PICK first \in [{TypeOf(a[1]) : a \in alerts} -> {a[2] : a \in alerts}] :
        /\ \A x \in DOMAIN first : \E a \in alerts : TypeOf(a[1]) = x /\ first[x] = a[2]
        /\ notified' = [x \in DOMAIN notified \cup DOMAIN first |->
                            IF x \in DOMAIN notified THEN notified[x]
                            ELSE [scenario |-> first[x], told |-> daily]]
  BY DEF Notify
<1>2. key' = key /\ earlier' = earlier /\ daily' = daily /\ readings' = readings
  BY DEF Notify
<1>3. daily \in Use /\ NoLess(daily, daily)
  BY NoLessIsOrder DEF IInv
<1>4. ASSUME NEW a \in alerts
      PROVE  Held([scenario |-> a[2], told |-> daily])
  <2> DEFINE fT == TemperatureFactor(Canonical(key), t)
             fH == HumidityFactor(Canonical(key), h)
             n == [scenario |-> a[2], told |-> daily]
  <2>1. /\ a \in Optimized(key, t, h, UsageData(peak))
        /\ a[1] \in PushedPriority
    BY DEF Grave, PushedPriority
  <2>2. fT \in TemperatureFactors /\ fH \in HumidityFactors
    BY Factors
  <2> HIDE DEF fT, fH
  <2>3. PICK s \in APPLIANCE_SCENARIOS(Canonical(key), Fed(daily, fT, fH, peak)) :
            s[3] /\ a = <<s[1], s[2]>>
    BY <2>1, AlertsHold DEF fT, fH
  <2>4. s[1] = a[1] /\ s[2] = n.scenario /\ n.told = daily
    BY <2>3
  <2> HIDE DEF n
  <2>5. QED
    BY <2>1, <2>2, <2>3, <2>4 DEF Held, n
<1> HIDE DEF alerts
<1>5. ASSUME NEW x \in DOMAIN notified'
      PROVE  /\ x \in NotificationType
             /\ notified'[x].told \in Use /\ NoLess(notified'[x].told, daily) /\ Held(notified'[x])
  <2>1. CASE x \in DOMAIN notified
    <3>1. notified'[x] = notified[x]
      BY <1>1, <2>1
    <3>2. QED
      BY <2>1, <3>1 DEF IInv
  <2>2. CASE x \notin DOMAIN notified
    <3>1. x \in DOMAIN first /\ notified'[x] = [scenario |-> first[x], told |-> daily]
      BY <1>1, <2>2
    <3>2. PICK a \in alerts : TypeOf(a[1]) = x /\ first[x] = a[2]
      BY <1>1, <3>1
    <3>3. x \in NotificationType
      BY <3>2 DEF TypeOf, NotificationType
    <3>4. Held(notified'[x]) /\ notified'[x].told = daily
      BY <1>4, <3>1, <3>2
    <3>5. QED
      BY <1>3, <3>3, <3>4
  <2>3. QED
    BY <2>1, <2>2
<1>6. \A n : Held(n)' <=> Held(n)
  BY <1>2 DEF Held
<1>7. NoLess(daily, Summed(readings))'
  BY <1>2 DEF IInv, Summed
<1>8. DOMAIN notified' \subseteq NotificationType
  BY <1>5
<1>9. QED
  BY <1>2, <1>3, <1>5, <1>6, <1>7, <1>8 DEF IInv

\* The day's row lags behind its readings, and what was notified behind the row.
LEMMA Invariance == Spec => []IInv
<1>1. Init => IInv
  <2> SUFFICES ASSUME Init
               PROVE  IInv
    OBVIOUS
  <2>1. earlier \in Use /\ readings = <<>> /\ daily = NoRow /\ DOMAIN notified = {}
    BY DayAssumption DEF Init
  <2>2. readings \in Seq(Reading) /\ InOrder(readings)
    BY <2>1 DEF InOrder
  <2>3. CyclesOf(readings) \in Nat /\ MinutesOf(readings) \in Nat /\ EnergyOf(readings) \in Nat
    BY <2>2, SumsType
  <2>4. Summed(readings) = [cycles  |-> earlier.cycles + CyclesOf(readings),
                            minutes |-> earlier.minutes + MinutesOf(readings),
                            wh      |-> earlier.wh + EnergyOf(readings)]
    BY DEF Summed, CyclesOf, MinutesOf, EnergyOf
  <2>5. daily \in Use /\ NoLess(daily, Summed(readings))
    BY <2>1, <2>3, <2>4 DEF NoRow, Use, NoLess
  <2>6. QED
    BY <2>1, <2>5 DEF IInv
<1>2. DayInv /\ DayInv' /\ IInv /\ [Next]_vars => IInv'
  <2> SUFFICES ASSUME DayInv, DayInv', IInv, [Next]_vars
               PROVE  IInv'
    OBVIOUS
  <2>0. /\ earlier \in Use /\ readings \in Seq(Reading) /\ InOrder(readings)
        /\ InOrder(readings)'
    BY DayAssumption DEF DayInv
  <2>1. ASSUME NEW power \in Watts \cup {Missing}, Pass(power)
        PROVE  IInv'
    <3>1. key' = key /\ earlier' = earlier /\ daily' = daily /\ notified' = notified
      BY <2>1 DEF Pass
    <3>2. NoLess(daily, Summed(readings))'
      <4>1. CASE power = Missing
        <5>1. readings' = readings
          BY <2>1, <4>1 DEF Pass
        <5>2. QED
          BY <3>1, <5>1 DEF IInv, Summed
      <4>2. CASE power # Missing
        <5> DEFINE r == [at |-> clock + 1, watts |-> power]
        <5>1. readings' = Append(readings, r) /\ clock' = clock + 1 /\ clock' \in 1..Slots
          <6>1. clock < Slots /\ clock \in 0..Slots /\ Slots \in Nat
            BY <2>1, DayAssumption DEF Pass, DayInv
          <6>2. QED
            BY <2>1, <4>2, <6>1 DEF Pass
        <5>2. r \in Reading
          BY <4>2, <5>1 DEF Reading
        <5> HIDE DEF r
        <5>3. InOrder(Append(readings, r))
          BY <2>0, <5>1 DEF InOrder
        <5>4. /\ Summed(readings) \in Use /\ Summed(Append(readings, r)) \in Use
              /\ NoLess(Summed(readings), Summed(Append(readings, r)))
          BY <2>0, <5>2, <5>3, ReadingsAdd
        <5>5. NoLess(daily, Summed(Append(readings, r)))
          BY <5>4, NoLessIsOrder DEF IInv
        <5>6. Summed(readings)' = Summed(Append(readings, r))
          BY <3>1, <5>1 DEF Summed
        <5>7. QED
          BY <3>1, <5>5, <5>6 DEF NoLess
      <4>3. QED
        BY <4>1, <4>2
    <3>3. \A n : Held(n)' <=> Held(n)
      BY <3>1 DEF Held
    <3>4. QED
      BY <3>1, <3>2, <3>3 DEF IInv
  <2>2. CASE Backfill
    <3>1. /\ key' = key /\ earlier' = earlier /\ readings' = readings /\ notified' = notified
          /\ daily' = Summed(readings)
      BY <2>2 DEF Backfill
    <3>2. Summed(readings)' = Summed(readings)
      BY <3>1 DEF Summed
    <3>3. Summed(readings) \in Use
      <4>1. CyclesOf(readings) \in Nat /\ MinutesOf(readings) \in Nat /\ EnergyOf(readings) \in Nat
        BY <2>0, SumsType
      <4>2. Summed(readings) = [cycles  |-> earlier.cycles + CyclesOf(readings),
                                minutes |-> earlier.minutes + MinutesOf(readings),
                                wh      |-> earlier.wh + EnergyOf(readings)]
        BY DEF Summed, CyclesOf, MinutesOf, EnergyOf
      <4>3. QED
        BY <2>0, <4>1, <4>2 DEF Use
    <3>4. daily' \in Use /\ NoLess(daily, Summed(readings))'
      BY <3>1, <3>2, <3>3, NoLessIsOrder
    <3>5. \A n : Held(n)' <=> Held(n)
      BY <3>1 DEF Held
    <3>6. ASSUME NEW type \in DOMAIN notified
          PROVE  /\ notified[type].told \in Use /\ NoLess(notified[type].told, daily')
                 /\ Held(notified[type])
      <4>1. /\ notified[type].told \in Use /\ NoLess(notified[type].told, daily)
            /\ Held(notified[type]) /\ daily \in Use /\ NoLess(daily, Summed(readings))
        BY <3>6 DEF IInv
      <4>2. QED
        BY <3>1, <3>3, <4>1, NoLessIsOrder
    <3>7. DOMAIN notified \subseteq NotificationType
      BY DEF IInv
    <3>8. QED
      BY <3>1, <3>4, <3>5, <3>6, <3>7 DEF IInv
  <2>3. ASSUME NEW room, NEW hour \in Hours,
               \/ check_device_scenario_notifications(room, is_peak_time(hour))
               \/ trigger_smart_notifications(room, is_peak_time(hour))
               \/ trigger_smart_notifications_all(room, is_peak_time(hour))
        PROVE  IInv'
    <3>1. is_peak_time(hour) \in BOOLEAN
      BY DEF is_peak_time
    <3>2. QED
      BY <2>3, <3>1, NotifyKeeps
         DEF check_device_scenario_notifications, trigger_smart_notifications,
             trigger_smart_notifications_all, AtRoom
  <2>4. CASE UNCHANGED vars
    <3>1. /\ key' = key /\ earlier' = earlier /\ readings' = readings /\ notified' = notified
          /\ daily' = daily
      BY <2>4 DEF vars
    <3>2. Summed(readings)' = Summed(readings) /\ \A n : Held(n)' <=> Held(n)
      BY <3>1 DEF Summed, Held
    <3>3. QED
      BY <3>1, <3>2 DEF IInv
  <2>5. QED
    BY <2>1, <2>2, <2>3, <2>4 DEF Next
<1>3. QED
  BY <1>1, <1>2, DayInvariance, PTL DEF Spec

\* The rooms the advisors look at report a temperature or none.
LEMMA RoomType ==
  ASSUME NEW room \in MatchedRooms \cup FirstRooms
  PROVE  Given(room.temperature, {Missing}, 20) \in Int
<1>1. ASSUME NEW home \in Homes
      PROVE  /\ MatchedRoom(home) \in Conditions \cup {NoRoom}
             /\ FirstRoom(home) \in Conditions \cup {NoRoom}
  <2>1. PICK n \in 0..MaxRooms : home \in [rooms : [1..n -> Conditions], named : 0..n,
                                           matched : SUBSET (1..n)]
    BY DEF Homes
  <2>2. n \in Nat /\ home.rooms \in [1..n -> Conditions] /\ home.matched \in SUBSET (1..n)
    BY <2>1, RoomAssumption
  <2>3. FirstRoom(home) \in Conditions \cup {NoRoom}
    <3>1. CASE n = 0
      <4>1. home.rooms = <<>>
        BY <2>2, <3>1
      <4>2. QED
        BY <4>1 DEF FirstRoom
    <3>2. CASE n # 0
      BY <2>2, <3>2 DEF FirstRoom
    <3>3. QED
      BY <3>1, <3>2
  <2>4. MatchedRoom(home) \in Conditions \cup {NoRoom}
    <3>1. CASE home.matched # {}
      <4>1. Min(home.matched) \in 1..n
        BY <2>2, <3>1, Extremes
      <4>2. QED
        BY <2>2, <3>1, <4>1 DEF MatchedRoom
    <3>2. QED
      BY <3>1 DEF MatchedRoom
  <2>5. QED
    BY <2>3, <2>4
<1>2. room \in Conditions \cup {NoRoom}
  BY <1>1 DEF MatchedRooms, FirstRooms
<1>3. room.temperature \in Temperature \cup {Missing}
  BY <1>2 DEF Conditions, NoRoom
<1>4. CASE room.temperature = Missing
  BY <1>4 DEF Given
<1>5. CASE room.temperature # Missing
  <2>1. room.temperature \in Int
    BY <1>3, <1>5, RoomAssumption
  <2>2. QED
    BY <1>5, <2>1 DEF Given
<1>6. QED
  BY <1>4, <1>5

\* As long as nothing has eased it, what was notified comes with an alert for any room.
LEMMA StillAlerted ==
  ASSUME IInv, NEW type \in DOMAIN notified, NEW room, NEW peak,
         Given(room.temperature, {Missing}, 20) \in Int, ~Eased(notified[type], room)
  PROVE  Grave(AtRoom({Missing}, room, peak)) # {}
<1> DEFINE n == notified[type]
           t == Given(room.temperature, {Missing}, 20)
           fT2 == TemperatureFactor(Canonical(key), t)
           fH2 == HumidityFactor(Canonical(key), Given(room.humidity, {Missing}, 50))
<1>1. n.told \in Use /\ daily \in Use /\ NoLess(n.told, daily) /\ Held(n)
  BY DEF IInv
<1>2. /\ n.scenario \in EnergyOfCycle => daily.cycles <= n.told.cycles
      /\ n.scenario = "High_temperature_effect" => t > 28
  BY <1>1 DEF Eased, Use
<1> HIDE DEF n
<1>3. PICK fT \in TemperatureFactors, fH \in HumidityFactors, peak1 \in BOOLEAN :
        \E s \in APPLIANCE_SCENARIOS(Canonical(key), Fed(n.told, fT, fH, peak1)) :
            s[1] \in PushedPriority /\ s[2] = n.scenario /\ s[3]
  BY <1>1 DEF Held
<1>4. PICK s \in APPLIANCE_SCENARIOS(Canonical(key), Fed(n.told, fT, fH, peak1)) :
            s[1] \in PushedPriority /\ s[2] = n.scenario /\ s[3]
  BY <1>3
<1>5. fT2 \in Int
  BY Factors DEF TemperatureFactors
<1>6. s[2] = "High_temperature_effect" => fT2 > 108
  <2>1. s[2] = "High_temperature_effect" => Canonical(key) = "xbox"
    BY <1>4, OnlyXbox
  <2>2. t \in Int
    OBVIOUS
  <2> HIDE DEF t
  <2>3. QED
    BY <1>2, <1>4, <2>1, <2>2, Factors
<1> HIDE DEF fT2, fH2, t
<1>7. PICK r \in APPLIANCE_SCENARIOS(Canonical(key), Fed(daily, fT2, fH2, peak)) :
        r[1] \in PushedPriority /\ r[3]
  BY <1>1, <1>2, <1>4, <1>5, <1>6, AlertsLast
<1>8. <<r[1], r[2]>> \in AtRoom({Missing}, room, peak)
  BY <1>7, AlertsHold DEF AtRoom, fT2, fH2, t
<1> DEFINE alerts == AtRoom({Missing}, room, peak)
<1>9. <<r[1], r[2]>> \in alerts /\ r[1] \in {"critical", "warning"}
  BY <1>7, <1>8 DEF PushedPriority
<1> HIDE DEF alerts
<1>10. <<r[1], r[2]>> \in Grave(alerts)
  BY <1>9 DEF Grave
<1>11. QED
  BY <1>10 DEF alerts

\* Whatever the appliance, its use of the day and the rooms of the home, whoever notified and
\* whoever is asked: an advisor gives an all-clear against a notification of the day only
\* after more cycles or for a cooler room (check_device_before_use, check_all_devices).
THEOREM NothingIsTakenBack == Spec => []NoFalseAllClear
<1>1. IInv => NoFalseAllClear
  <2> SUFFICES ASSUME IInv, NEW type \in DOMAIN notified, NEW peak \in BOOLEAN
               PROVE  /\ \A room \in MatchedRooms :
                          check_device_before_use(room, peak) = "good" => Eased(notified[type], room)
                      /\ \A room \in FirstRooms :
                          check_all_devices(room, peak) = "ok" => Eased(notified[type], room)
    BY DEF NoFalseAllClear
  <2>1. ASSUME NEW room \in MatchedRooms, check_device_before_use(room, peak) = "good",
               ~Eased(notified[type], room)
        PROVE  FALSE
    <3>1. AtRoom({Missing}, room, peak) = {}
      BY <2>1 DEF check_device_before_use
    <3>2. Grave(AtRoom({Missing}, room, peak)) # {}
      BY <2>1, RoomType, StillAlerted
    <3>3. QED
      BY <3>1, <3>2 DEF Grave
  <2>2. ASSUME NEW room \in FirstRooms, check_all_devices(room, peak) = "ok",
               ~Eased(notified[type], room)
        PROVE  FALSE
    <3>1. Grave(AtRoom({Missing}, room, peak)) = {}
      BY <2>2 DEF check_all_devices
    <3>2. Grave(AtRoom({Missing}, room, peak)) # {}
      BY <2>2, RoomType, StillAlerted
    <3>3. QED
      BY <3>1, <3>2
  <2>3. QED
    BY <2>1, <2>2
<1>2. QED
  BY <1>1, Invariance, PTL

-----------------------------------------------------------------------------
(* Types and hours *)

\* At all times the row of a day holds naturals, readings come in order, and no more minutes
\* are summed than have passed (detect_usage_cycles, aggregate_hourly, aggregate_daily).
THEOREM TypeCorrect == Spec => []TypeOK
<1>1. DayInv /\ IInv => TypeOK
  <2> SUFFICES ASSUME DayInv, IInv
               PROVE  TypeOK
    OBVIOUS
  <2> DEFINE s == SubSeq(readings, 1, summed)
  <2>1. /\ s \in Seq(Reading) /\ InOrder(s) /\ Len(s) = summed
        /\ summed > 0 => s # <<>> /\ s[Len(s)].at <= clock
    BY SummedPart
  <2>2. earlier \in Use /\ HourSlots \in Nat \ {0} /\ clock \in Nat /\ summed \in Nat
    BY DayAssumption DEF DayInv
  <2> HIDE DEF s
  <2>3. CyclesOf(s) \in Nat /\ MinutesOf(s) \in Nat /\ EnergyOf(s) \in Nat
    BY <2>1, SumsType
  <2>4. Summed(s) = [cycles  |-> earlier.cycles + CyclesOf(s),
                     minutes |-> earlier.minutes + MinutesOf(s),
                     wh      |-> earlier.wh + EnergyOf(s)]
    BY DEF Summed, CyclesOf, MinutesOf, EnergyOf
  <2>5. HourSlots * MinutesOf(s) <= 60 * clock
    <3>1. CASE summed = 0
      <4>1. s = <<>>
        BY <2>1, <3>1
      <4>2. MinutesOf(s) = 0
        BY <2>1, <4>1, SumsType
      <4>3. QED
        BY <2>2, <4>2
    <3>2. CASE summed # 0
      <4>1. s # <<>> /\ s[Len(s)].at <= clock /\ s[Len(s)] \in Reading
        BY <2>1, <2>2, <3>2
      <4>2. HourSlots * MinutesOf(s) <= 60 * s[Len(s)].at
        BY <2>1, <4>1, DayHolds
      <4>3. s[Len(s)].at \in Nat /\ HourSlots * MinutesOf(s) \in Int
        BY <2>2, <2>3, <4>1, Slot
      <4>4. QED
        BY <2>2, <4>1, <4>2, <4>3
    <3>3. QED
      BY <3>1, <3>2
  <2>6. daily \in Use /\ HourSlots * (daily.minutes - earlier.minutes) <= 60 * clock
    <3>1. daily = NoRow \/ daily = Summed(s)
      BY DEF DayInv, s
    <3>2. CASE daily = NoRow
      <4>1. daily \in Use /\ daily.minutes = 0
        BY <3>2 DEF NoRow, Use
      <4>2. earlier.minutes \in Nat
        BY <2>2 DEF Use
      <4>3. HourSlots * (0 - earlier.minutes) = 0 - HourSlots * earlier.minutes
        BY <2>2, <4>2
      <4>4. HourSlots * earlier.minutes \in Nat
        BY <2>2, <4>2
      <4>5. QED
        BY <2>2, <4>1, <4>3, <4>4
    <3>3. CASE daily = Summed(s)
      <4>1. daily \in Use
        BY <2>2, <2>3, <2>4, <3>3 DEF Use
      <4>2. daily.minutes = earlier.minutes + MinutesOf(s) /\ earlier.minutes \in Nat
        BY <2>2, <2>4, <3>3 DEF Use
      <4>3. daily.minutes - earlier.minutes = MinutesOf(s)
        BY <2>3, <4>2
      <4>4. QED
        BY <2>5, <4>1, <4>3
    <3>4. QED
      BY <3>1, <3>2, <3>3
  <2>7. \A i \in 2..Len(readings) : readings[i - 1].at < readings[i].at
    BY DEF DayInv, InOrder
  <2>8. DOMAIN notified \subseteq NotificationType
    BY DEF IInv
  <2>9. QED
    BY <2>6, <2>7, <2>8 DEF TypeOK, DayInv
<1>2. QED
  BY <1>1, DayInvariance, Invariance, PTL

\* Whatever is read, and whenever the day is summed up: what summing by clock hours leaves
\* out of the day's row is the energy of the stretches that cross an hour, all of it and
\* nothing else, and the cycles are off by one for each of them cut while the device was on,
\* at most (aggregate_hourly, aggregate_daily).
THEOREM DaySplitsByHour == Spec => []SplitByHour
<1>1. DayInv => SplitByHour
  <2> SUFFICES ASSUME DayInv, summed > 0
               PROVE  SplitByHour
    BY DEF SplitByHour
  <2> DEFINE s == SubSeq(readings, 1, summed)
  <2>1. s \in Seq(Reading) /\ InOrder(s) /\ s # <<>>
    BY SummedPart
  <2>2. daily = Summed(s) /\ earlier \in Use
    BY DayAssumption DEF DayInv
  <2> HIDE DEF s
  <2>3. /\ EnergyOf(s) = WhOf(Stretches(s), s) - WhOf(Crossing(s), s)
        /\ CyclesOf(s) - Cardinality(Runs(s))
              \in (-Cardinality(CutWhileOn(s)))..Cardinality(CutWhileOn(s))
    BY <2>1, DayHolds
  <2>4. daily.wh = earlier.wh + EnergyOf(s) /\ daily.cycles = earlier.cycles + CyclesOf(s)
    BY <2>2 DEF Summed, CyclesOf, EnergyOf
  <2>5. earlier.wh \in Nat /\ earlier.cycles \in Nat /\ CyclesOf(s) \in Nat /\ EnergyOf(s) \in Nat
    BY <2>1, <2>2, SumsType DEF Use
  <2>6. WhOf(Stretches(s), s) \in Int /\ WhOf(Crossing(s), s) \in Int
    BY <2>1, WhType
  <2>7. Cardinality(Runs(s)) \in Nat
    BY <2>1, FiniteStretches
  <2>8. daily.wh = earlier.wh + WhOf(Stretches(s), s) - WhOf(Crossing(s), s)
    BY <2>3, <2>4, <2>5, <2>6
  <2>9. daily.cycles - earlier.cycles - Cardinality(Runs(s)) = CyclesOf(s) - Cardinality(Runs(s))
    BY <2>4, <2>5, <2>7
  <2>10. QED
    BY <2>3, <2>8, <2>9 DEF SplitByHour, s
<1>2. QED
  BY <1>1, DayInvariance, PTL
=============================================================================
