----------------------------- MODULE SumsProofs -----------------------------
(***************************************************************************)
(* What is true of the running totals of module Sums, for the proofs that  *)
(* add up rows and lots.                                                   *)
(***************************************************************************)
EXTENDS Sums, WellFoundedInduction, TLAPS

(* Induction for a set of numbers, by the well-foundedness of <.      *)

LEMMA CountUp ==
    ASSUME NEW S \in SUBSET Nat, 0 \in S, \A m \in S : m + 1 \in S
    PROVE  Nat \subseteq S
<1>1. PICK R : R = OpToRel(<, Nat)
  OBVIOUS
<1>2. IsWellFoundedOn(R, Nat)
  BY <1>1, NatLessThanWellFounded
<1>3. \A x \in Nat : x # 0 => <<x - 1, x>> \in R
  BY <1>1 DEF OpToRel
<1>4. SUFFICES ASSUME NEW T, T = Nat \ S, T # {} PROVE FALSE
  OBVIOUS
<1>5. PICK x \in T : \A y \in T : <<y, x>> \notin R
  BY <1>2, <1>4, WFMin
<1>6. x \in Nat /\ x # 0 /\ x - 1 \in Nat
  BY <1>4
<1>7. x - 1 \in S
  BY <1>3, <1>4, <1>5, <1>6
<1>8. x \in S
  <2>1. (x - 1) + 1 \in S
    BY <1>7
  <2> QED  BY <1>6, <2>1
<1> QED  BY <1>4, <1>8

\* A running sum of f, up to m.
Sums(f, m, g) == /\ g \in [0 .. m -> Int]
                 /\ g = [k \in 0 .. m |-> IF k = 0 THEN 0 ELSE g[k - 1] + f[k]]

LEMMA SumExists ==
    ASSUME NEW n \in Nat, NEW f, \A k \in 1 .. n : f[k] \in Int
    PROVE  \E g : Sums(f, n, g)
<1> DEFINE S == {m \in Nat : m <= n => \E g : Sums(f, m, g)}
<1>1. 0 \in S
  <2>1. PICK g : g = [k \in 0 .. 0 |-> 0]
    OBVIOUS
  <2>2. g = [k \in 0 .. 0 |-> IF k = 0 THEN 0 ELSE g[k - 1] + f[k]]
    BY <2>1
  <2>3. g \in [0 .. 0 -> Int]
    BY <2>1
  <2> QED  BY <2>2, <2>3 DEF Sums
<1>2. ASSUME NEW m \in S PROVE m + 1 \in S
  <2>1. m \in Nat /\ m + 1 \in Nat
    BY <1>2
  <2> SUFFICES ASSUME m + 1 <= n PROVE \E h : Sums(f, m + 1, h)
    BY <2>1
  <2>2. PICK g : Sums(f, m, g)
    BY <1>2, <2>1
  <2>3. f[m + 1] \in Int /\ g[m] \in Int
    BY <2>1, <2>2 DEF Sums
  <2>4. PICK h : h = [k \in 0 .. m + 1 |-> IF k = m + 1 THEN g[m] + f[m + 1] ELSE g[k]]
    OBVIOUS
  <2>5. \A k \in 0 .. m : g[k] = IF k = 0 THEN 0 ELSE g[k - 1] + f[k]
    BY <2>2 DEF Sums
  <2>6. h \in [0 .. m + 1 -> Int]
    <3>1. \A k \in 0 .. m + 1 : k # m + 1 => k \in 0 .. m
      BY <2>1
    <3> QED  BY <2>2, <2>3, <2>4, <3>1 DEF Sums
  <2>7. \A k \in 0 .. m + 1 : h[k] = IF k = 0 THEN 0 ELSE h[k - 1] + f[k]
    <3> SUFFICES ASSUME NEW k \in 0 .. m + 1 PROVE h[k] = IF k = 0 THEN 0 ELSE h[k - 1] + f[k]
      OBVIOUS
    <3>1. CASE k = m + 1
      <4>1. k # 0 /\ k - 1 = m /\ m \in 0 .. m + 1 /\ m # m + 1
        BY <2>1, <3>1
      <4>2. h[m] = g[m]
        BY <2>4, <4>1
      <4> QED  BY <2>4, <3>1, <4>1, <4>2
    <3>2. CASE k # m + 1
      <4>1. k \in 0 .. m /\ (k # 0 => k - 1 \in 0 .. m + 1 /\ k - 1 # m + 1)
        BY <2>1, <3>2
      <4>2. h[k] = g[k] /\ (k # 0 => h[k - 1] = g[k - 1])
        BY <2>4, <3>2, <4>1
      <4> QED  BY <2>5, <4>1, <4>2
    <3> QED  BY <3>1, <3>2
  <2>8. h = [k \in 0 .. m + 1 |-> IF k = 0 THEN 0 ELSE h[k - 1] + f[k]]
    BY <2>6, <2>7
  <2> QED  BY <2>6, <2>8 DEF Sums
<1>3. Nat \subseteq S
  <2>1. S \in SUBSET Nat
    OBVIOUS
  <2> HIDE DEF S
  <2> QED  BY <1>1, <1>2, <2>1, CountUp
<1> QED  BY <1>3

\* The sum that Total names is one.
LEMMA TotalIsSum ==
    ASSUME NEW n \in Nat, NEW f, \A k \in 1 .. n : f[k] \in Int
    PROVE  \E g : Sums(f, n, g) /\ Total(f, n) = g[n]
<1> DEFINE P(g) == g = [k \in 0 .. n |-> IF k = 0 THEN 0 ELSE g[k - 1] + f[k]]
<1>1. Total(f, n) = (CHOOSE g : P(g))[n]
  BY DEF Total
<1>2. \E g : P(g)
  <2>1. \E g : Sums(f, n, g)
    BY SumExists
  <2> QED  BY <2>1 DEF Sums
<1>3. PICK g : P(g) /\ Total(f, n) = g[n]
  BY <1>1, <1>2
<1>4. \A k \in 0 .. n : g[k] = IF k = 0 THEN 0 ELSE g[k - 1] + f[k]
  BY <1>3
<1> DEFINE S == {m \in Nat : m <= n => g[m] \in Int}
<1>5. 0 \in S
  BY <1>4
<1>6. ASSUME NEW m \in S PROVE m + 1 \in S
  <2>1. m \in Nat /\ m + 1 \in Nat /\ (m + 1 <= n => m + 1 \in 0 .. n /\ m + 1 \in 1 .. n /\ m + 1 # 0 /\ (m + 1) - 1 = m)
    BY <1>6
  <2>2. m + 1 <= n => g[m + 1] = g[m] + f[m + 1] /\ f[m + 1] \in Int /\ g[m] \in Int
    BY <1>4, <1>6, <2>1
  <2> QED  BY <2>1, <2>2
<1>7. Nat \subseteq S
  <2>1. S \in SUBSET Nat
    OBVIOUS
  <2> HIDE DEF S
  <2> QED  BY <1>5, <1>6, <2>1, CountUp
<1>8. \A k \in 0 .. n : g[k] \in Int
  BY <1>7
<1>9. g \in [0 .. n -> Int]
  BY <1>3, <1>8
<1> QED  BY <1>3, <1>9 DEF Sums

\* One more term.
LEMMA TotalStep ==
    ASSUME NEW n \in Nat, NEW f, \A k \in 1 .. n + 1 : f[k] \in Int
    PROVE  /\ Total(f, n + 1) = Total(f, n) + f[n + 1]
           /\ Total(f, n) \in Int /\ Total(f, 0) = 0
<1>0. \A k \in 1 .. n : k \in 1 .. n + 1
  OBVIOUS
<1>1. PICK s : Sums(f, n, s) /\ Total(f, n) = s[n]
  BY <1>0, TotalIsSum
<1>2. PICK t : Sums(f, n + 1, t) /\ Total(f, n + 1) = t[n + 1]
  <2>1. n + 1 \in Nat
    OBVIOUS
  <2> QED  BY <2>1, TotalIsSum
<1>3. PICK z : Sums(f, 0, z) /\ Total(f, 0) = z[0]
  BY TotalIsSum
<1>4. /\ \A k \in 0 .. n : s[k] \in Int /\ s[k] = IF k = 0 THEN 0 ELSE s[k - 1] + f[k]
      /\ \A k \in 0 .. n + 1 : t[k] \in Int /\ t[k] = IF k = 0 THEN 0 ELSE t[k - 1] + f[k]
      /\ z[0] = 0
  BY <1>1, <1>2, <1>3 DEF Sums
<1> DEFINE S == {m \in Nat : m <= n => t[m] = s[m]}
<1>5. 0 \in S
  BY <1>4
<1>6. ASSUME NEW m \in S PROVE m + 1 \in S
  <2>1. m \in Nat /\ m + 1 \in Nat /\ (m + 1 <= n => m + 1 \in 0 .. n /\ m + 1 \in 0 .. n + 1 /\ m + 1 # 0 /\ (m + 1) - 1 = m)
    BY <1>6
  <2>2. m + 1 <= n => s[m + 1] = s[m] + f[m + 1] /\ t[m + 1] = t[m] + f[m + 1] /\ t[m] = s[m]
    BY <1>4, <1>6, <2>1
  <2> QED  BY <2>1, <2>2
<1>7. Nat \subseteq S
  <2>1. S \in SUBSET Nat
    OBVIOUS
  <2> HIDE DEF S
  <2> QED  BY <1>5, <1>6, <2>1, CountUp
<1>8. t[n] = s[n]
  BY <1>7
<1>9. n + 1 \in 0 .. n + 1 /\ n + 1 # 0 /\ (n + 1) - 1 = n
  OBVIOUS
<1>10. t[n + 1] = t[n] + f[n + 1]
  BY <1>4, <1>9
<1>11. s[n] \in Int
  BY <1>4
<1> QED  BY <1>1, <1>2, <1>3, <1>4, <1>8, <1>10, <1>11

\* A sum moves by what one of its terms moves.
LEMMA TotalMoves ==
    ASSUME NEW n \in Nat, NEW f \in [1 .. n -> Int], NEW g \in [1 .. n -> Int],
           NEW m \in 1 .. n, \A k \in 1 .. n : k # m => g[k] = f[k]
    PROVE  /\ Total(g, n) = Total(f, n) + g[m] - f[m]
           /\ Total(f, n) \in Int /\ Total(g, n) \in Int
<1>1. PICK s : Sums(f, n, s) /\ Total(f, n) = s[n]
  BY TotalIsSum
<1>2. PICK t : Sums(g, n, t) /\ Total(g, n) = t[n]
  BY TotalIsSum
<1>3. /\ \A k \in 0 .. n : s[k] \in Int /\ s[k] = IF k = 0 THEN 0 ELSE s[k - 1] + f[k]
      /\ \A k \in 0 .. n : t[k] \in Int /\ t[k] = IF k = 0 THEN 0 ELSE t[k - 1] + g[k]
  BY <1>1, <1>2 DEF Sums
<1> DEFINE S == {j \in Nat : j <= n => t[j] = IF j < m THEN s[j] ELSE s[j] + g[m] - f[m]}
<1>4. 0 \in S
  BY <1>3
<1>5. ASSUME NEW j \in S PROVE j + 1 \in S
  <2> SUFFICES ASSUME j + 1 <= n PROVE t[j + 1] = IF j + 1 < m THEN s[j + 1] ELSE s[j + 1] + g[m] - f[m]
    BY <1>5
  <2>1. j \in Nat /\ j + 1 \in 0 .. n /\ j + 1 \in 1 .. n /\ j \in 0 .. n /\ j + 1 # 0 /\ (j + 1) - 1 = j
    BY <1>5
  <2>2. /\ s[j + 1] = s[j] + f[j + 1] /\ t[j + 1] = t[j] + g[j + 1]
        /\ s[j] \in Int /\ t[j] \in Int /\ f[j + 1] \in Int /\ g[j + 1] \in Int
        /\ g[m] \in Int /\ f[m] \in Int
    BY <1>3, <2>1
  <2>3. t[j] = IF j < m THEN s[j] ELSE s[j] + g[m] - f[m]
    BY <1>5, <2>1
  <2>4. j + 1 # m => g[j + 1] = f[j + 1]
    BY <2>1
  <2>5. PICK i, k, sj, tj, si, ti, fi, gi, fm, gm :
          /\ i = j + 1 /\ k = m /\ sj = s[j] /\ tj = t[j] /\ si = s[j + 1] /\ ti = t[j + 1]
          /\ fi = f[j + 1] /\ gi = g[j + 1] /\ fm = f[m] /\ gm = g[m]
    OBVIOUS
  <2>6. /\ j \in Nat /\ i = j + 1 /\ sj \in Int /\ tj \in Int /\ fi \in Int /\ gi \in Int
        /\ fm \in Int /\ gm \in Int /\ si = sj + fi /\ ti = tj + gi
    BY ONLY <2>1, <2>2, <2>5
  <2>7. k \in Nat
    BY ONLY <2>5, n \in Nat, m \in 1 .. n
  <2>8. tj = IF j < k THEN sj ELSE sj + gm - fm
    BY ONLY <2>3, <2>5
  <2>9. /\ i # k => gi = fi
        /\ i = k => gi = gm /\ fi = fm
    BY ONLY <2>4, <2>5
  <2>10. ti = IF i < k THEN si ELSE si + gm - fm
    BY ONLY <2>6, <2>7, <2>8, <2>9
  <2> QED  BY ONLY <2>5, <2>10
<1>6. Nat \subseteq S
  <2>1. S \in SUBSET Nat
    OBVIOUS
  <2> HIDE DEF S
  <2> QED  BY <1>4, <1>5, <2>1, CountUp
<1>7. t[n] = s[n] + g[m] - f[m]
  BY <1>6
<1> QED  BY <1>1, <1>2, <1>3, <1>7

LEMMA TotalIsInt ==
    ASSUME NEW n \in Nat, NEW f \in [1 .. n -> Int]
    PROVE  Total(f, n) \in Int
<1>1. PICK s : Sums(f, n, s) /\ Total(f, n) = s[n]
  BY TotalIsSum
<1> QED  BY <1>1 DEF Sums

\* Nothing but zeros adds up to zero.
LEMMA TotalOfZeros ==
    ASSUME NEW n \in Nat, NEW f, f = [k \in 1 .. n |-> 0]
    PROVE  Total(f, n) = 0
<1>1. f \in [1 .. n -> Int]
  OBVIOUS
<1>2. PICK g : Sums(f, n, g) /\ Total(f, n) = g[n]
  BY <1>1, TotalIsSum
<1>3. \A k \in 0 .. n : g[k] = IF k = 0 THEN 0 ELSE g[k - 1] + f[k]
  BY <1>2 DEF Sums
<1> DEFINE S == {m \in Nat : m <= n => g[m] = 0}
<1>4. 0 \in S
  BY <1>3
<1>5. ASSUME NEW m \in S PROVE m + 1 \in S
  <2>1. m \in Nat /\ m + 1 \in Nat /\ (m + 1 <= n => m + 1 \in 0 .. n /\ m + 1 \in 1 .. n /\ m + 1 # 0 /\ (m + 1) - 1 = m)
    BY <1>5
  <2>2. m + 1 <= n => g[m + 1] = g[m] + f[m + 1] /\ f[m + 1] = 0 /\ g[m] = 0
    BY <1>3, <1>5, <2>1
  <2> QED  BY <2>1, <2>2
<1>6. Nat \subseteq S
  <2>1. S \in SUBSET Nat
    OBVIOUS
  <2> HIDE DEF S
  <2> QED  BY <1>4, <1>5, <2>1, CountUp
<1>7. n \in S
  BY <1>6
<1> QED  BY <1>2, <1>7

\* Totals of natural numbers.
LEMMA TotalIsNat ==
    ASSUME NEW n \in Nat, NEW f, \A k \in 1 .. n : f[k] \in Nat
    PROVE  Total(f, n) \in Nat
<1> DEFINE S == {m \in Nat : m <= n => Total(f, m) \in Nat}
<1>1. \A k \in 1 .. n : f[k] \in Int
  OBVIOUS
<1>2. Total(f, 0) = 0
  BY <1>1, TotalIsSum DEF Sums
<1>3. 0 \in S
  BY <1>2
<1>4. ASSUME NEW m \in S PROVE m + 1 \in S
  <2> SUFFICES ASSUME m + 1 <= n PROVE Total(f, m + 1) \in Nat
    BY <1>4
  <2>1. m \in Nat /\ Total(f, m) \in Nat /\ \A k \in 1 .. m + 1 : f[k] \in Int
    BY <1>1, <1>4
  <2>2. Total(f, m + 1) = Total(f, m) + f[m + 1]
    BY ONLY <2>1, TotalStep
  <2>3. f[m + 1] \in Nat
    BY <2>1
  <2> QED  BY <2>1, <2>2, <2>3
<1>5. Nat \subseteq S
  <2>1. S \in SUBSET Nat
    OBVIOUS
  <2> HIDE DEF S
  <2> QED  BY <1>3, <1>4, <2>1, CountUp
<1> QED  BY <1>5

LEMMA TotalOfNone == ASSUME NEW f PROVE Total(f, 0) = 0
<1>1. \A k \in 1 .. 0 : f[k] \in Int
  OBVIOUS
<1>2. PICK g : Sums(f, 0, g) /\ Total(f, 0) = g[0]
  BY <1>1, TotalIsSum
<1> QED  BY <1>2 DEF Sums

\* Equal terms, equal totals.
LEMMA TotalSame ==
    ASSUME NEW n \in Nat, NEW f, NEW g, \A k \in 1 .. n : f[k] \in Int /\ g[k] = f[k]
    PROVE  Total(g, n) = Total(f, n)
<1> DEFINE S == {m \in Nat : m <= n => Total(g, m) = Total(f, m)}
<1>3. 0 \in S
  BY TotalOfNone
<1>4. ASSUME NEW m \in S PROVE m + 1 \in S
  <2> SUFFICES ASSUME m + 1 <= n PROVE Total(g, m + 1) = Total(f, m + 1)
    BY <1>4
  <2>1. m \in Nat /\ Total(g, m) = Total(f, m) /\ \A k \in 1 .. m + 1 : f[k] \in Int /\ g[k] \in Int
    BY <1>4
  <2>2. Total(f, m + 1) = Total(f, m) + f[m + 1]
    BY ONLY <2>1, TotalStep
  <2>3. Total(g, m + 1) = Total(g, m) + g[m + 1]
    BY ONLY <2>1, TotalStep
  <2>4. f[m + 1] = g[m + 1]
    BY <2>1
  <2> QED  BY <2>1, <2>2, <2>3, <2>4
<1>5. Nat \subseteq S
  <2>1. S \in SUBSET Nat
    OBVIOUS
  <2> HIDE DEF S
  <2> QED  BY <1>3, <1>4, <2>1, CountUp
<1> QED  BY <1>5

\* g is f with a term put in at p.
PutIn(n, f, g, p) ==
    /\ n \in Nat /\ p \in 1 .. n + 1
    /\ \A k \in 1 .. n : f[k] \in Int
    /\ g[p] \in Int
    /\ \A k \in 1 .. n + 1 : /\ k < p => g[k] = f[k]
                             /\ p < k => g[k] = f[k - 1]

\* A total grows by the term put in.
LEMMA TotalWith ==
    ASSUME NEW n, NEW f, NEW g, NEW p, PutIn(n, f, g, p)
    PROVE  Total(g, n + 1) = Total(f, n) + g[p]
<1> n \in Nat /\ p \in 1 .. n + 1 /\ \A k \in 1 .. n : f[k] \in Int
  BY DEF PutIn
<1>0. /\ g[p] \in Int
      /\ \A k \in 1 .. n + 1 : /\ k < p => g[k] = f[k]
                               /\ p < k => g[k] = f[k - 1]
  BY DEF PutIn
<1>1. \A k \in 1 .. n + 1 : g[k] \in Int
  <2> TAKE k \in 1 .. n + 1
  <2>1. (k < p => k \in 1 .. n) /\ (p < k => k - 1 \in 1 .. n)
    OBVIOUS
  <2> QED  BY <1>0, <2>1
<1>2. ASSUME NEW m \in Nat, m + 1 <= n
      PROVE  /\ Total(f, m + 1) = Total(f, m) + f[m + 1] /\ Total(f, m) \in Int
             /\ f[m + 1] \in Int
  <2>1. \A k \in 1 .. m + 1 : f[k] \in Int
    BY <1>2
  <2>2. Total(f, m + 1) = Total(f, m) + f[m + 1] /\ Total(f, m) \in Int
    BY ONLY <2>1, TotalStep, m \in Nat
  <2> QED  BY <1>2, <2>2
<1>3. ASSUME NEW m \in Nat, m <= n
      PROVE  /\ Total(g, m + 1) = Total(g, m) + g[m + 1] /\ Total(g, m) \in Int
             /\ g[m + 1] \in Int
  <2>1. \A k \in 1 .. m + 1 : g[k] \in Int
    BY <1>1, <1>3
  <2>2. Total(g, m + 1) = Total(g, m) + g[m + 1] /\ Total(g, m) \in Int
    BY ONLY <2>1, TotalStep, m \in Nat
  <2> QED  BY <1>1, <1>3, <2>2
<1> DEFINE S == {m \in Nat : m <= n =>
                  /\ m + 1 < p => Total(g, m + 1) = Total(f, m) + g[m + 1]
                  /\ m < p => Total(g, m) = Total(f, m)
                  /\ p <= m + 1 => Total(g, m + 1) = Total(f, m) + g[p]}
<1>4. 0 \in S
  <2>1. Total(g, 0) = 0 /\ Total(f, 0) = 0
    BY TotalOfNone
  <2>2. Total(g, 0 + 1) = Total(g, 0) + g[0 + 1] /\ g[0 + 1] \in Int
    BY ONLY <1>3, n \in Nat
  <2>3. p <= 0 + 1 => p = 0 + 1
    OBVIOUS
  <2> QED  BY <2>1, <2>2, <2>3
<1>5. ASSUME NEW m \in S PROVE m + 1 \in S
  <2> SUFFICES ASSUME m + 1 <= n PROVE m + 1 \in S
    BY <1>5
  <2>0. m \in Nat /\ m + 1 \in Nat /\ m <= n /\ (m + 1) + 1 \in 1 .. n + 1 /\ m + 1 \in 1 .. n + 1 /\ m + 1 \in 1 .. n
    BY <1>5
  <2>1. /\ m < p => Total(g, m) = Total(f, m)
        /\ p <= m + 1 => Total(g, m + 1) = Total(f, m) + g[p]
    BY <1>5, <2>0
  <2>2. /\ Total(f, m + 1) = Total(f, m) + f[m + 1] /\ Total(f, m) \in Int /\ f[m + 1] \in Int
    BY <1>2, <2>0
  <2>3. /\ Total(g, m + 1) = Total(g, m) + g[m + 1] /\ Total(g, m) \in Int /\ g[m + 1] \in Int
    BY <1>3, <2>0
  <2>4. /\ Total(g, (m + 1) + 1) = Total(g, m + 1) + g[(m + 1) + 1] /\ Total(g, m + 1) \in Int
        /\ g[(m + 1) + 1] \in Int
    BY <1>3, <2>0
  <2>5. /\ m + 1 < p => g[m + 1] = f[m + 1]
        /\ p < (m + 1) + 1 => g[(m + 1) + 1] = f[m + 1]
        /\ p <= (m + 1) + 1 => p = (m + 1) + 1 \/ p <= m + 1
    BY <1>0, <2>0
  <2>6. m + 1 < p => Total(g, m + 1) = Total(f, m + 1)
    BY <2>0, <2>1, <2>2, <2>3, <2>5
  <2>7. p <= m + 1 => Total(g, (m + 1) + 1) = Total(f, m + 1) + g[p]
    BY <1>0, <2>0, <2>1, <2>2, <2>4, <2>5
  <2>8. p = (m + 1) + 1 => Total(g, (m + 1) + 1) = Total(f, m + 1) + g[p]
    BY <2>0, <2>4, <2>6
  <2>9. (m + 1) + 1 < p => Total(g, (m + 1) + 1) = Total(f, m + 1) + g[(m + 1) + 1]
    BY <2>0, <2>4, <2>6
  <2> QED  BY <2>0, <2>5, <2>6, <2>7, <2>8, <2>9
<1>6. Nat \subseteq S
  <2>1. S \in SUBSET Nat
    OBVIOUS
  <2> HIDE DEF S
  <2> QED  BY <1>4, <1>5, <2>1, CountUp
<1>7. n \in S /\ p <= n + 1
  BY <1>6
<1> QED  BY <1>7
=============================================================================
