------------------------ MODULE IvfflatKmeansProofs ------------------------
(****************************************************************************)
(* The bounds that let Elkan's algorithm skip distances are bounds of them  *)
(* (BoundsHold), every sample ends an iteration at a closest center         *)
(* (ClosestAssigned), and the sum of the squared distances never grows from *)
(* one iteration to the next (InertiaFalls).                                *)
(*                                                                          *)
(* The sums of ComputeNewCenters are recursive functions, so the facts      *)
(* about them come first: a sum exists, is monotone, splits and is          *)
(* invariant under equal terms.  Each is shown from the least index at      *)
(* which it could fail.                                                     *)
(****************************************************************************)
EXTENDS IvfflatKmeans, WellFoundedInduction, TLAPS

LEMMA LeastNat ==
  ASSUME NEW T, T \subseteq Nat, T # {}
  PROVE  \E n \in T : \A m \in T : n <= m
<1>1. PICK n \in T : \A m \in T : ~(<<m, n>> \in OpToRel(<, Nat))
  BY WFMin, NatLessThanWellFounded, Zenon
<1>2. ASSUME NEW m \in T, m < n PROVE FALSE
  <2>1. <<m, n>> \in OpToRel(<, Nat)
    BY <1>2, SMTT(30), Z3T(30) DEF OpToRel
  <2>. QED BY <1>1, <2>1, Zenon
<1>3. \A m \in T : n <= m
  BY <1>2, SMTT(30), Z3T(30)
<1>. QED BY <1>3, Zenon

\* The sums a loop over n numbers goes through
Sums(s, f, n) ==
  s \in [0 .. n -> Int] /\ s[0] = 0 /\ \A j \in 1 .. n : s[j] = s[j - 1] + f[j]

LEMMA SumsExist ==
  ASSUME NEW n \in Nat, NEW f \in [1 .. n -> Int]
  PROVE  \E s : Sums(s, f, n)
<1> DEFINE T == {m \in Nat : m <= n /\ ~\E s : Sums(s, f, m)}
<1> SUFFICES ASSUME n \in T PROVE FALSE
  BY SMTT(30), Z3T(30)
<1>1. PICK m \in T : \A i \in T : m <= i
  <2>1. T \subseteq Nat
    BY SMTT(30), Z3T(30)
  <2> HIDE DEF T
  <2>. QED BY <2>1, LeastNat, Zenon
<1>2. m \in Nat /\ m <= n /\ ~\E s : Sums(s, f, m)
  BY SMTT(30), Z3T(30)
<1>3. m # 0
  <2>1. Sums([i \in 0 .. 0 |-> 0], f, 0)
    BY SMTT(30), Z3T(30) DEF Sums
  <2>. QED BY <1>2, <2>1, SMTT(30), Z3T(30)
<1>4. m - 1 \in Nat /\ m - 1 <= n /\ m - 1 \notin T
  BY <1>1, <1>2, <1>3, SMTT(30), Z3T(30)
<1>5. PICK s : Sums(s, f, m - 1)
  BY <1>4, SMTT(30), Z3T(30)
<1> DEFINE t == [i \in 0 .. m |-> IF i = m THEN s[m - 1] + f[m] ELSE s[i]]
<1>6. s \in [0 .. m - 1 -> Int] /\ s[0] = 0 /\ \A j \in 1 .. m - 1 : s[j] = s[j - 1] + f[j]
  BY <1>5, SMTT(30), Z3T(30) DEF Sums
<1>7. t \in [0 .. m -> Int] /\ t[0] = 0
  BY <1>2, <1>3, <1>6, SMTT(30), Z3T(30)
<1>8. \A j \in 1 .. m : t[j] = t[j - 1] + f[j]
  BY <1>2, <1>3, <1>6, SMTT(30), Z3T(30)
<1>9. Sums(t, f, m)
  BY <1>7, <1>8, Zenon DEF Sums
<1>. QED BY <1>2, <1>9, SMTT(30), Z3T(30)

LEMMA TotalSums ==
  ASSUME NEW n \in Nat, NEW f \in [1 .. n -> Int]
  PROVE  \E s : Sums(s, f, n) /\ Total(f, n) = s[n]
<1> DEFINE Eq(s) == s = [j \in 0 .. n |-> IF j = 0 THEN 0 ELSE s[j - 1] + f[j]]
<1>1. PICK s : Sums(s, f, n)
  BY SumsExist, SMTT(30), Z3T(30)
<1>2. Eq(s)
  BY <1>1, SMTT(30), Z3T(30) DEF Sums
<1>3. Eq(CHOOSE r : Eq(r)) /\ Total(f, n) = (CHOOSE r : Eq(r))[n]
  <2>1. Eq(CHOOSE r : Eq(r))
    <3> HIDE DEF Eq
    <3>. QED BY <1>2, Zenon
  <2>2. Total(f, n) = (CHOOSE r : Eq(r))[n]
    BY Zenon DEF Total
  <2>. QED BY <2>1, <2>2, Zenon
<1>4. PICK r : Eq(r) /\ Total(f, n) = r[n]
  <2> HIDE DEF Eq
  <2>. QED BY <1>3, Zenon
<1>5. r[0] = 0 /\ \A j \in 1 .. n : r[j] = r[j - 1] + f[j]
  BY <1>4, SMTT(30), Z3T(30)
<1>6. r = s
  <2> DEFINE T == {i \in 0 .. n : r[i] # s[i]}
  <2>0. s \in [0 .. n -> Int] /\ s[0] = 0 /\ \A j \in 1 .. n : s[j] = s[j - 1] + f[j]
    BY <1>1, SMTT(30), Z3T(30) DEF Sums
  <2>1. SUFFICES T = {}
    <3>1. \A i \in 0 .. n : r[i] = s[i]
      BY <2>1, SMTT(30), Z3T(30)
    <3>2. r = [i \in 0 .. n |-> r[i]] /\ s = [i \in 0 .. n |-> s[i]]
      BY <1>4, <2>0, SMTT(30), Z3T(30)
    <3>. QED BY <3>1, <3>2, SMTT(30), Z3T(30)
  <2>2. SUFFICES ASSUME T # {} PROVE FALSE
    BY SMTT(30), Z3T(30)
  <2>3. PICK m \in T : \A i \in T : m <= i
    <3>1. T \subseteq Nat
      BY SMTT(30), Z3T(30)
    <3> HIDE DEF T
    <3>. QED BY <2>2, <3>1, LeastNat, Zenon
  <2>4. m \in 1 .. n /\ r[m] # s[m]
    BY <1>5, <2>0, SMTT(30), Z3T(30)
  <2>5. m - 1 \in 0 .. n /\ m - 1 \notin T
    BY <2>3, <2>4, SMTT(30), Z3T(30)
  <2>6. r[m - 1] = s[m - 1]
    BY <2>5, SMTT(30), Z3T(30)
  <2>. QED BY <1>5, <2>0, <2>4, <2>6, Zenon
<1>. QED BY <1>1, <1>4, <1>6, Zenon

LEMMA UpTo ==
  ASSUME NEW n \in Nat, NEW T, 0 \in T, \A m \in 1 .. n : m - 1 \in T => m \in T
  PROVE  n \in T
<1> DEFINE B == {m \in 0 .. n : m \notin T}
<1> SUFFICES ASSUME n \notin T PROVE FALSE
  BY SMTT(30), Z3T(30)
<1>0. B # {}
  BY SMTT(30), Z3T(30)
<1>1. PICK m \in B : \A i \in B : m <= i
  <2>1. B \subseteq Nat
    BY SMTT(30), Z3T(30)
  <2> HIDE DEF B
  <2>. QED BY <1>0, <2>1, LeastNat, Zenon
<1>2. m \in 1 .. n /\ m \notin T
  BY SMTT(30), Z3T(30)
<1>3. m - 1 \in 0 .. n /\ m - 1 \notin B
  BY <1>1, <1>2, SMTT(30), Z3T(30)
<1>. QED BY <1>2, <1>3, SMTT(30), Z3T(30)

LEMMA TotalType ==
  ASSUME NEW n \in Nat, NEW f \in [1 .. n -> Int]
  PROVE  Total(f, n) \in Int
<1>1. PICK s : Sums(s, f, n) /\ Total(f, n) = s[n]
  BY TotalSums, SMTT(30), Z3T(30)
<1>. QED BY <1>1, SMTT(30), Z3T(30) DEF Sums

LEMMA TotalMonotone ==
  ASSUME NEW n \in Nat, NEW f \in [1 .. n -> Int], NEW g \in [1 .. n -> Int],
         \A j \in 1 .. n : f[j] <= g[j]
  PROVE  Total(f, n) <= Total(g, n)
<1>1. PICK s : Sums(s, f, n) /\ Total(f, n) = s[n]
  BY TotalSums, SMTT(30), Z3T(30)
<1>2. PICK t : Sums(t, g, n) /\ Total(g, n) = t[n]
  BY TotalSums, SMTT(30), Z3T(30)
<1> DEFINE T == {m \in 0 .. n : s[m] <= t[m]}
<1>3. 0 \in T
  BY <1>1, <1>2, SMTT(30), Z3T(30) DEF Sums
<1>4. ASSUME NEW m \in 1 .. n, m - 1 \in T PROVE m \in T
  BY <1>1, <1>2, <1>4, SMTT(30), Z3T(30) DEF Sums
<1>5. n \in T
  <2> HIDE DEF T
  <2>1. \A m \in 1 .. n : m - 1 \in T => m \in T
    BY <1>4, SMTT(30), Z3T(30)
  <2>. QED BY <1>3, <2>1, UpTo, Zenon
<1>. QED BY <1>1, <1>2, <1>5, SMTT(30), Z3T(30)

LEMMA TotalAdd ==
  ASSUME NEW n \in Nat, NEW f \in [1 .. n -> Int], NEW g \in [1 .. n -> Int],
         NEW h \in [1 .. n -> Int], \A j \in 1 .. n : h[j] = f[j] + g[j]
  PROVE  Total(h, n) = Total(f, n) + Total(g, n)
<1>1. PICK s : Sums(s, f, n) /\ Total(f, n) = s[n]
  BY TotalSums, SMTT(30), Z3T(30)
<1>2. PICK t : Sums(t, g, n) /\ Total(g, n) = t[n]
  BY TotalSums, SMTT(30), Z3T(30)
<1>3. PICK u : Sums(u, h, n) /\ Total(h, n) = u[n]
  BY TotalSums, SMTT(30), Z3T(30)
<1> DEFINE T == {m \in 0 .. n : u[m] = s[m] + t[m]}
<1>4. 0 \in T
  BY <1>1, <1>2, <1>3, SMTT(30), Z3T(30) DEF Sums
<1>5. ASSUME NEW m \in 1 .. n, m - 1 \in T PROVE m \in T
  BY <1>1, <1>2, <1>3, <1>5, SMTT(30), Z3T(30) DEF Sums
<1>6. n \in T
  <2> HIDE DEF T
  <2>1. \A m \in 1 .. n : m - 1 \in T => m \in T
    BY <1>5, SMTT(30), Z3T(30)
  <2>. QED BY <1>4, <2>1, UpTo, Zenon
<1>. QED BY <1>1, <1>2, <1>3, <1>6, SMTT(30), Z3T(30)

LEMMA Square ==
  ASSUME NEW x \in Int, NEW a \in Int, NEW b \in Int
  PROVE  (x - a) * (x - a) - (x - b) * (x - b) = (b - a) * (2 * x - (a + b))
BY SMTT(30), Z3T(30)

LEMMA SquareStep ==
  ASSUME NEW a \in Int, NEW b \in Int, NEW x \in Int, NEW s \in Int, NEW c \in Int
  PROVE  (b - a) * (2 * s - (a + b) * c) + (b - a) * (2 * x - (a + b))
           = (b - a) * (2 * (s + x) - (a + b) * (c + 1))
BY SMTT(30), Z3T(30)

\* One for each sample of center k, the samples of center k, and what a move of center k from
\* b to a adds to their squared distances
Ones(c, k, n) == [j \in 1 .. n |-> IF c[j] = k THEN 1 ELSE 0]
Own(x, c, k, n) == [j \in 1 .. n |-> IF c[j] = k THEN x[j] ELSE 0]
Moved(x, c, k, a, b, n) ==
  [j \in 1 .. n |-> IF c[j] = k THEN (x[j] - a) * (x[j] - a) - (x[j] - b) * (x[j] - b) ELSE 0]

MovedTotal(x, c, k, a, b, n) ==
  Total(Moved(x, c, k, a, b, n), n)
    = (b - a) * (2 * Total(Own(x, c, k, n), n) - (a + b) * Total(Ones(c, k, n), n))

\* What moving center k from b to a does to the sum of the squared distances
LEMMA TotalMoved ==
  ASSUME NEW n \in Nat, NEW x \in [1 .. n -> Int], NEW c, NEW k, NEW a \in Int, NEW b \in Int
  PROVE  MovedTotal(x, c, k, a, b, n)
<1> USE DEF MovedTotal, Moved, Own, Ones
<1> DEFINE f == Moved(x, c, k, a, b, n)
           g == Own(x, c, k, n)
           h == Ones(c, k, n)
<1>0. f \in [1 .. n -> Int] /\ g \in [1 .. n -> Int] /\ h \in [1 .. n -> Int]
  BY SMTT(30), Z3T(30)
<1>1. PICK s : Sums(s, f, n) /\ Total(f, n) = s[n]
  BY <1>0, TotalSums, Zenon
<1>2. PICK t : Sums(t, g, n) /\ Total(g, n) = t[n]
  BY <1>0, TotalSums, Zenon
<1>3. PICK u : Sums(u, h, n) /\ Total(h, n) = u[n]
  BY <1>0, TotalSums, Zenon
<1> DEFINE T == {m \in 0 .. n : s[m] = (b - a) * (2 * t[m] - (a + b) * u[m])}
<1>4. 0 \in T
  BY <1>1, <1>2, <1>3, SMTT(30), Z3T(30) DEF Sums
<1>5. ASSUME NEW m \in 1 .. n, m - 1 \in T PROVE m \in T
  <2>1. /\ t[m - 1] \in Int /\ u[m - 1] \in Int
        /\ s[m - 1] = (b - a) * (2 * t[m - 1] - (a + b) * u[m - 1])
    BY <1>2, <1>3, <1>5, Zenon DEF Sums
  <2>2. s[m] = s[m - 1] + f[m] /\ t[m] = t[m - 1] + g[m] /\ u[m] = u[m - 1] + h[m]
    BY <1>1, <1>2, <1>3, Zenon DEF Sums
  <2>3. CASE c[m] = k
    <3>1. f[m] = (b - a) * (2 * x[m] - (a + b)) /\ g[m] = x[m] /\ h[m] = 1 /\ x[m] \in Int
      BY <2>3, Square, ZenonT(30)
    <3>2. s[m] = (b - a) * (2 * t[m - 1] - (a + b) * u[m - 1]) + (b - a) * (2 * x[m] - (a + b))
      BY <2>1, <2>2, <3>1, Zenon
    <3>3. s[m] = (b - a) * (2 * (t[m - 1] + x[m]) - (a + b) * (u[m - 1] + 1))
      <4>1. (b - a) * (2 * t[m - 1] - (a + b) * u[m - 1]) + (b - a) * (2 * x[m] - (a + b))
              = (b - a) * (2 * (t[m - 1] + x[m]) - (a + b) * (u[m - 1] + 1))
        <5> DEFINE y == x[m]
                   p == t[m - 1]
                   q == u[m - 1]
        <5>1. y \in Int /\ p \in Int /\ q \in Int
          BY <2>1, <3>1, SMTT(30), Z3T(30)
        <5>2. (b - a) * (2 * p - (a + b) * q) + (b - a) * (2 * y - (a + b))
                = (b - a) * (2 * (p + y) - (a + b) * (q + 1))
          <6> HIDE DEF y, p, q
          <6>. QED BY <5>1, SquareStep, SMTT(30), Z3T(30)
        <5>. QED BY <5>2, SMTT(30), Z3T(30)
      <4>. QED BY <3>2, <4>1, Zenon
    <3>. QED BY <2>2, <3>1, <3>3, SMTT(30), Z3T(30)
  <2>4. CASE c[m] # k
    <3>1. f[m] = 0 /\ g[m] = 0 /\ h[m] = 0
      BY <2>4, SMTT(30), Z3T(30)
    <3>2. s[m] = s[m - 1] /\ t[m] = t[m - 1] /\ u[m] = u[m - 1]
      <4>1. s[m - 1] \in Int
        BY <1>1, SMTT(30), Z3T(30) DEF Sums
      <4>. QED BY <2>1, <2>2, <3>1, <4>1, SMTT(30), Z3T(30)
    <3>. QED BY <2>1, <3>2, SMTT(30), Z3T(30)
  <2>. QED BY <2>3, <2>4, Zenon
<1>6. n \in T
  <2> HIDE DEF T
  <2>1. \A m \in 1 .. n : m - 1 \in T => m \in T
    BY <1>5, SMTT(30), Z3T(30)
  <2>. QED BY <1>4, <2>1, UpTo, Zenon
<1>. QED BY <1>1, <1>2, <1>3, <1>6, SMTT(30), Z3T(30)

LEMMA TotalCount ==
  ASSUME NEW n \in Nat, NEW x \in [1 .. n -> Int], NEW c, NEW k
  PROVE  /\ Total(Ones(c, k, n), n) \in 0 .. n
         /\ Total(Ones(c, k, n), n) = 0 => Total(Own(x, c, k, n), n) = 0
<1> USE DEF Own, Ones
<1> DEFINE g == Own(x, c, k, n)
           h == Ones(c, k, n)
<1>0. g \in [1 .. n -> Int] /\ h \in [1 .. n -> Int]
  BY SMTT(30), Z3T(30)
<1>1. PICK t : Sums(t, g, n) /\ Total(g, n) = t[n]
  BY <1>0, TotalSums, Zenon
<1>2. PICK u : Sums(u, h, n) /\ Total(h, n) = u[n]
  BY <1>0, TotalSums, Zenon
<1> DEFINE T == {m \in 0 .. n : u[m] \in 0 .. m /\ (u[m] = 0 => t[m] = 0)}
<1>4. 0 \in T
  BY <1>1, <1>2, SMTT(30), Z3T(30) DEF Sums
<1>5. ASSUME NEW m \in 1 .. n, m - 1 \in T PROVE m \in T
  <2>1. t[m] = t[m - 1] + g[m] /\ u[m] = u[m - 1] + h[m]
    BY <1>1, <1>2, Zenon DEF Sums
  <2>2. (h[m] = 0 /\ g[m] = 0) \/ h[m] = 1
    BY SMTT(30), Z3T(30)
  <2>. QED BY <1>5, <2>1, <2>2, SMTT(30), Z3T(30)
<1>6. n \in T
  <2> HIDE DEF T
  <2>1. \A m \in 1 .. n : m - 1 \in T => m \in T
    BY <1>5, SMTT(30), Z3T(30)
  <2>. QED BY <1>4, <2>1, UpTo, Zenon
<1>. QED BY <1>1, <1>2, <1>6, SMTT(30), Z3T(30)

LEMMA Quotient ==
  ASSUME NEW d \in Nat \ {0}, NEW x \in Int, x % d = 0
  PROVE  x \div d \in Int /\ x = (x \div d) * d
BY SMTT(30), Z3T(30)

LEMMA Small ==
  ASSUME NEW d \in Nat \ {0}, NEW p \in Int, 0 <= p * d, p * d < d
  PROVE  p = 0
<1>1. CASE p >= 1
  <2>1. (p - 1) * d >= 0
    BY <1>1, SMTT(30), Z3T(30)
  <2>2. (p - 1) * d = p * d - d
    BY SMTT(30), Z3T(30)
  <2>3. p * d \in Int
    BY SMTT(30), Z3T(30)
  <2>. QED BY <2>1, <2>2, <2>3, SMTT(30), Z3T(30)
<1>2. CASE p <= -1
  <2>1. (-p) * d >= 1
    BY <1>2, SMTT(30), Z3T(30)
  <2>2. (-p) * d = -(p * d)
    BY SMTT(30), Z3T(30)
  <2>3. p * d \in Int
    BY SMTT(30), Z3T(30)
  <2>. QED BY <2>1, <2>2, <2>3, SMTT(30), Z3T(30)
<1>. QED BY <1>1, <1>2, SMTT(30), Z3T(30)

LEMMA Multiple ==
  ASSUME NEW d \in Nat \ {0}, NEW q \in Int
  PROVE  (q * d) % d = 0
<1>1. q * d \in Int
  BY SMTT(30), Z3T(30)
<1> DEFINE z == q * d
           w == z \div d
           e == z % d
<1>2. w \in Int /\ e \in Int /\ 0 <= e /\ e < d /\ z = w * d + e
  <2>1. z \in Int
    BY <1>1, SMTT(30), Z3T(30)
  <2> HIDE DEF z
  <2>. QED BY <2>1, SMTT(30), Z3T(30)
<1>3. (q - w) * d = q * d - w * d /\ w * d \in Int
  BY <1>2, SMTT(30), Z3T(30)
<1>4. (q - w) * d = e
  BY <1>1, <1>2, <1>3, SMTT(30), Z3T(30)
<1>5. q - w = 0
  BY <1>2, <1>4, Small, SMTT(30), Z3T(30)
<1>6. e = 0
  BY <1>4, <1>5, SMTT(30), Z3T(30)
<1>. QED BY <1>6, SMTT(30), Z3T(30)

LEMMA Multiples ==
  ASSUME NEW d \in Nat \ {0}, NEW x \in Int, NEW y \in Int, x % d = 0, y % d = 0
  PROVE  (x + y) % d = 0
<1>1. PICK q \in Int : x = q * d
  BY Quotient, Zenon
<1>2. PICK p \in Int : y = p * d
  BY Quotient, Zenon
<1>3. x + y = (q + p) * d /\ q + p \in Int
  BY <1>1, <1>2, SMTT(30), Z3T(30)
<1>. QED BY <1>3, Multiple, ZenonT(30)

LEMMA TotalMultiple ==
  ASSUME NEW n \in Nat, NEW d \in Nat \ {0}, NEW f \in [1 .. n -> Int],
         \A j \in 1 .. n : f[j] % d = 0
  PROVE  Total(f, n) % d = 0
<1>1. PICK s : Sums(s, f, n) /\ Total(f, n) = s[n]
  BY TotalSums, SMTT(30), Z3T(30)
<1> DEFINE T == {m \in 0 .. n : s[m] % d = 0}
<1>3. 0 \in T
  BY <1>1, SMTT(30), Z3T(30) DEF Sums
<1>4. ASSUME NEW m \in 1 .. n, m - 1 \in T PROVE m \in T
  <2>1. s[m] = s[m - 1] + f[m] /\ s[m - 1] \in Int /\ f[m] \in Int /\ s[m - 1] % d = 0
    BY <1>1, <1>4, Zenon DEF Sums
  <2>2. s[m] % d = 0
    BY <2>1, Multiples, ZenonT(30)
  <2>. QED BY <2>2, SMTT(30), Z3T(30)
<1>5. n \in T
  <2> HIDE DEF T
  <2>1. \A m \in 1 .. n : m - 1 \in T => m \in T
    BY <1>4, SMTT(30), Z3T(30)
  <2>. QED BY <1>3, <2>1, UpTo, Zenon
<1>. QED BY <1>1, <1>5, SMTT(30), Z3T(30)

LEMMA SquareNat ==
  ASSUME NEW a \in Int
  PROVE  a * a \in Nat
BY SMTT(30), Z3T(30)

LEMMA MeanBest ==
  ASSUME NEW a \in Int, NEW b \in Int, NEW c \in Nat, NEW s \in Int, s = a * c
  PROVE  (b - a) * (2 * s - (a + b) * c) <= 0
<1> DEFINE q == (b - a) * (b - a)
<1>1. (b - a) * (2 * s - (a + b) * c) = -(q * c)
  BY SMTT(30), Z3T(30)
<1>2. q \in Nat
  BY SquareNat, SMTT(30), Z3T(30)
<1> HIDE DEF q
<1>3. q * c \in Nat
  BY <1>2, SMTT(30), Z3T(30)
<1>. QED BY <1>1, <1>3, SMTT(30), Z3T(30)

\* The sum of the squared distances of x to the centers c they are assigned to
Squares(x, c, ctr, n) == Total([j \in 1 .. n |-> (x[j] - ctr[c[j]]) * (x[j] - ctr[c[j]])], n)

\* Moving each center to the mean of its samples, or anywhere if it has none, does not make
\* the sum of the squared distances grow.
LEMMA MeansBetter ==
  ASSUME NEW n \in Nat, NEW x \in [1 .. n -> Int], NEW K \in Nat, NEW c \in [1 .. n -> 1 .. K],
         NEW old \in [1 .. K -> Int], NEW new \in [1 .. K -> Int],
         \A k \in 1 .. K :
           \/ Total(Ones(c, k, n), n) = 0
           \/ Total(Own(x, c, k, n), n) = new[k] * Total(Ones(c, k, n), n)
  PROVE  Squares(x, c, new, n) <= Squares(x, c, old, n)
<1> DEFINE mix(m) == [k \in 1 .. K |-> IF k <= m THEN new[k] ELSE old[k]]
           sq(m) == [j \in 1 .. n |-> (x[j] - mix(m)[c[j]]) * (x[j] - mix(m)[c[j]])]
           T == {m \in 0 .. K : Total(sq(m), n) <= Total(sq(0), n)}
<1>0. \A m \in 0 .. K : mix(m) \in [1 .. K -> Int] /\ sq(m) \in [1 .. n -> Int]
  <2> TAKE m \in 0 .. K
  <2>1. mix(m) \in [1 .. K -> Int]
    BY SMTT(30), Z3T(30)
  <2>2. \A j \in 1 .. n : x[j] - mix(m)[c[j]] \in Int
    <3> HIDE DEF mix
    <3>. QED BY <2>1, SMTT(30), Z3T(30)
  <2>3. \A j \in 1 .. n : (x[j] - mix(m)[c[j]]) * (x[j] - mix(m)[c[j]]) \in Int
    <3> SUFFICES ASSUME NEW j \in 1 .. n
                 PROVE  (x[j] - mix(m)[c[j]]) * (x[j] - mix(m)[c[j]]) \in Int
      BY Zenon
    <3> DEFINE y == x[j] - mix(m)[c[j]]
    <3>1. y \in Int
      BY <2>2, Zenon
    <3>2. y * y \in Int
      <4> HIDE DEF y
      <4>. QED BY <3>1, SMTT(30), Z3T(30)
    <3>. QED BY <3>2, Zenon
  <2>4. sq(m) \in [1 .. n -> Int]
    <3> HIDE DEF mix
    <3>. QED BY <2>3, Zenon
  <2>. QED BY <2>1, <2>4, Zenon
<1>1. \A m \in 0 .. K : Total(sq(m), n) \in Int
  <2> HIDE DEF sq, mix
  <2>. QED BY <1>0, TotalType, SMTT(30), Z3T(30)
<1>2. 0 \in T
  <2>0. 0 \in 0 .. K
    BY SMTT(30), Z3T(30)
  <2>1. Total(sq(0), n) \in Int
    BY <1>1, <2>0, Zenon
  <2> HIDE DEF sq, mix
  <2>. QED BY <2>0, <2>1, SMTT(30), Z3T(30)
<1>3. ASSUME NEW m \in 1 .. K, m - 1 \in T PROVE m \in T
  <2> DEFINE a == new[m]
             b == old[m]
             f == Moved(x, c, m, a, b, n)
             N == Total(Ones(c, m, n), n)
             S == Total(Own(x, c, m, n), n)
  <2>1. a \in Int /\ b \in Int
    BY SMTT(30), Z3T(30)
  <2>2. f \in [1 .. n -> Int]
    BY <2>1, SMTT(30), Z3T(30) DEF Moved
  <2>3. Total(f, n) = (b - a) * (2 * S - (a + b) * N)
    <3> HIDE DEF a, b
    <3>1. MovedTotal(x, c, m, a, b, n)
      BY <2>1, TotalMoved, Zenon
    <3>. QED BY <3>1, Zenon DEF MovedTotal
  <2>4. N \in Nat /\ S \in Int /\ (N = 0 => S = 0) /\ (N = 0 \/ S = a * N)
    <3>1. N \in 0 .. n /\ (N = 0 => S = 0)
      BY TotalCount, Zenon
    <3>2. S \in Int
      <4>1. Own(x, c, m, n) \in [1 .. n -> Int]
        BY SMTT(30), Z3T(30) DEF Own
      <4>. QED BY <4>1, TotalType, Zenon
    <3>3. N = 0 \/ S = a * N
      BY Zenon
    <3> HIDE DEF N, S, a
    <3>. QED BY <3>1, <3>2, <3>3, SMTT(30), Z3T(30)
  <2>5. Total(f, n) <= 0
    <3>1. S = a * N
      <4> HIDE DEF N, S, a
      <4>. QED BY <2>1, <2>4, SMTT(30), Z3T(30)
    <3>2. (b - a) * (2 * S - (a + b) * N) <= 0
      <4> HIDE DEF N, S, a, b
      <4>. QED BY <2>1, <2>4, <3>1, MeanBest, Zenon
    <3> HIDE DEF N, S, a, b, f
    <3>. QED BY <2>3, <3>2, Zenon
  <2>6. \A j \in 1 .. n : sq(m)[j] = sq(m - 1)[j] + f[j]
    <3> SUFFICES ASSUME NEW j \in 1 .. n PROVE sq(m)[j] = sq(m - 1)[j] + f[j]
      BY Zenon
    <3>1. c[j] \in 1 .. K /\ x[j] \in Int /\ m - 1 \in 0 .. K
      BY SMTT(30), Z3T(30)
    <3>2. CASE c[j] = m
      <4>1. mix(m)[c[j]] = a /\ mix(m - 1)[c[j]] = b
        BY <3>1, <3>2, SMTT(30), Z3T(30)
      <4>2. sq(m)[j] = (x[j] - a) * (x[j] - a) /\ sq(m - 1)[j] = (x[j] - b) * (x[j] - b)
        <5> HIDE DEF mix, a, b
        <5>. QED BY <4>1, Zenon
      <4>3. f[j] = (x[j] - a) * (x[j] - a) - (x[j] - b) * (x[j] - b)
        BY <3>2, Zenon DEF Moved
      <4>4. (x[j] - a) * (x[j] - a) \in Int /\ (x[j] - b) * (x[j] - b) \in Int
        <5> HIDE DEF a, b
        <5>. QED BY <2>1, <3>1, SMTT(30), Z3T(30)
      <4> HIDE DEF f, sq, a, b, mix
      <4>. QED BY <4>2, <4>3, <4>4, SMTT(30), Z3T(30)
    <3>3. CASE c[j] # m
      <4>1. mix(m)[c[j]] = mix(m - 1)[c[j]]
        BY <3>1, <3>3, SMTT(30), Z3T(30)
      <4>2. sq(m)[j] = sq(m - 1)[j]
        <5> HIDE DEF mix
        <5>. QED BY <4>1, Zenon
      <4>3. f[j] = 0
        BY <3>3, SMTT(30), Z3T(30) DEF Moved
      <4>4. sq(m - 1)[j] \in Int
        <5> HIDE DEF sq, mix
        <5>. QED BY <1>0, <3>1, SMTT(30), Z3T(30)
      <4> HIDE DEF f, sq, mix
      <4>. QED BY <4>2, <4>3, <4>4, SMTT(30), Z3T(30)
    <3>. QED BY <3>2, <3>3, Zenon
  <2>7. m - 1 \in 0 .. K /\ m \in 0 .. K
    BY SMTT(30), Z3T(30)
  <2>8. Total(sq(m), n) = Total(sq(m - 1), n) + Total(f, n)
    <3> HIDE DEF sq, f, mix
    <3>. QED BY <1>0, <2>2, <2>6, <2>7, TotalAdd, Zenon
  <2>9. Total(f, n) \in Int
    <3> HIDE DEF f
    <3>. QED BY <2>2, TotalType, SMTT(30), Z3T(30)
  <2>10. Total(sq(m - 1), n) <= Total(sq(0), n)
    <3> HIDE DEF sq, mix
    <3>. QED BY <1>3, SMTT(30), Z3T(30)
  <2>11. Total(sq(m), n) <= Total(sq(0), n)
    <3>1. 0 \in 0 .. K
      BY SMTT(30), Z3T(30)
    <3> HIDE DEF sq, f, mix
    <3>. QED BY <1>1, <2>5, <2>7, <2>8, <2>9, <2>10, <3>1, SMTT(30), Z3T(30)
  <2> HIDE DEF sq, mix
  <2>. QED BY <2>7, <2>11, SMTT(30), Z3T(30)
<1>4. K \in T
  <2>1. \A m \in 1 .. K : m - 1 \in T => m \in T
    BY <1>3, Zenon
  <2> HIDE DEF T
  <2>. QED BY <1>2, <2>1, UpTo, Zenon
<1>5. mix(K) = new /\ mix(0) = old
  BY SMTT(30), Z3T(30)
<1>6. Total(sq(K), n) = Squares(x, c, new, n) /\ Total(sq(0), n) = Squares(x, c, old, n)
  <2> HIDE DEF mix
  <2>. QED BY <1>5, Zenon DEF Squares
<1>7. Total(sq(K), n) <= Total(sq(0), n)
  <2> HIDE DEF sq, mix
  <2>. QED BY <1>4, SMTT(30), Z3T(30)
<1> HIDE DEF sq, mix
<1>. QED BY <1>6, <1>7, Zenon

-----------------------------------------------------------------------------
\* The types of what the proof needs: of the state of the loops and the bounds
KTypes ==
  /\ samples \in SampleSets
  /\ centers \in [Center -> Int] /\ closestCenters \in [Sample -> Center]
  /\ lowerBound \in [Sample -> [Center -> Nat]] /\ upperBound \in [Sample -> Nat]
  /\ iteration \in Nat /\ rj \in BOOLEAN /\ sample \in Nat /\ center \in Nat \ {0}
  /\ inertia \in Int
  /\ pc \in {"random", "first", "init", "assign", "sample", "center", "done"}

\* While the initial centers are picked, the lower bounds for the earlier ones are distances
KInit ==
  /\ pc \in {"first", "init", "assign"} => iteration = 0
  /\ pc = "init" => center \in Center /\ \A j \in Sample, k \in Center :
                      k < center => lowerBound[j][k] = SampleDistance(j, k)
  /\ pc = "assign" => \A j \in Sample, k \in Center : lowerBound[j][k] = SampleDistance(j, k)

\* The upper bound is the distance until the centers move, and again once rj is false
KExact ==
  /\ Iterating /\ iteration = 0 =>
       \A j \in Sample : upperBound[j] = SampleDistance(j, closestCenters[j])
  /\ pc = "center" /\ ~rj =>
       upperBound[sample] = SampleDistance(sample, closestCenters[sample])

\* The centers a sample has been compared with, and the samples that are done
KClosest ==
  /\ pc = "center" =>
       /\ sample \in Sample
       /\ \A k \in Center : k < center =>
            SampleDistance(sample, closestCenters[sample]) <= SampleDistance(sample, k)
  /\ Iterating =>
       \A j \in Sample : j < sample =>
         \A k \in Center : SampleDistance(j, closestCenters[j]) <= SampleDistance(j, k)

IInv == KTypes /\ KInit /\ BoundsHold /\ KExact /\ KClosest /\ InertiaFalls

-----------------------------------------------------------------------------
(* Distances and bounds *)

LEMMA DistanceType ==
  ASSUME NEW x \in Int, NEW y \in Int
  PROVE  /\ Distance(x, y) \in Nat /\ Distance(x, y) = Distance(y, x)
         /\ Distance(x, y) * Distance(x, y) = (x - y) * (x - y)
BY SMTT(30), Z3T(30) DEF Distance

\* The distance satisfies the triangle inequality, which Elkan's algorithm requires
LEMMA Triangle ==
  ASSUME NEW x \in Int, NEW y \in Int, NEW z \in Int
  PROVE  Distance(x, z) <= Distance(x, y) + Distance(y, z)
BY SMTT(30), Z3T(30) DEF Distance

LEMMA MinOf ==
  ASSUME NEW T, T \subseteq Nat, T # {}
  PROVE  Min(T) \in T /\ \A y \in T : Min(T) <= y
<1>1. PICK n \in T : \A m \in T : n <= m
  BY LeastNat, Zenon
<1>. QED BY <1>1, Zenon DEF Min

LEMMA LoweredType ==
  ASSUME NEW b \in Nat, NEW m \in Nat, NEW d \in Nat, NEW e \in Nat, b <= d, d <= e + m
  PROVE  Lowered(b, m) \in Nat /\ Lowered(b, m) <= e
<1>1. \E y \in {0, b - m} : \A z \in {0, b - m} : y >= z
  <2>1. CASE 0 >= b - m
    BY <2>1, SMTT(30), Z3T(30)
  <2>2. CASE b - m >= 0
    BY <2>2, SMTT(30), Z3T(30)
  <2>. QED BY <2>1, <2>2, SMTT(30), Z3T(30)
<1>2. Lowered(b, m) \in {0, b - m} /\ \A z \in {0, b - m} : Lowered(b, m) >= z
  BY <1>1, Zenon DEF Lowered, Max
<1>. QED BY <1>2, SMTT(30), Z3T(30)

LEMMA SampleFacts ==
  ASSUME KTypes
  PROVE  /\ Len(samples) \in Nat /\ Sample = 1 .. Len(samples) /\ samples \in [Sample -> Int]
         /\ \A j \in Sample, n \in 1 .. Len(samples) : samples[j] % n = 0
<1>1. samples \in Seq(Int) /\ samples \in SampleSets
  BY KmeansAssumption, SMTT(30), Z3T(30) DEF KTypes
<1>2. \A j \in Sample, n \in 1 .. Len(samples) : samples[j] % n = 0
  BY <1>1, KmeansAssumption, Zenon DEF Sample
<1>. QED BY <1>1, <1>2, SMTT(30), Z3T(30) DEF Sample

LEMMA DistanceFacts ==
  ASSUME KTypes
  PROVE  /\ \A j \in Sample, k \in Center : SampleDistance(j, k) \in Nat
         /\ \A k, l \in Center : CenterDistance(k, l) \in Nat
         /\ \A j \in Sample, k, l \in Center :
              CenterDistance(k, l) <= SampleDistance(j, k) + SampleDistance(j, l)
<1>1. /\ \A j \in Sample : samples[j] \in Int
      /\ \A k \in Center : centers[k] \in Int
  BY SampleFacts, SMTT(30), Z3T(30) DEF KTypes
<1>2. \A j \in Sample, k \in Center : SampleDistance(j, k) \in Nat
  BY <1>1, DistanceType, Zenon DEF SampleDistance
<1>3. \A k, l \in Center : CenterDistance(k, l) \in Nat
  BY <1>1, DistanceType, Zenon DEF CenterDistance
<1>4. ASSUME NEW j \in Sample, NEW k \in Center, NEW l \in Center
      PROVE  CenterDistance(k, l) <= SampleDistance(j, k) + SampleDistance(j, l)
  <2>1. /\ Distance(centers[k], centers[l])
             <= Distance(centers[k], samples[j]) + Distance(samples[j], centers[l])
        /\ Distance(centers[k], samples[j]) = Distance(samples[j], centers[k])
    BY <1>1, Triangle, DistanceType, Zenon
  <2>. QED BY <2>1, Zenon DEF CenterDistance, SampleDistance
<1>. QED BY <1>2, <1>3, <1>4, Zenon

\* A bound that shows that no other center is closer
LEMMA OwnClosest ==
  ASSUME KTypes, NEW j \in Sample, NEW o \in Center, NEW k \in Center, NEW u \in Nat,
         SampleDistance(j, o) <= u, 2 * u <= CenterDistance(o, k)
  PROVE  SampleDistance(j, o) <= SampleDistance(j, k)
<1>1. /\ CenterDistance(o, k) <= SampleDistance(j, o) + SampleDistance(j, k)
      /\ SampleDistance(j, o) \in Nat /\ SampleDistance(j, k) \in Nat /\ CenterDistance(o, k) \in Nat
  BY DistanceFacts, Zenon
<1>. QED BY <1>1, SMTT(30), Z3T(30)

LEMMA OtherBound ==
  ASSUME KTypes, NEW o \in Center, NEW k \in Center, k # o
  PROVE  ClosestOther(o) \in Nat /\ ClosestOther(o) <= CenterDistance(o, k)
<1> DEFINE T == {Infinity} \cup {CenterDistance(o, l) : l \in Center \ {o}}
<1>1. T \subseteq Nat
  BY DistanceFacts, SMTT(30), Z3T(30) DEF Infinity
<1>2. Infinity \in T /\ CenterDistance(o, k) \in T
  BY SMTT(30), Z3T(30)
<1>3. Min(T) \in T /\ \A y \in T : Min(T) <= y
  <2> HIDE DEF T
  <2>. QED BY <1>1, <1>2, MinOf, Zenon
<1>4. ClosestOther(o) = Min(T)
  BY SMTT(30), Z3T(30) DEF ClosestOther
<1> HIDE DEF T
<1>. QED BY <1>1, <1>2, <1>3, <1>4, Zenon

LEMMA InertiaSquares ==
  ASSUME NEW n \in Nat, NEW x \in [1 .. n -> Int], NEW K, NEW c \in [1 .. n -> K],
         NEW ctr \in [K -> Int]
  PROVE  Total([j \in 1 .. n |-> Distance(x[j], ctr[c[j]]) * Distance(x[j], ctr[c[j]])], n)
           = Squares(x, c, ctr, n)
<1>1. \A j \in 1 .. n : Distance(x[j], ctr[c[j]]) * Distance(x[j], ctr[c[j]])
                          = (x[j] - ctr[c[j]]) * (x[j] - ctr[c[j]])
  <2> TAKE j \in 1 .. n
  <2>1. x[j] \in Int /\ ctr[c[j]] \in Int
    BY SMTT(30), Z3T(30)
  <2>. QED BY <2>1, DistanceType, Zenon
<1>2. [j \in 1 .. n |-> Distance(x[j], ctr[c[j]]) * Distance(x[j], ctr[c[j]])]
        = [j \in 1 .. n |-> (x[j] - ctr[c[j]]) * (x[j] - ctr[c[j]])]
  BY <1>1, Zenon
<1>. QED BY <1>2, Zenon DEF Squares

-----------------------------------------------------------------------------
(* The invariant *)

LEMMA InitInv == Init => IInv
<1> SUFFICES ASSUME Init PROVE IInv
  BY SMTT(30), Z3T(30)
<1> USE DEF Init
<1>1. 1 \in Center
  BY KmeansAssumption, SMTT(30), Z3T(30) DEF Center
<1>2. KTypes
  <2>1. samples \in SampleSets /\ centers \in [Center -> Int]
    BY SMTT(30), Z3T(30)
  <2>2. closestCenters \in [Sample -> Center]
    BY <1>1, SMTT(30), Z3T(30)
  <2>3. lowerBound \in [Sample -> [Center -> Nat]] /\ upperBound \in [Sample -> Nat]
    BY SMTT(30), Z3T(30)
  <2>4. iteration \in Nat /\ sample \in Nat /\ center \in Nat \ {0} /\ inertia \in Int
    BY SMTT(30), Z3T(30) DEF Infinity
  <2>6. rj \in BOOLEAN
    BY Zenon
  <2>5. pc \in {"random", "first"}
    BY SMTT(30), Z3T(30)
  <2>. QED BY <2>1, <2>2, <2>3, <2>4, <2>5, <2>6, Zenon DEF KTypes
<1>3. pc \in {"random", "first"} /\ iteration = 0
  BY SMTT(30), Z3T(30)
<1>. QED BY <1>2, <1>3, SMTT(30), Z3T(30) DEF IInv, KInit, BoundsHold, KExact, KClosest,
            InertiaFalls, Iterating

\* What is left to show for a step to a state outside of the iterations
LEMMA Outside ==
  ASSUME KTypes', KInit', ~Iterating'
  PROVE  IInv'
<1>1. pc' # "center"
  BY SMTT(30), Z3T(30) DEF Iterating
<1>. QED BY <1>1, Zenon DEF IInv, BoundsHold, KExact, KClosest, InertiaFalls, Iterating

LEMMA RandomStep ==
  ASSUME IInv, RandomCenters
  PROVE  IInv'
<1> USE DEF RandomCenters
<1>1. centers' \in [Center -> Int]
  BY KmeansAssumption, Zenon
<1>2. KTypes'
  BY <1>1, SMTT(30), Z3T(30) DEF IInv, KTypes, Sample
<1>3. KInit' /\ ~Iterating'
  BY SMTT(30), Z3T(30) DEF KInit, Iterating
<1>. QED BY <1>2, <1>3, Outside, Zenon

LEMMA FirstStep ==
  ASSUME IInv, FirstCenter
  PROVE  IInv'
<1> USE DEF FirstCenter
<1>1. KTypes /\ iteration = 0 /\ 1 \in Center
  BY KmeansAssumption, SMTT(30), Z3T(30) DEF IInv, KInit, Center
<1>2. centers' \in [Center -> Int]
  BY <1>1, SampleFacts, SMTT(30), Z3T(30) DEF KTypes
<1>3. KTypes'
  BY <1>1, <1>2, SMTT(30), Z3T(30) DEF KTypes, Sample
<1>4. KInit'
  <2>1. \A k \in Center : ~(k < 1)
    BY KmeansAssumption, SMTT(30), Z3T(30) DEF Center
  <2>. QED BY <1>1, <2>1, SMTT(30), Z3T(30) DEF KInit
<1>5. ~Iterating'
  BY SMTT(30), Z3T(30) DEF Iterating
<1>. QED BY <1>3, <1>4, <1>5, Outside, Zenon

LEMMA InitCentersStep ==
  ASSUME IInv, InitCenters
  PROVE  IInv'
<1> DEFINE lb == [j \in Sample |-> [lowerBound[j] EXCEPT ![center] = SampleDistance(j, center)]]
<1>0. /\ KTypes /\ pc = "init" /\ iteration = 0 /\ center \in Center
      /\ \A j \in Sample, k \in Center : k < center => lowerBound[j][k] = SampleDistance(j, k)
  BY Zenon DEF IInv, KInit, InitCenters
<1>1. /\ lowerBound' = lb /\ samples' = samples /\ closestCenters' = closestCenters
      /\ upperBound' = upperBound /\ iteration' = iteration /\ rj' = rj /\ sample' = sample
      /\ inertia' = inertia
  BY Zenon DEF InitCenters
<1>2. \/ center = NumCenters /\ pc' = "assign" /\ centers' = centers /\ center' = center
      \/ /\ center # NumCenters /\ pc' = "init" /\ center' = center + 1
         /\ \E j \in Sample : centers' = [centers EXCEPT ![center + 1] = samples[j]]
  BY <1>0, Zenon DEF InitCenters
<1>3. lb \in [Sample -> [Center -> Nat]]
  <2>1. \A j \in Sample : lowerBound[j] \in [Center -> Nat] /\ SampleDistance(j, center) \in Nat
    BY <1>0, DistanceFacts, SMTT(30), Z3T(30) DEF KTypes
  <2>. QED BY <2>1, Zenon
<1>4. \A j \in Sample, k \in Center : k <= center => lb[j][k] = SampleDistance(j, k)
  <2> SUFFICES ASSUME NEW j \in Sample, NEW k \in Center, k <= center
               PROVE  lb[j][k] = SampleDistance(j, k)
    BY SMTT(30), Z3T(30)
  <2>1. lowerBound[j] \in [Center -> Nat]
    BY <1>0, SMTT(30), Z3T(30) DEF KTypes
  <2>2. lb[j][k] = IF k = center THEN SampleDistance(j, center) ELSE lowerBound[j][k]
    BY <2>1, SMTT(30), Z3T(30)
  <2>3. k # center => k < center
    BY <1>0, SMTT(30), Z3T(30) DEF Center
  <2>. QED BY <1>0, <2>2, <2>3, Zenon
<1>5. center' \in Nat \ {0} /\ centers' \in [Center -> Int]
  <2>1. center \in Nat \ {0} /\ centers \in [Center -> Int] /\ \A j \in Sample : samples[j] \in Int
    BY <1>0, SampleFacts, Zenon DEF KTypes
  <2>. QED BY <1>2, <2>1, SMTT(30), Z3T(30)
<1>6. KTypes'
  <2>1. Sample' = Sample
    BY <1>1, Zenon DEF Sample
  <2>2. pc' \in {"assign", "init"}
    BY <1>2, Zenon
  <2>. QED BY <1>0, <1>1, <1>3, <1>5, <2>1, <2>2, Zenon DEF KTypes
<1>7. KInit'
  <2>1. CASE center = NumCenters /\ pc' = "assign" /\ centers' = centers
    <3>1. \A k \in Center : k <= center
      BY <2>1, KmeansAssumption, SMTT(30), Z3T(30) DEF Center
    <3>2. \A j \in Sample, k \in Center : lb[j][k] = SampleDistance(j, k)
      BY <1>4, <3>1, Zenon
    <3>3. \A j \in Sample', k \in Center : lowerBound'[j][k] = SampleDistance(j, k)'
      <4> HIDE DEF lb
      <4>. QED BY <1>1, <2>1, <3>2, Zenon DEF SampleDistance, Sample
    <3>. QED BY <1>0, <1>1, <2>1, <3>3, Zenon DEF KInit
  <2>2. CASE /\ center # NumCenters /\ pc' = "init" /\ center' = center + 1
             /\ \E j \in Sample : centers' = [centers EXCEPT ![center + 1] = samples[j]]
    <3>1. center + 1 \in Center /\ \A k \in Center : k < center + 1 => k <= center /\ k # center + 1
      BY <1>0, <2>2, KmeansAssumption, SMTT(30), Z3T(30) DEF Center
    <3>2. \A k \in Center : k < center + 1 => centers'[k] = centers[k]
      BY <1>0, <2>2, <3>1, SMTT(30), Z3T(30) DEF KTypes
    <3>3. \A j \in Sample', k \in Center :
            k < center + 1 => lowerBound'[j][k] = SampleDistance(j, k)'
      <4> SUFFICES ASSUME NEW j \in Sample, NEW k \in Center, k < center + 1
                   PROVE  lowerBound'[j][k] = SampleDistance(j, k)'
        BY <1>1, Zenon DEF Sample
      <4>1. lb[j][k] = SampleDistance(j, k)
        BY <1>4, <3>1, Zenon
      <4>2. SampleDistance(j, k)' = SampleDistance(j, k)
        BY <1>1, <3>2, Zenon DEF SampleDistance
      <4> HIDE DEF lb
      <4>. QED BY <1>1, <4>1, <4>2, Zenon
    <3>. QED BY <1>0, <1>1, <2>2, <3>1, <3>3, Zenon DEF KInit
  <2>. QED BY <1>2, <2>1, <2>2, Zenon
<1>8. ~Iterating'
  BY <1>2, SMTT(30), Z3T(30) DEF Iterating
<1>. QED BY <1>6, <1>7, <1>8, Outside, Zenon

LEMMA AssignStep ==
  ASSUME IInv, Assign
  PROVE  IInv'
<1> DEFINE Best(j) == {k \in Center : \A l \in Center : lowerBound[j][k] <= lowerBound[j][l]}
           Dist(j) == {lowerBound[j][k] : k \in Center}
<1>0. /\ KTypes /\ iteration = 0
      /\ \A j \in Sample, k \in Center : lowerBound[j][k] = SampleDistance(j, k)
  BY Zenon DEF IInv, KInit, Assign
<1>1. /\ samples' = samples /\ centers' = centers /\ lowerBound' = lowerBound
      /\ iteration' = iteration /\ rj' = rj /\ center' = center /\ pc' = "sample" /\ sample' = 1
      /\ closestCenters' = [j \in Sample |-> Min(Best(j))]
      /\ upperBound' = [j \in Sample |-> Min(Dist(j))] /\ inertia' = inertia
  BY Zenon DEF Assign
<1>2. ASSUME NEW j \in Sample
      PROVE  /\ Min(Best(j)) \in Center /\ Min(Dist(j)) \in Nat
             /\ Min(Dist(j)) = SampleDistance(j, Min(Best(j)))
  <2>1. Center \subseteq Nat /\ 1 \in Center
    BY KmeansAssumption, SMTT(30), Z3T(30) DEF Center
  <2>2. \A k \in Center : lowerBound[j][k] \in Nat
    BY <1>0, SMTT(30), Z3T(30) DEF KTypes
  <2>3. Dist(j) \subseteq Nat /\ Dist(j) # {}
    BY <2>1, <2>2, SMTT(30), Z3T(30)
  <2>4. Min(Dist(j)) \in Dist(j) /\ \A y \in Dist(j) : Min(Dist(j)) <= y
    <3> HIDE DEF Dist
    <3>. QED BY <2>3, MinOf, Zenon
  <2>5. PICK k \in Center : Min(Dist(j)) = lowerBound[j][k]
    BY <2>4, Zenon
  <2>6. k \in Best(j)
    BY <2>4, <2>5, SMTT(30), Z3T(30)
  <2>7. Best(j) \subseteq Nat /\ Best(j) # {}
    BY <2>1, <2>6, Zenon
  <2>8. Min(Best(j)) \in Best(j)
    <3> HIDE DEF Best
    <3>. QED BY <2>7, MinOf, Zenon
  <2>9. Min(Best(j)) \in Center /\ \A l \in Center : lowerBound[j][Min(Best(j))] <= lowerBound[j][l]
    BY <2>8, Zenon
  <2>10. lowerBound[j][Min(Best(j))] = Min(Dist(j))
    <3>1. /\ lowerBound[j][Min(Best(j))] <= lowerBound[j][k]
          /\ lowerBound[j][k] <= lowerBound[j][Min(Best(j))]
      <4> HIDE DEF Best
      <4>. QED BY <2>4, <2>5, <2>9, SMTT(30), Z3T(30)
    <3>2. lowerBound[j][Min(Best(j))] \in Nat /\ lowerBound[j][k] \in Nat
      <4> HIDE DEF Best
      <4>. QED BY <2>2, <2>9, Zenon
    <3> HIDE DEF Best, Dist
    <3>. QED BY <2>5, <3>1, <3>2, SMTT(30), Z3T(30)
  <2> HIDE DEF Best, Dist
  <2>. QED BY <1>0, <2>3, <2>4, <2>9, <2>10, Zenon
<1> HIDE DEF Best, Dist
<1>3. Sample' = Sample
  BY <1>1, Zenon DEF Sample
<1>4. closestCenters' \in [Sample -> Center] /\ upperBound' \in [Sample -> Nat]
  BY <1>1, <1>2, Zenon
<1>5. KTypes'
  BY <1>0, <1>1, <1>3, <1>4, ZenonT(30) DEF KTypes
<1>6. \A j \in Sample, k \in Center : SampleDistance(j, k)' = SampleDistance(j, k)
  BY <1>1, Zenon DEF SampleDistance
<1>7. \A j \in Sample : upperBound'[j] = SampleDistance(j, closestCenters[j])'
  <2> TAKE j \in Sample
  <2>1. closestCenters'[j] = Min(Best(j)) /\ upperBound'[j] = Min(Dist(j))
    BY <1>1, SMTT(30), Z3T(30)
  <2>. QED BY <1>1, <1>2, <2>1, Zenon DEF SampleDistance
<1>8. BoundsHold'
  <2>1. \A j \in Sample, k \in Center : lowerBound'[j][k] <= SampleDistance(j, k)'
    <3> TAKE j \in Sample, k \in Center
    <3>1. lowerBound'[j][k] = SampleDistance(j, k)' /\ SampleDistance(j, k) \in Nat
      BY <1>0, <1>1, <1>6, DistanceFacts, Zenon
    <3>. QED BY <1>6, <3>1, SMTT(30), Z3T(30)
  <2>2. \A j \in Sample : SampleDistance(j, closestCenters[j])' <= upperBound'[j]
    <3> TAKE j \in Sample
    <3>1. upperBound'[j] \in Nat
      BY <1>4, Zenon
    <3>. QED BY <1>7, <3>1, SMTT(30), Z3T(30)
  <2>. QED BY <1>3, <2>1, <2>2, Zenon DEF BoundsHold
<1>9. KInit'
  BY <1>1, Zenon DEF KInit
<1>10. KExact'
  BY <1>1, <1>3, <1>7, ZenonT(30) DEF KExact
<1>11. KClosest'
  <2>1. \A j \in Sample : ~(j < 1)
    BY <1>0, SampleFacts, SMTT(30), Z3T(30)
  <2>. QED BY <1>1, <1>3, <2>1, SMTT(30), Z3T(30) DEF KClosest
<1>12. InertiaFalls'
  BY <1>0, <1>1, SMTT(30), Z3T(30) DEF InertiaFalls
<1>. QED BY <1>5, <1>8, <1>9, <1>10, <1>11, <1>12, Zenon DEF IInv

\* A step that leaves the samples, the centers and the assignment with its bounds alone
Kept == UNCHANGED <<samples, centers, closestCenters, lowerBound, upperBound, iteration, inertia>>

LEMMA KeptBounds ==
  ASSUME IInv, Kept, Iterating, Iterating'
  PROVE  /\ Sample' = Sample /\ BoundsHold' /\ InertiaFalls'
         /\ \A j \in Sample, k \in Center : SampleDistance(j, k)' = SampleDistance(j, k)
         /\ \A j \in Sample :
              SampleDistance(j, closestCenters[j])' = SampleDistance(j, closestCenters[j])
<1>1. BoundsHold /\ InertiaFalls
  BY SMTT(30), Z3T(30) DEF IInv
<1>2. Sample' = Sample
  BY Zenon DEF Kept, Sample
<1>3. \A j, k : SampleDistance(j, k)' = SampleDistance(j, k)
  BY Zenon DEF Kept, SampleDistance
<1>4. \A j : SampleDistance(j, closestCenters[j])' = SampleDistance(j, closestCenters[j])
  BY Zenon DEF Kept, SampleDistance
<1>5. lowerBound' = lowerBound /\ upperBound' = upperBound
  BY Zenon DEF Kept
<1>6. BoundsHold'
  BY <1>1, <1>2, <1>3, <1>4, <1>5, Zenon DEF BoundsHold
<1>7. Inertia' = Inertia
  BY Zenon DEF Kept, Inertia, Cost, SampleDistance, Sample
<1>8. InertiaFalls'
  BY <1>1, <1>7, Zenon DEF InertiaFalls, Kept
<1>. QED BY <1>2, <1>3, <1>4, <1>6, <1>8, Zenon

LEMMA NextSampleStep ==
  ASSUME IInv, NextSample
  PROVE  IInv'
<1> DEFINE Skip == 2 * upperBound[sample] <= ClosestOther(closestCenters[sample])
<1>0. /\ KTypes /\ BoundsHold /\ KExact /\ KClosest /\ sample \in Sample /\ Kept
      /\ Iterating /\ Iterating' /\ pc = "sample"
  <2>1. pc = "sample" /\ pc' \in {"sample", "center"}
    BY Zenon DEF NextSample
  <2>. QED BY <2>1, Zenon DEF IInv, NextSample, Kept, Iterating
<1>1. \/ Skip /\ sample' = sample + 1 /\ pc' = pc /\ center' = center /\ rj' = rj
      \/ ~Skip /\ pc' = "center" /\ center' = 1 /\ rj' = RjReset /\ sample' = sample
  BY Zenon DEF NextSample
<1>2. /\ Sample' = Sample /\ BoundsHold' /\ InertiaFalls'
      /\ \A j \in Sample, k \in Center : SampleDistance(j, k)' = SampleDistance(j, k)
      /\ \A j \in Sample :
           SampleDistance(j, closestCenters[j])' = SampleDistance(j, closestCenters[j])
  BY <1>0, KeptBounds, SMTT(30), Z3T(30)
<1>3. /\ samples' = samples /\ centers' = centers /\ closestCenters' = closestCenters
      /\ lowerBound' = lowerBound /\ upperBound' = upperBound /\ iteration' = iteration
      /\ inertia' = inertia
  BY <1>0, Zenon DEF Kept
<1>4. KTypes'
  <2>0. sample' \in Nat /\ center' \in Nat \ {0}
    BY <1>0, <1>1, SMTT(30), Z3T(30) DEF KTypes
  <2>1. rj' \in BOOLEAN
    BY <1>0, <1>1, Zenon DEF KTypes, RjReset
  <2>2. pc' \in {"sample", "center"}
    BY <1>0, Zenon DEF Iterating
  <2>. QED BY <1>0, <1>2, <1>3, <2>0, <2>1, <2>2, ZenonT(30) DEF KTypes
<1>5. KInit'
  BY <1>0, Zenon DEF KInit, Iterating
<1>6. KExact'
  <2>1. iteration = 0 => \A j \in Sample : upperBound[j] = SampleDistance(j, closestCenters[j])
    BY <1>0, Zenon DEF KExact
  <2>2. CASE pc' = "sample"
    BY <1>2, <1>3, <2>1, <2>2, SMTT(30), Z3T(30) DEF KExact
  <2>3. CASE pc' = "center" /\ rj' = RjReset /\ sample' = sample
    <3>1. ~rj' => iteration = 0
      BY <2>3, Zenon DEF RjReset
    <3>. QED BY <1>0, <1>2, <1>3, <2>1, <2>3, <3>1, Zenon DEF KExact
  <2>. QED BY <1>0, <1>1, <2>2, <2>3, Zenon
<1>7. KClosest'
  <2>1. \A j \in Sample : j < sample =>
          \A k \in Center : SampleDistance(j, closestCenters[j]) <= SampleDistance(j, k)
    BY <1>0, Zenon DEF KClosest
  <2>2. CASE Skip /\ sample' = sample + 1 /\ pc' = pc
    <3> DEFINE o == closestCenters[sample]
    <3>1. o \in Center /\ upperBound[sample] \in Nat /\ SampleDistance(sample, o) <= upperBound[sample]
      BY <1>0, Zenon DEF KTypes, BoundsHold
    <3>2. ASSUME NEW k \in Center PROVE SampleDistance(sample, o) <= SampleDistance(sample, k)
      <4>1. CASE k = o
        <5>1. SampleDistance(sample, o) \in Nat
          BY <1>0, <3>1, DistanceFacts, Zenon
        <5>. QED BY <4>1, <5>1, SMTT(30), Z3T(30)
      <4>2. CASE k # o
        <5>1. ClosestOther(o) \in Nat /\ ClosestOther(o) <= CenterDistance(o, k)
          BY <1>0, <3>1, <4>2, OtherBound, Zenon
        <5>2. CenterDistance(o, k) \in Nat
          BY <1>0, <3>1, DistanceFacts, Zenon
        <5>3. 2 * upperBound[sample] <= CenterDistance(o, k)
          <6> HIDE DEF o
          <6>1. 2 * upperBound[sample] <= ClosestOther(o)
            BY <2>2, Zenon DEF o
          <6>. QED BY <3>1, <5>1, <5>2, <6>1, SMTT(30), Z3T(30)
        <5> HIDE DEF o
        <5>. QED BY <1>0, <3>1, <5>3, OwnClosest, Zenon
      <4>. QED BY <4>1, <4>2, ZenonT(30)
    <3>3. \A j \in Sample : j < sample + 1 => j < sample \/ j = sample
      BY <1>0, SampleFacts, SMTT(30), Z3T(30)
    <3>4. \A j \in Sample : j < sample + 1 =>
            \A k \in Center : SampleDistance(j, closestCenters[j]) <= SampleDistance(j, k)
      BY <2>1, <3>2, <3>3, Zenon
    <3>. QED BY <1>0, <1>2, <2>2, <3>4, SMTT(30), Z3T(30) DEF KClosest
  <2>3. CASE pc' = "center" /\ center' = 1 /\ sample' = sample
    <3>1. \A k \in Center : ~(k < 1)
      BY KmeansAssumption, SMTT(30), Z3T(30) DEF Center
    <3>. QED BY <1>0, <1>2, <2>1, <2>3, <3>1, Zenon DEF KClosest
  <2>. QED BY <1>1, <2>2, <2>3, Zenon
<1>. QED BY <1>2, <1>4, <1>5, <1>6, <1>7, Zenon DEF IInv

LEMMA SampleDoneStep ==
  ASSUME IInv, SampleDone
  PROVE  IInv'
<1>0. /\ KTypes /\ KExact /\ KClosest /\ Kept /\ Iterating /\ Iterating'
      /\ pc = "center" /\ center \notin Center /\ pc' = "sample" /\ sample' = sample + 1
      /\ rj' = rj /\ center' = center
  BY Zenon DEF IInv, SampleDone, Kept, Iterating
<1>2. /\ Sample' = Sample /\ BoundsHold' /\ InertiaFalls'
      /\ \A j \in Sample, k \in Center : SampleDistance(j, k)' = SampleDistance(j, k)
      /\ \A j \in Sample :
           SampleDistance(j, closestCenters[j])' = SampleDistance(j, closestCenters[j])
  BY <1>0, KeptBounds, SMTT(30), Z3T(30)
<1>3. /\ samples' = samples /\ centers' = centers /\ closestCenters' = closestCenters
      /\ lowerBound' = lowerBound /\ upperBound' = upperBound /\ iteration' = iteration
      /\ inertia' = inertia
  BY <1>0, Zenon DEF Kept
<1>4. KTypes'
  BY <1>0, <1>2, <1>3, SMTT(30), Z3T(30) DEF KTypes
<1>5. KInit'
  BY <1>0, Zenon DEF KInit, Iterating
<1>6. KExact'
  BY <1>0, <1>2, <1>3, ZenonT(30) DEF KExact
<1>7. KClosest'
  <2>1. \A j \in Sample : j < sample =>
          \A k \in Center : SampleDistance(j, closestCenters[j]) <= SampleDistance(j, k)
    BY <1>0, Zenon DEF KClosest
  <2>2. \A k \in Center : k < center
    BY <1>0, KmeansAssumption, SMTT(30), Z3T(30) DEF KTypes, KClosest, Center
  <2>3. \A k \in Center :
          SampleDistance(sample, closestCenters[sample]) <= SampleDistance(sample, k)
    BY <1>0, <2>2, Zenon DEF KClosest
  <2>4. \A j \in Sample : j < sample + 1 => j < sample \/ j = sample
    BY <1>0, SampleFacts, SMTT(30), Z3T(30) DEF KTypes
  <2>5. \A j \in Sample : j < sample + 1 =>
          \A k \in Center : SampleDistance(j, closestCenters[j]) <= SampleDistance(j, k)
    BY <2>1, <2>3, <2>4, Zenon
  <2>. QED BY <1>0, <1>2, <2>5, SMTT(30), Z3T(30) DEF KClosest
<1>. QED BY <1>2, <1>4, <1>5, <1>6, <1>7, Zenon DEF IInv

\* What a comparison makes of the assignment and the bounds of the sample it is about
Compared(o, u, l) ==
  /\ closestCenters' = [closestCenters EXCEPT ![sample] = o]
  /\ upperBound' = [upperBound EXCEPT ![sample] = u]
  /\ lowerBound' = [lowerBound EXCEPT ![sample] = l]
  /\ \A k \in Center : l[k] <= SampleDistance(sample, k)
  /\ SampleDistance(sample, o) <= u
  /\ ~rj' \/ iteration = 0 => u = SampleDistance(sample, o)
  /\ SampleDistance(sample, o) <= SampleDistance(sample, closestCenters[sample])
  /\ SampleDistance(sample, o) <= SampleDistance(sample, center)

\* The comparison of a sample with a center, whatever the bounds save
LEMMA CompareEffect ==
  ASSUME IInv, CompareCenter
  PROVE  rj' \in BOOLEAN /\ \E o \in Center, u \in Nat, l \in [Center -> Nat] : Compared(o, u, l)
<1> DEFINE j == sample
           own == closestCenters[j]
           dxcx == IF rj THEN SampleDistance(j, own) ELSE upperBound[j]
           known == IF rj THEN [lowerBound[j] EXCEPT ![own] = dxcx] ELSE lowerBound[j]
           dxc == SampleDistance(j, center)
<1>0. KTypes /\ BoundsHold /\ KExact /\ KClosest /\ pc = "center" /\ center \in Center
  BY Zenon DEF IInv, CompareCenter
<1>1. /\ j \in Sample /\ own \in Center /\ upperBound[j] \in Nat
      /\ lowerBound[j] \in [Center -> Nat] /\ rj \in BOOLEAN
  BY <1>0, SMTT(30), Z3T(30) DEF KTypes, KClosest
<1>2. \A k \in Center : SampleDistance(j, k) \in Nat
  BY <1>0, <1>1, DistanceFacts, Zenon
<1>3. /\ SampleDistance(j, own) <= upperBound[j]
      /\ \A k \in Center : lowerBound[j][k] <= SampleDistance(j, k)
      /\ ~rj \/ iteration = 0 => upperBound[j] = SampleDistance(j, own)
  BY <1>0, <1>1, Zenon DEF BoundsHold, KExact, Iterating
<1>4. closestCenters = [closestCenters EXCEPT ![j] = own]
      /\ upperBound = [upperBound EXCEPT ![j] = upperBound[j]]
      /\ lowerBound = [lowerBound EXCEPT ![j] = lowerBound[j]]
  BY <1>0, <1>1, SMTT(30), Z3T(30) DEF KTypes
<1>5. CASE Excluded(j, center)
  <2>1. UNCHANGED <<closestCenters, lowerBound, upperBound, changes, rj>>
    BY <1>5, Zenon DEF CompareCenter
  <2>2. SampleDistance(j, own) <= SampleDistance(j, center)
    <3>1. CASE center = own
      BY <1>0, <1>2, <3>1, SMTT(30), Z3T(30)
    <3>2. CASE upperBound[j] <= lowerBound[j][center]
      <4>1. lowerBound[j][center] \in Nat /\ lowerBound[j][center] <= SampleDistance(j, center)
        BY <1>0, <1>1, <1>3, SMTT(30), Z3T(30)
      <4>2. SampleDistance(j, own) \in Nat /\ SampleDistance(j, center) \in Nat
        BY <1>0, <1>1, <1>2, Zenon
      <4> HIDE DEF j, own
      <4>. QED BY <1>1, <1>3, <3>2, <4>1, <4>2, SMTT(30), Z3T(30)
    <3>3. CASE 2 * upperBound[j] <= CenterDistance(own, center)
      <4> HIDE DEF j, own
      <4>. QED BY <1>0, <1>1, <1>3, <3>3, OwnClosest, Zenon
    <3>. QED BY <1>5, <3>1, <3>2, <3>3, Zenon DEF Excluded
  <2>3. SampleDistance(j, own) <= SampleDistance(j, own)
    BY <1>1, <1>2, SMTT(30), Z3T(30)
  <2>4. Compared(own, upperBound[j], lowerBound[j])
    BY <1>3, <1>4, <2>1, <2>2, <2>3, Zenon DEF Compared
  <2>. QED BY <1>1, <2>1, <2>4, Zenon
<1>6. CASE ~Excluded(j, center)
  <2>1. dxcx = SampleDistance(j, own) /\ dxcx \in Nat
    <3>1. SampleDistance(j, own) \in Nat
      BY <1>1, <1>2, Zenon
    <3>. QED BY <1>3, <3>1, Zenon
  <2>2. known \in [Center -> Nat]
    <3> HIDE DEF dxcx, own
    <3>. QED BY <1>1, <2>1, Zenon
  <2>3. \A k \in Center : known[k] <= SampleDistance(j, k)
    <3> TAKE k \in Center
    <3>1. CASE rj /\ k = own
      <4>1. known[k] = dxcx
        <5> HIDE DEF dxcx, own
        <5>. QED BY <1>1, <3>1, SMTT(30), Z3T(30)
      <4>2. SampleDistance(j, k) = dxcx
        BY <2>1, <3>1, Zenon
      <4> HIDE DEF dxcx, known
      <4>. QED BY <2>1, <4>1, <4>2, SMTT(30), Z3T(30)
    <3>2. CASE ~(rj /\ k = own)
      <4>1. known[k] = lowerBound[j][k]
        <5> HIDE DEF dxcx, own
        <5>. QED BY <1>1, <3>2, SMTT(30), Z3T(30)
      <4>. QED BY <1>3, <4>1, Zenon
    <3>. QED BY <3>1, <3>2, Zenon
  <2>4. dxc \in Nat
    BY <1>0, <1>2, Zenon
  <2>5. rj' = FALSE
    BY <1>6, Zenon DEF CompareCenter
  <2>6. \/ /\ lowerBound' = [lowerBound EXCEPT ![j] = [known EXCEPT ![center] = dxc]]
           /\ \/ /\ dxc < dxcx
                 /\ closestCenters' = [closestCenters EXCEPT ![j] = center]
                 /\ upperBound' = [upperBound EXCEPT ![j] = dxc]
              \/ /\ ~(dxc < dxcx)
                 /\ upperBound' = [upperBound EXCEPT ![j] = dxcx]
                 /\ closestCenters' = closestCenters
        \/ /\ ~(dxcx > known[center] \/ 2 * dxcx > CenterDistance(own, center))
           /\ lowerBound' = [lowerBound EXCEPT ![j] = known]
           /\ upperBound' = [upperBound EXCEPT ![j] = dxcx]
           /\ closestCenters' = closestCenters
    BY <1>6, Zenon DEF CompareCenter
  <2> HIDE DEF dxcx, known, dxc
  <2>7. /\ [known EXCEPT ![center] = dxc] \in [Center -> Nat]
        /\ \A k \in Center : [known EXCEPT ![center] = dxc][k] <= SampleDistance(j, k)
    <3>1. [known EXCEPT ![center] = dxc] \in [Center -> Nat]
      BY <1>0, <2>2, <2>4, ZenonT(30)
    <3>2. ASSUME NEW k \in Center
          PROVE  [known EXCEPT ![center] = dxc][k] <= SampleDistance(j, k)
      <4>1. CASE k = center
        <5>1. [known EXCEPT ![center] = dxc][k] = dxc /\ dxc = SampleDistance(j, k)
          BY <2>2, <4>1, ZenonT(30) DEF dxc
        <5>. QED BY <2>4, <5>1, SMTT(30), Z3T(30)
      <4>2. CASE k # center
        BY <2>2, <2>3, <4>2, SMTT(30), Z3T(30)
      <4>. QED BY <4>1, <4>2, Zenon
    <3>. QED BY <3>1, <3>2, ZenonT(30)
  <2>8. CASE /\ lowerBound' = [lowerBound EXCEPT ![j] = [known EXCEPT ![center] = dxc]]
             /\ dxc < dxcx
             /\ closestCenters' = [closestCenters EXCEPT ![j] = center]
             /\ upperBound' = [upperBound EXCEPT ![j] = dxc]
    <3>1. dxc <= dxc /\ dxc <= dxcx
      BY <2>1, <2>4, <2>8, SMTT(30), Z3T(30)
    <3>2. SampleDistance(j, center) = dxc
      BY Zenon DEF dxc
    <3>3. Compared(center, dxc, [known EXCEPT ![center] = dxc])
      BY <2>1, <2>7, <2>8, <3>1, <3>2, Zenon DEF Compared
    <3>. QED BY <1>0, <2>4, <2>5, <2>7, <3>3, Zenon
  <2>9. CASE /\ lowerBound' = [lowerBound EXCEPT ![j] = [known EXCEPT ![center] = dxc]]
             /\ ~(dxc < dxcx)
             /\ closestCenters' = closestCenters
             /\ upperBound' = [upperBound EXCEPT ![j] = dxcx]
    <3>1. dxcx <= dxcx /\ dxcx <= dxc
      BY <2>1, <2>4, <2>9, SMTT(30), Z3T(30)
    <3>2. SampleDistance(j, center) = dxc
      BY Zenon DEF dxc
    <3>3. Compared(own, dxcx, [known EXCEPT ![center] = dxc])
      BY <1>4, <2>1, <2>7, <2>9, <3>1, <3>2, Zenon DEF Compared
    <3>. QED BY <1>1, <2>1, <2>5, <2>7, <3>3, Zenon
  <2>10. CASE /\ ~(dxcx > known[center] \/ 2 * dxcx > CenterDistance(own, center))
              /\ lowerBound' = [lowerBound EXCEPT ![j] = known]
              /\ upperBound' = [upperBound EXCEPT ![j] = dxcx]
              /\ closestCenters' = closestCenters
    <3>1. known[center] \in Nat /\ known[center] <= SampleDistance(j, center)
      BY <1>0, <2>2, <2>3, SMTT(30), Z3T(30)
    <3>2. SampleDistance(j, center) \in Nat
      BY <1>0, <1>2, Zenon
    <3>3. dxcx <= dxcx /\ dxcx <= SampleDistance(j, center)
      <4> HIDE DEF own, j
      <4>. QED BY <2>1, <2>10, <3>1, <3>2, SMTT(30), Z3T(30)
    <3>4. Compared(own, dxcx, known)
      BY <1>4, <2>1, <2>3, <2>10, <3>3, Zenon DEF Compared
    <3>. QED BY <1>1, <2>1, <2>2, <2>5, <3>4, Zenon
  <2>. QED BY <2>6, <2>8, <2>9, <2>10, Zenon
<1>. QED BY <1>5, <1>6, Zenon

LEMMA CompareStep ==
  ASSUME IInv, CompareCenter
  PROVE  IInv'
<1>0. /\ KTypes /\ BoundsHold /\ KExact /\ KClosest /\ InertiaFalls /\ pc = "center" /\ center \in Center
      /\ samples' = samples /\ centers' = centers /\ iteration' = iteration /\ pc' = pc
      /\ sample' = sample /\ inertia' = inertia /\ center' = center + 1
  BY Zenon DEF IInv, CompareCenter
<1>1. PICK o \in Center, u \in Nat, l \in [Center -> Nat] : Compared(o, u, l)
  BY CompareEffect, Zenon
<1>2. /\ rj' \in BOOLEAN /\ sample \in Sample /\ closestCenters[sample] \in Center
      /\ closestCenters \in [Sample -> Center] /\ upperBound \in [Sample -> Nat]
      /\ lowerBound \in [Sample -> [Center -> Nat]]
  BY <1>0, CompareEffect, SMTT(30), Z3T(30) DEF KTypes, KClosest
<1>3. /\ Sample' = Sample
      /\ \A j, k : SampleDistance(j, k)' = SampleDistance(j, k)
      /\ \A j : SampleDistance(j, closestCenters[j])' = SampleDistance(j, closestCenters'[j])
  BY <1>0, Zenon DEF Sample, SampleDistance
<1>4. /\ closestCenters' = [closestCenters EXCEPT ![sample] = o]
      /\ upperBound' = [upperBound EXCEPT ![sample] = u]
      /\ lowerBound' = [lowerBound EXCEPT ![sample] = l]
      /\ \A k \in Center : l[k] <= SampleDistance(sample, k)
      /\ SampleDistance(sample, o) <= u
      /\ ~rj' \/ iteration = 0 => u = SampleDistance(sample, o)
      /\ SampleDistance(sample, o) <= SampleDistance(sample, closestCenters[sample])
      /\ SampleDistance(sample, o) <= SampleDistance(sample, center)
  BY <1>1, Zenon DEF Compared
<1>5. /\ closestCenters'[sample] = o /\ upperBound'[sample] = u /\ lowerBound'[sample] = l
      /\ \A j \in Sample : j # sample =>
           /\ closestCenters'[j] = closestCenters[j] /\ upperBound'[j] = upperBound[j]
           /\ lowerBound'[j] = lowerBound[j]
  BY <1>2, <1>4, Zenon
<1>6. KTypes'
  <2>1. closestCenters' \in [Sample -> Center] /\ upperBound' \in [Sample -> Nat]
    BY <1>2, <1>4, ZenonT(30)
  <2>2. lowerBound' \in [Sample -> [Center -> Nat]]
    BY <1>2, <1>4, ZenonT(30)
  <2>3. center' \in Nat \ {0}
    BY <1>0, SMTT(30), Z3T(30) DEF KTypes
  <2>. QED BY <1>0, <1>2, <1>3, <2>1, <2>2, <2>3, ZenonT(30) DEF KTypes
<1>7. Iterating /\ Iterating' /\ pc' = "center"
  BY <1>0, Zenon DEF Iterating
<1>8. BoundsHold'
  <2>1. \A j \in Sample, k \in Center : lowerBound'[j][k] <= SampleDistance(j, k)
    BY <1>0, <1>4, <1>5, <1>7, Zenon DEF BoundsHold
  <2>2. \A j \in Sample : SampleDistance(j, closestCenters'[j]) <= upperBound'[j]
    BY <1>0, <1>4, <1>5, <1>7, Zenon DEF BoundsHold
  <2>. QED BY <1>3, <2>1, <2>2, Zenon DEF BoundsHold
<1>9. KInit'
  BY <1>7, Zenon DEF KInit, Iterating
<1>10. KExact'
  <2>1. iteration = 0 => \A j \in Sample : upperBound'[j] = SampleDistance(j, closestCenters'[j])
    BY <1>0, <1>4, <1>5, <1>7, Zenon DEF KExact
  <2>2. ~rj' => upperBound'[sample] = SampleDistance(sample, closestCenters'[sample])
    BY <1>4, <1>5, Zenon
  <2>. QED BY <1>0, <1>2, <1>3, <2>1, <2>2, Zenon DEF KExact
<1>11. KClosest'
  <2>0. \A j \in Sample, k \in Center : SampleDistance(j, k) \in Nat
    BY <1>0, DistanceFacts, Zenon
  <2>1. ASSUME NEW k \in Center, k < center + 1
        PROVE  SampleDistance(sample, o) <= SampleDistance(sample, k)
    <3>1. CASE k = center
      BY <1>4, <3>1, Zenon
    <3>2. CASE k # center
      <4>1. k < center
        BY <1>0, <2>1, <3>2, SMTT(30), Z3T(30) DEF Center
      <4>2. SampleDistance(sample, closestCenters[sample]) <= SampleDistance(sample, k)
        BY <1>0, <4>1, Zenon DEF KClosest
      <4>3. /\ SampleDistance(sample, o) \in Nat /\ SampleDistance(sample, k) \in Nat
            /\ SampleDistance(sample, closestCenters[sample]) \in Nat
        BY <1>2, <2>0, Zenon
      <4>. QED BY <1>4, <4>2, <4>3, SMTT(30), Z3T(30)
    <3>. QED BY <3>1, <3>2, SMTT(30), Z3T(30)
  <2>2. \A j \in Sample : j < sample => j # sample
    BY <1>0, SampleFacts, SMTT(30), Z3T(30)
  <2>3. \A j \in Sample : j < sample =>
          \A k \in Center : SampleDistance(j, closestCenters'[j]) <= SampleDistance(j, k)
    BY <1>0, <1>5, <1>7, <2>2, Zenon DEF KClosest
  <2>4. \A k \in Center : k < center' =>
          SampleDistance(sample, closestCenters'[sample]) <= SampleDistance(sample, k)
    BY <1>0, <1>5, <2>1, Zenon
  <2>. QED BY <1>0, <1>2, <1>3, <2>3, <2>4, Zenon DEF KClosest
<1>12. InertiaFalls'
  <2> DEFINE n == Len(samples)
             f == [j \in Sample |-> Cost(j)]
             g == [j \in Sample |-> Cost(j)']
  <2>0. n \in Nat /\ Sample = 1 .. n
    BY <1>0, SampleFacts, ZenonT(30)
  <2>1. \A j \in Sample, k \in Center : SampleDistance(j, k) \in Nat
    BY <1>0, DistanceFacts, Zenon
  <2>2. ASSUME NEW j \in Sample PROVE Cost(j) \in Nat /\ Cost(j)' \in Nat /\ Cost(j)' <= Cost(j)
    <3> DEFINE a == SampleDistance(j, closestCenters'[j])
               b == SampleDistance(j, closestCenters[j])
    <3>1. Cost(j)' = a * a /\ Cost(j) = b * b
      BY <1>3, Zenon DEF Cost
    <3>2. a \in Nat /\ b \in Nat
      BY <1>2, <1>6, <2>1, <1>3, ZenonT(30) DEF KTypes
    <3>3. a <= b
      <4>1. CASE j = sample
        BY <1>4, <1>5, <4>1, Zenon
      <4>2. CASE j # sample
        <5>1. a = b
          BY <1>5, <4>2, Zenon
        <5> HIDE DEF a, b
        <5>. QED BY <3>2, <5>1, SMTT(30), Z3T(30)
      <4>. QED BY <4>1, <4>2, SMTT(30), Z3T(30)
    <3> HIDE DEF a, b
    <3>4. a * a \in Nat /\ b * b \in Nat /\ a * a <= b * b
      <4>1. (b - a) * (b + a) >= 0
        BY <3>2, <3>3, SMTT(30), Z3T(30)
      <4>2. (b - a) * (b + a) = b * b - a * a
        BY <3>2, SMTT(30), Z3T(30)
      <4>3. a * a \in Nat /\ b * b \in Nat
        BY <3>2, SMTT(30), Z3T(30)
      <4>. QED BY <4>1, <4>2, <4>3, SMTT(30), Z3T(30)
    <3>. QED BY <3>1, <3>4, Zenon
  <2>3. f \in [1 .. n -> Int] /\ g \in [1 .. n -> Int] /\ \A j \in 1 .. n : g[j] <= f[j]
    BY <2>0, <2>2, SMTT(30), Z3T(30)
  <2>4. Inertia = Total(f, n) /\ Inertia' = Total(g, n)
    <3>1. Inertia' = Total([j \in Sample' |-> Cost(j)'], Len(samples'))
      BY Zenon DEF Inertia
    <3>. QED BY <1>0, <1>3, <3>1, Zenon DEF Inertia
  <2>5. Inertia' <= Inertia /\ Inertia' \in Int /\ Inertia \in Int
    <3> HIDE DEF f, g, n
    <3>. QED BY <2>0, <2>3, <2>4, TotalMonotone, TotalType, Zenon
  <2>6. Iterating /\ iteration # 0 => Inertia <= inertia
    BY <1>0, Zenon DEF InertiaFalls
  <2>7. ASSUME Inertia <= inertia PROVE Inertia' <= inertia
    BY <1>0, <2>5, <2>7, SMTT(30), Z3T(30) DEF KTypes
  <2>. QED BY <1>0, <1>7, <2>6, <2>7, Zenon DEF InertiaFalls
<1>. QED BY <1>6, <1>8, <1>9, <1>10, <1>11, <1>12, Zenon DEF IInv

\* The new centers are means where there are samples
LEMMA MeansOf ==
  ASSUME KTypes, NEW new \in NewCenters
  PROVE  /\ new \in [Center -> Int]
         /\ \A k \in Center :
              \/ Total(Ones(closestCenters, k, Len(samples)), Len(samples)) = 0
              \/ Total(Own(samples, closestCenters, k, Len(samples)), Len(samples))
                   = new[k] * Total(Ones(closestCenters, k, Len(samples)), Len(samples))
<1> DEFINE n == Len(samples)
           N(k) == Total(Ones(closestCenters, k, n), n)
           S(k) == Total(Own(samples, closestCenters, k, n), n)
<1>0. /\ n \in Nat /\ Sample = 1 .. n /\ samples \in [1 .. n -> Int]
      /\ \A j \in 1 .. n, d \in 1 .. n : samples[j] % d = 0
  BY SampleFacts, SMTT(30), Z3T(30)
<1>1. \A k : Count(k) = N(k)
  BY <1>0, Zenon DEF Count, Ones
<1>2. \A k : SumCenter(k) = S(k)
  BY <1>0, Zenon DEF SumCenter, Own
<1>3. PICK r \in [Center -> RandomVectors] :
        new = [k \in Center |-> IF Count(k) > 0 THEN SumCenter(k) \div Count(k) ELSE r[k]]
  BY Zenon DEF NewCenters
<1>4. \A k \in Center : new[k] = IF N(k) > 0 THEN S(k) \div N(k) ELSE r[k]
  <2> HIDE DEF N, S
  <2>. QED BY <1>1, <1>2, <1>3, ZenonT(30)
<1>5. ASSUME NEW k \in Center
      PROVE  new[k] \in Int /\ (N(k) = 0 \/ S(k) = new[k] * N(k))
  <2>1. N(k) \in 0 .. n
    BY <1>0, TotalCount, SMTT(30), Z3T(30)
  <2>2. CASE N(k) = 0
    <3>1. new[k] = r[k]
      <4> HIDE DEF N, S
      <4>. QED BY <1>4, <2>2, SMTT(30), Z3T(30)
    <3>2. r[k] \in Int
      BY KmeansAssumption, Zenon
    <3>. QED BY <2>2, <3>1, <3>2, Zenon
  <2>3. CASE N(k) # 0
    <3>1. N(k) \in 1 .. n /\ N(k) \in Nat \ {0}
      <4> HIDE DEF N
      <4>. QED BY <1>0, <2>1, <2>3, SMTT(30), Z3T(30)
    <3>2. Own(samples, closestCenters, k, n) \in [1 .. n -> Int]
      BY <1>0, SMTT(30), Z3T(30) DEF Own
    <3>3. \A j \in 1 .. n : Own(samples, closestCenters, k, n)[j] % N(k) = 0
      <4> TAKE j \in 1 .. n
      <4>1. samples[j] % N(k) = 0
        BY <1>0, <3>1, Zenon
      <4>2. 0 % N(k) = 0
        <5> HIDE DEF N
        <5>. QED BY <3>1, SMTT(30), Z3T(30)
      <4>3. Own(samples, closestCenters, k, n)[j] = samples[j] \/ Own(samples, closestCenters, k, n)[j] = 0
        BY SMTT(30), Z3T(30) DEF Own
      <4> HIDE DEF N
      <4>. QED BY <4>1, <4>2, <4>3, Zenon
    <3>4. S(k) \in Int /\ S(k) % N(k) = 0
      <4> HIDE DEF N
      <4>. QED BY <1>0, <3>1, <3>2, <3>3, TotalType, TotalMultiple, Zenon
    <3>5. S(k) \div N(k) \in Int /\ S(k) = (S(k) \div N(k)) * N(k)
      <4> HIDE DEF N, S
      <4>. QED BY <3>1, <3>4, Quotient, Zenon
    <3>6. new[k] = S(k) \div N(k)
      <4> HIDE DEF N, S
      <4>. QED BY <1>4, <3>1, SMTT(30), Z3T(30)
    <3> HIDE DEF N, S
    <3>. QED BY <3>5, <3>6, Zenon
  <2>. QED BY <2>2, <2>3, ZenonT(30)
<1>6. new \in [Center -> Int]
  <2>1. \A k \in Center : new[k] \in Int
    BY <1>5, Zenon
  <2>2. new = [k \in Center |-> new[k]]
    BY <1>3, SMTT(30), Z3T(30)
  <2>. QED BY <2>1, <2>2, SMTT(30), Z3T(30)
<1>. QED BY <1>5, <1>6, Zenon

LEMMA MoveStep ==
  ASSUME IInv, MoveCenters
  PROVE  IInv'
<1>0. /\ KTypes /\ BoundsHold /\ pc = "sample" /\ samples' = samples
      /\ closestCenters' = closestCenters /\ rj' = rj /\ center' = center /\ inertia' = Inertia
  BY Zenon DEF IInv, MoveCenters
<1>1. PICK new \in NewCenters :
        /\ centers' = new
        /\ lowerBound' = [j \in Sample |-> [k \in Center |->
                            Lowered(lowerBound[j][k], Distance(centers[k], new[k]))]]
        /\ upperBound' = [j \in Sample |->
                            upperBound[j] + Distance(centers[closestCenters[j]], new[closestCenters[j]])]
  <2>1. PICK new \in NewCenters :
          LET newcdist == [k \in Center |-> Distance(centers[k], new[k])] IN
          /\ centers' = new
          /\ lowerBound' = [j \in Sample |-> [k \in Center |-> Lowered(lowerBound[j][k], newcdist[k])]]
          /\ upperBound' = [j \in Sample |-> upperBound[j] + newcdist[closestCenters[j]]]
    BY Zenon DEF MoveCenters
  <2>2. \A j \in Sample : closestCenters[j] \in Center
    BY <1>0, SMTT(30), Z3T(30) DEF KTypes
  <2>. QED BY <2>1, <2>2, SMTT(30), Z3T(30)
<1>2. \/ pc' = "done" /\ iteration' = iteration /\ sample' = sample
      \/ pc' = "sample" /\ iteration' = iteration + 1 /\ sample' = 1
  BY Zenon DEF MoveCenters
<1>3. new \in [Center -> Int]
  BY <1>0, MeansOf, Zenon
<1>4. /\ \A j \in Sample : samples[j] \in Int /\ closestCenters[j] \in Center /\ upperBound[j] \in Nat
      /\ \A k \in Center : centers[k] \in Int /\ new[k] \in Int
      /\ \A j \in Sample, k \in Center : lowerBound[j][k] \in Nat
  BY <1>0, <1>3, SampleFacts, ZenonT(30) DEF KTypes
<1>5. /\ Sample' = Sample
      /\ \A j, k : SampleDistance(j, k)' = Distance(samples[j], new[k])
      /\ \A j : SampleDistance(j, closestCenters[j])' = Distance(samples[j], new[closestCenters[j]])
  BY <1>0, <1>1, Zenon DEF Sample, SampleDistance
<1>6. Iterating
  BY <1>0, Zenon DEF Iterating
<1>7. ASSUME NEW j \in Sample, NEW k \in Center
      PROVE  /\ Lowered(lowerBound[j][k], Distance(centers[k], new[k])) \in Nat
             /\ Lowered(lowerBound[j][k], Distance(centers[k], new[k])) <= Distance(samples[j], new[k])
  <2>1. lowerBound[j][k] <= Distance(samples[j], centers[k])
    BY <1>0, <1>6, Zenon DEF BoundsHold, SampleDistance
  <2>2. /\ Distance(samples[j], centers[k]) \in Nat /\ Distance(samples[j], new[k]) \in Nat
        /\ Distance(centers[k], new[k]) \in Nat
        /\ Distance(new[k], centers[k]) = Distance(centers[k], new[k])
    BY <1>4, DistanceType, Zenon
  <2>3. Distance(samples[j], centers[k]) <= Distance(samples[j], new[k]) + Distance(centers[k], new[k])
    BY <1>4, <2>2, Triangle, ZenonT(30)
  <2>4. lowerBound[j][k] \in Nat
    BY <1>4, Zenon
  <2>. QED BY <2>1, <2>2, <2>3, <2>4, LoweredType, Zenon
<1>8. ASSUME NEW j \in Sample
      PROVE  LET k == closestCenters[j] IN
             /\ upperBound[j] + Distance(centers[k], new[k]) \in Nat
             /\ Distance(samples[j], new[k]) <= upperBound[j] + Distance(centers[k], new[k])
  <2> DEFINE k == closestCenters[j]
  <2>0. k \in Center /\ upperBound[j] \in Nat
    BY <1>4, Zenon
  <2>1. Distance(samples[j], centers[k]) <= upperBound[j]
    BY <1>0, <1>6, Zenon DEF BoundsHold, SampleDistance
  <2> HIDE DEF k
  <2>2. /\ Distance(samples[j], centers[k]) \in Nat /\ Distance(samples[j], new[k]) \in Nat
        /\ Distance(centers[k], new[k]) \in Nat
    BY <1>4, <2>0, DistanceType, ZenonT(30)
  <2>3. Distance(samples[j], new[k]) <= Distance(samples[j], centers[k]) + Distance(centers[k], new[k])
    BY <1>4, <2>0, Triangle, ZenonT(30)
  <2>4. /\ upperBound[j] + Distance(centers[k], new[k]) \in Nat
        /\ Distance(samples[j], new[k]) <= upperBound[j] + Distance(centers[k], new[k])
    BY <2>0, <2>1, <2>2, <2>3, SMTT(30), Z3T(30)
  <2>. QED BY <2>4, SMTT(30), Z3T(30) DEF k
<1>9. /\ \A j \in Sample, k \in Center : lowerBound'[j][k] \in Nat /\ lowerBound'[j][k] <= SampleDistance(j, k)'
      /\ \A j \in Sample : upperBound'[j] \in Nat /\ SampleDistance(j, closestCenters[j])' <= upperBound'[j]
  <2>1. \A j \in Sample, k \in Center : lowerBound'[j][k] \in Nat /\ lowerBound'[j][k] <= SampleDistance(j, k)'
    <3> TAKE j \in Sample, k \in Center
    <3>1. lowerBound'[j][k] = Lowered(lowerBound[j][k], Distance(centers[k], new[k]))
      BY <1>1, SMTT(30), Z3T(30)
    <3>. QED BY <1>5, <1>7, <3>1, Zenon
  <2>2. \A j \in Sample : upperBound'[j] \in Nat /\ SampleDistance(j, closestCenters[j])' <= upperBound'[j]
    <3> TAKE j \in Sample
    <3>1. upperBound'[j] = upperBound[j] + Distance(centers[closestCenters[j]], new[closestCenters[j]])
      BY <1>1, Zenon
    <3>. QED BY <1>5, <1>8, <3>1, Zenon
  <2>. QED BY <2>1, <2>2, Zenon
<1>10. BoundsHold'
  BY <1>5, <1>9, Zenon DEF BoundsHold
<1> DEFINE n == Len(samples)
<1>11. n \in Nat /\ Sample = 1 .. n /\ samples \in [1 .. n -> Int] /\ closestCenters \in [1 .. n -> Center]
  BY <1>0, SampleFacts, ZenonT(30) DEF KTypes
<1>12. /\ Inertia = Squares(samples, closestCenters, centers, n)
       /\ Inertia' = Squares(samples, closestCenters, new, n)
  <2>1. centers \in [Center -> Int]
    BY <1>0, SMTT(30), Z3T(30) DEF KTypes
  <2>2. Inertia = Total([j \in 1 .. n |-> Distance(samples[j], centers[closestCenters[j]])
                                            * Distance(samples[j], centers[closestCenters[j]])], n)
    BY <1>11, Zenon DEF Inertia, Cost, SampleDistance
  <2>3. Inertia' = Total([j \in 1 .. n |-> Distance(samples[j], new[closestCenters[j]])
                                             * Distance(samples[j], new[closestCenters[j]])], n)
    <3>1. Inertia' = Total([j \in Sample' |-> Distance(samples'[j], centers'[closestCenters'[j]])
                              * Distance(samples'[j], centers'[closestCenters'[j]])], Len(samples'))
      BY Zenon DEF Inertia, Cost, SampleDistance
    <3>. QED BY <1>0, <1>1, <1>5, <1>11, <3>1, Zenon
  <2> HIDE DEF n
  <2>. QED BY <1>3, <1>11, <2>1, <2>2, <2>3, InertiaSquares, Zenon
<1>13. Inertia' <= Inertia
  <2>1. centers \in [Center -> Int] /\ NumCenters \in Nat /\ Center = 1 .. NumCenters
    BY <1>0, KmeansAssumption, SMTT(30), Z3T(30) DEF KTypes, Center
  <2>2. \A k \in 1 .. NumCenters :
          \/ Total(Ones(closestCenters, k, n), n) = 0
          \/ Total(Own(samples, closestCenters, k, n), n) = new[k] * Total(Ones(closestCenters, k, n), n)
    BY <1>0, <2>1, MeansOf, Zenon
  <2>3. /\ closestCenters \in [1 .. n -> 1 .. NumCenters] /\ centers \in [1 .. NumCenters -> Int]
        /\ new \in [1 .. NumCenters -> Int]
    BY <1>3, <1>11, <2>1, Zenon
  <2> HIDE DEF n
  <2>4. Squares(samples, closestCenters, new, n) <= Squares(samples, closestCenters, centers, n)
    BY <1>11, <2>1, <2>2, <2>3, MeansBetter, Zenon
  <2>. QED BY <1>12, <2>4, Zenon
<1>14. Inertia \in Int
  <2>1. [j \in Sample |-> Cost(j)] \in [1 .. n -> Int]
    <3>1. \A j \in Sample : Cost(j) \in Int
      <4> TAKE j \in Sample
      <4> DEFINE a == SampleDistance(j, closestCenters[j])
      <4>1. a \in Nat
        BY <1>0, <1>4, DistanceFacts, Zenon
      <4>2. a * a \in Int
        <5> HIDE DEF a
        <5>. QED BY <4>1, SMTT(30), Z3T(30)
      <4>. QED BY <4>2, Zenon DEF Cost
    <3>. QED BY <1>11, <3>1, SMTT(30), Z3T(30)
  <2>. QED BY <1>11, <2>1, TotalType, Zenon DEF Inertia
<1>15. KTypes'
  <2>1. lowerBound' \in [Sample -> [Center -> Nat]]
    <3>1. \A j \in Sample : lowerBound'[j] \in [Center -> Nat]
      <4> TAKE j \in Sample
      <4>1. lowerBound'[j] = [k \in Center |-> lowerBound'[j][k]]
        BY <1>1, ZenonT(30)
      <4>. QED BY <1>9, <4>1, ZenonT(30)
    <3>2. lowerBound' = [j \in Sample |-> lowerBound'[j]]
      BY <1>1, ZenonT(30)
    <3>. QED BY <3>1, <3>2, ZenonT(30)
  <2>2. upperBound' \in [Sample -> Nat]
    BY <1>1, <1>9, ZenonT(30)
  <2>3. iteration' \in Nat /\ sample' \in Nat
    BY <1>0, <1>2, SMTT(30), Z3T(30) DEF KTypes
  <2>4. pc' \in {"done", "sample"}
    BY <1>2, Zenon
  <2>. QED BY <1>0, <1>1, <1>3, <1>5, <1>14, <2>1, <2>2, <2>3, <2>4, ZenonT(30) DEF KTypes
<1>16. KInit' /\ pc' # "center"
  BY <1>2, SMTT(30), Z3T(30) DEF KInit
<1>17. KExact'
  <2>1. Iterating' => iteration' # 0
    BY <1>0, <1>2, SMTT(30), Z3T(30) DEF KTypes, Iterating
  <2>. QED BY <1>16, <2>1, Zenon DEF KExact
<1>18. KClosest'
  <2>1. \A j \in Sample : ~(j < 1)
    BY <1>11, SMTT(30), Z3T(30)
  <2>2. Iterating' => sample' = 1
    BY <1>2, SMTT(30), Z3T(30) DEF Iterating
  <2>. QED BY <1>5, <1>16, <2>1, <2>2, Zenon DEF KClosest
<1>19. InertiaFalls'
  BY <1>0, <1>13, Zenon DEF InertiaFalls
<1>. QED BY <1>10, <1>15, <1>16, <1>17, <1>18, <1>19, Zenon DEF IInv

LEMMA StutterStep ==
  ASSUME IInv, UNCHANGED vars
  PROVE  IInv'
BY Zenon DEF vars, IInv, KTypes, KInit, BoundsHold, KExact, KClosest, InertiaFalls, Iterating, Inertia,
             Cost, SampleDistance, Sample

LEMMA NextInv == IInv /\ [Next]_vars => IInv'
<1> SUFFICES ASSUME IInv, [Next]_vars PROVE IInv'
  BY SMTT(30), Z3T(30)
<1>1. CASE RandomCenters
  BY <1>1, RandomStep, Zenon
<1>2. CASE FirstCenter
  BY <1>2, FirstStep, Zenon
<1>3. CASE InitCenters
  BY <1>3, InitCentersStep, Zenon
<1>4. CASE Assign
  BY <1>4, AssignStep, Zenon
<1>5. CASE NextSample
  BY <1>5, NextSampleStep, Zenon
<1>6. CASE CompareCenter
  BY <1>6, CompareStep, Zenon
<1>7. CASE SampleDone
  BY <1>7, SampleDoneStep, Zenon
<1>8. CASE MoveCenters
  BY <1>8, MoveStep, Zenon
<1>9. CASE Done
  BY <1>9, StutterStep, Zenon DEF Done
<1>10. CASE UNCHANGED vars
  BY <1>10, StutterStep, Zenon
<1>. QED BY <1>1, <1>2, <1>3, <1>4, <1>5, <1>6, <1>7, <1>8, <1>9, <1>10, Zenon DEF Next

LEMMA Invariance == Spec => []IInv
BY InitInv, NextInv, PTL DEF Spec

\* ElkanKmeans never lets a lower bound exceed the distance it bounds, nor an upper bound fall
\* below the distance to the sample's own center, through any number of moves of the centers.
THEOREM KmeansBounds == Spec => []BoundsHold
<1>1. IInv => BoundsHold
  BY Zenon DEF IInv
<1>. QED BY <1>1, Invariance, PTL

\* The distances ElkanKmeans leaves out make no difference: the samples that a pass is done
\* with are assigned to a center that no other one is closer than.
THEOREM KmeansClosest == Spec => []ClosestAssigned
<1>1. IInv => ClosestAssigned
  BY Zenon DEF IInv, KClosest, ClosestAssigned, Iterating
<1>. QED BY <1>1, Invariance, PTL

\* Neither ComputeNewCenters, the centers it draws at random included, nor an assignment of
\* ElkanKmeans makes the sum of the squared distances grow.
THEOREM KmeansInertia == Spec => []InertiaFalls
<1>1. IInv => InertiaFalls
  BY Zenon DEF IInv
<1>. QED BY <1>1, Invariance, PTL
============================================================================
