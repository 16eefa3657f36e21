---------------------------- MODULE CommonLemmas ----------------------------
(***************************************************************************)
(* What the proofs of several modules rest on: induction over the naturals *)
(* for sets (the library's rule takes an operator), from it what the       *)
(* recursive functions of Iteration are, and the division of integers.     *)
(***************************************************************************)
EXTENDS Iteration, TLAPS, WellFoundedInduction

\* Every nonempty set of naturals has a least element.
LEMMA LeastNatural ==
    ASSUME NEW T \in SUBSET Nat, T # {}
    PROVE  \E n \in T : \A m \in T : n <= m
<1> DEFINE R == OpToRel(<, Nat)
<1>1. IsWellFoundedOn(R, Nat)
  BY NatLessThanWellFounded
<1>2. \E n \in T : \A m \in T : ~(<<m, n>> \in R)
  <2> HIDE DEF R
  <2> QED
    BY <1>1, WFMin
<1>3. \A m, n \in Nat : <<m, n>> \in R <=> m < n
  BY DEF OpToRel
<1> HIDE DEF R
<1>4. PICK n \in T : \A m \in T : ~(<<m, n>> \in R)
  BY <1>2
<1>5. \A m \in T : ~(m < n)
  BY <1>3, <1>4
<1> QED
  BY <1>4, <1>5

\* Induction: the set of the numbers with a property is all of Nat.
THEOREM Inductive ==
    ASSUME NEW T \in SUBSET Nat, 0 \in T, \A n \in T : n + 1 \in T
    PROVE  T = Nat
<1> SUFFICES ASSUME T # Nat PROVE FALSE
  OBVIOUS
<1>1. PICK n \in Nat \ T : \A m \in Nat \ T : n <= m
  BY LeastNatural
<1>2. n # 0 /\ n - 1 \in Nat
  BY <1>1
<1>3. n - 1 \in T
  BY <1>1, <1>2
<1> QED
  BY <1>1, <1>3

\* One of finitely many numbers is the greatest.
LEMMA GreatestExists ==
    ASSUME NEW n, n \in Nat, NEW q, q \in [1 .. n + 1 -> Int]
    PROVE  \E m \in 1 .. n + 1 : \A i \in 1 .. n + 1 : q[i] <= q[m]
<1> DEFINE T == {k \in Nat : k <= n => \E m \in 1 .. k + 1 : \A i \in 1 .. k + 1 : q[i] <= q[m]}
<1>1. 0 \in T
  <2>1. \A i \in 1 .. 0 + 1 : i = 1
    OBVIOUS
  <2>2. 1 \in 1 .. n + 1 /\ 1 \in 1 .. 0 + 1
    OBVIOUS
  <2>3. q[1] \in Int
    BY <2>2
  <2>4. q[1] <= q[1]
    BY <2>3
  <2>5. \A i \in 1 .. 0 + 1 : q[i] <= q[1]
    BY <2>1, <2>4
  <2> QED
    BY <2>2, <2>5
<1>2. ASSUME NEW k \in T PROVE k + 1 \in T
  <2> SUFFICES ASSUME k + 1 <= n
               PROVE  \E m \in 1 .. (k + 1) + 1 : \A i \in 1 .. (k + 1) + 1 : q[i] <= q[m]
    OBVIOUS
  <2>1. PICK m \in 1 .. k + 1 : \A i \in 1 .. k + 1 : q[i] <= q[m]
    OBVIOUS
  <2> DEFINE z == (k + 1) + 1
  <2>2. /\ k \in Nat /\ z \in 1 .. n + 1 /\ m \in 1 .. z /\ z \in 1 .. z /\ \A i \in 1 .. z : i \in 1 .. k + 1 \/ i = z
        /\ m \in 1 .. n + 1 /\ \A i \in 1 .. k + 1 : i \in 1 .. n + 1
    BY <2>1
  <2>3. q[m] \in Int /\ q[z] \in Int /\ \A i \in 1 .. k + 1 : q[i] \in Int
    BY <2>2
  <2> HIDE DEF z
  <2>4. CASE q[z] <= q[m]
    BY <2>1, <2>2, <2>4 DEF z
  <2>5. CASE q[m] < q[z]
    <3>1. \A i \in 1 .. z : q[i] <= q[z]
      BY <2>1, <2>2, <2>3, <2>5
    <3> QED
      BY <2>2, <3>1 DEF z
  <2> QED
    BY <2>3, <2>4, <2>5
<1>3. n \in T
  <2>1. T \in SUBSET Nat
    OBVIOUS
  <2> HIDE DEF T
  <2> QED
    BY <1>1, <1>2, <2>1, Inductive
<1> QED
  BY <1>3

-----------------------------------------------------------------------------
(* h holds the first n values of the loop.                                 *)

Runs(a, F, n, h) == h[0] = a /\ \A i \in 1 .. n : h[i] = F[i][h[i - 1]]

\* The first n values exist, for every n.
LEMMA RunExists ==
    ASSUME NEW S, NEW a \in S, NEW F \in [Nat -> [S -> S]]
    PROVE  \A n \in Nat : \E h \in [Nat -> S] : Runs(a, F, n, h)
<1> DEFINE T == {n \in Nat : \E h \in [Nat -> S] : Runs(a, F, n, h)}
<1>1. 0 \in T
  <2>1. [i \in Nat |-> a] \in [Nat -> S] /\ Runs(a, F, 0, [i \in Nat |-> a])
    BY DEF Runs
  <2> QED
    BY <2>1
<1>2. ASSUME NEW n \in T PROVE n + 1 \in T
  <2>1. PICK h \in [Nat -> S] : Runs(a, F, n, h)
    OBVIOUS
  <2> DEFINE next == F[n + 1][h[n]]
             g == [h EXCEPT ![n + 1] = next]
  <2>2. n + 1 \in Nat /\ h[n] \in S
    OBVIOUS
  <2>3. next \in S
    BY <2>2
  <2>4. g \in [Nat -> S]
    BY <2>3
  <2>5. g[n + 1] = next /\ \A i \in 0 .. n : g[i] = h[i]
    BY <2>2
  <2>6. g[0] = a
    BY <2>1, <2>5 DEF Runs
  <2>7. ASSUME NEW i \in 1 .. n + 1 PROVE g[i] = F[i][g[i - 1]]
    <3>1. CASE i = n + 1
      BY <3>1, <2>5
    <3>2. CASE i \in 1 .. n
      BY <3>2, <2>1, <2>5 DEF Runs
    <3> QED
      BY <3>1, <3>2
  <2>8. Runs(a, F, n + 1, g)
    <3> HIDE DEF g, next
    <3> QED
      BY <2>6, <2>7 DEF Runs
  <2> HIDE DEF g, next
  <2> QED
    BY <2>2, <2>4, <2>8
<1>3. T = Nat
  <2>1. T \in SUBSET Nat
    OBVIOUS
  <2> HIDE DEF T
  <2> QED
    BY <1>1, <1>2, <2>1, Inductive
<1> QED
  BY <1>3

\* Two runs agree as far as both go.
LEMMA RunUnique ==
    ASSUME NEW S, NEW a \in S, NEW F \in [Nat -> [S -> S]],
           NEW n \in Nat, NEW h \in [Nat -> S], NEW g \in [Nat -> S],
           Runs(a, F, n, h), Runs(a, F, n, g)
    PROVE  h[n] = g[n]
<1> DEFINE T == {i \in Nat : i > n \/ h[i] = g[i]}
<1>1. 0 \in T
  BY DEF Runs
<1>2. ASSUME NEW i \in T PROVE i + 1 \in T
  <2>1. CASE i + 1 > n
    BY <2>1
  <2>2. CASE i + 1 <= n
    <3>1. h[i] = g[i] /\ i + 1 \in 1 .. n
      BY <2>2
    <3>2. h[i + 1] = F[i + 1][h[i]] /\ g[i + 1] = F[i + 1][g[i]]
      BY <3>1 DEF Runs
    <3> QED
      BY <3>1, <3>2
  <2> QED
    BY <2>1, <2>2
<1>3. T = Nat
  <2>1. T \in SUBSET Nat
    OBVIOUS
  <2> HIDE DEF T
  <2> QED
    BY <1>1, <1>2, <2>1, Inductive
<1> QED
  BY <1>3

\* The recursive definition means what it says: the loop's values are defined, of the
\* state's type, and each follows from the one before.
THEOREM IteratedUnfolds ==
    ASSUME NEW S, NEW a \in S, NEW F \in [Nat -> [S -> S]]
    PROVE  /\ Iterated(a, F) \in [Nat -> S]
           /\ Iterated(a, F)[0] = a
           /\ \A n \in Nat : Iterated(a, F)[n + 1] = F[n + 1][Iterated(a, F)[n]]
<1> DEFINE s == [n \in Nat |-> (CHOOSE h \in [Nat -> S] : Runs(a, F, n, h))[n]]
<1>1. \A n \in Nat : \E h \in [Nat -> S] : Runs(a, F, n, h) /\ s[n] = h[n]
  BY RunExists
<1>2. s[0] = a
  BY <1>1 DEF Runs
<1>3. \A n \in Nat : s[n] \in S
  BY <1>1
<1>4. s \in [Nat -> S]
  BY <1>3
<1> HIDE DEF s
<1>5. ASSUME NEW n \in Nat PROVE s[n + 1] = F[n + 1][s[n]]
  <2>1. PICK h \in [Nat -> S] : Runs(a, F, n, h) /\ s[n] = h[n]
    BY <1>1
  <2>2. PICK g \in [Nat -> S] : Runs(a, F, n + 1, g) /\ s[n + 1] = g[n + 1]
    BY <1>1
  <2>3. Runs(a, F, n, g)
    BY <2>2 DEF Runs
  <2>4. g[n] = h[n]
    BY <2>1, <2>3, RunUnique
  <2>5. g[n + 1] = F[n + 1][g[n]]
    BY <2>2 DEF Runs
  <2> QED
    BY <2>1, <2>2, <2>4, <2>5
<1>6. s = [n \in Nat |-> IF n = 0 THEN a ELSE F[n][s[n - 1]]]
  <2>1. ASSUME NEW n \in Nat PROVE s[n] = IF n = 0 THEN a ELSE F[n][s[n - 1]]
    <3>1. CASE n = 0
      BY <3>1, <1>2
    <3>2. CASE n # 0
      <4>1. n - 1 \in Nat /\ (n - 1) + 1 = n
        BY <3>2
      <4>2. s[(n - 1) + 1] = F[(n - 1) + 1][s[n - 1]]
        BY <4>1, <1>5
      <4> QED
        BY <3>2, <4>1, <4>2
    <3> QED
      BY <3>1, <3>2
  <2> QED
    BY <2>1, <1>4
<1>7. Iterated(a, F) = [n \in Nat |-> IF n = 0 THEN a ELSE F[n][Iterated(a, F)[n - 1]]]
  BY <1>6 DEF Iterated
<1> DEFINE it == Iterated(a, F)
<1>8. it[0] = a
  BY <1>7
<1>9. ASSUME NEW n \in Nat PROVE it[n + 1] = F[n + 1][it[n]]
  <2>1. n + 1 \in Nat /\ n + 1 # 0 /\ (n + 1) - 1 = n
    OBVIOUS
  <2> QED
    BY <1>7, <2>1
<1>10. it = [n \in Nat |-> it[n]]
  BY <1>7
<1> DEFINE T == {n \in Nat : it[n] \in S}
<1>11. T = Nat
  <2> HIDE DEF it
  <2>1. T \in SUBSET Nat /\ 0 \in T
    BY <1>8
  <2>2. ASSUME NEW n \in T PROVE n + 1 \in T
    BY <1>9
  <2> HIDE DEF T
  <2> QED
    BY <2>1, <2>2, Inductive
<1>12. it \in [Nat -> S]
  <2> HIDE DEF it
  <2> QED
    BY <1>10, <1>11
<1> QED
  BY <1>8, <1>9, <1>12

\* Loops whose turns agree as far as n agree as far as n.
THEOREM IteratedAgree ==
    ASSUME NEW S, NEW a \in S, NEW F \in [Nat -> [S -> S]], NEW G \in [Nat -> [S -> S]],
           NEW n \in Nat, \A i \in 1 .. n : F[i] = G[i]
    PROVE  Iterated(a, F)[n] = Iterated(a, G)[n]
<1> DEFINE f == Iterated(a, F)
           g == Iterated(a, G)
           T == {i \in Nat : i > n \/ f[i] = g[i]}
<1>1. f[0] = a /\ g[0] = a
  BY IteratedUnfolds
<1>a. \A i \in Nat : f[i + 1] = F[i + 1][f[i]]
  BY IteratedUnfolds
<1>2. \A i \in Nat : f[i + 1] = F[i + 1][f[i]] /\ g[i + 1] = G[i + 1][g[i]]
  <2>1. \A i \in Nat : g[i + 1] = G[i + 1][g[i]]
    BY IteratedUnfolds
  <2> HIDE DEF f, g
  <2> QED
    BY <1>a, <2>1
<1> HIDE DEF f, g
<1>3. T \in SUBSET Nat /\ 0 \in T
  BY <1>1
<1>4. ASSUME NEW i \in T PROVE i + 1 \in T
  <2>1. CASE i + 1 > n
    BY <2>1
  <2>2. CASE i + 1 <= n
    <3>1. i + 1 \in 1 .. n /\ f[i] = g[i]
      BY <2>2
    <3> QED
      BY <1>2, <3>1
  <2> QED
    BY <2>1, <2>2
<1>5. T = Nat
  <2> HIDE DEF T
  <2> QED
    BY <1>3, <1>4, Inductive
<1>6. f[n] = g[n]
  BY <1>5
<1> QED
  BY <1>6 DEF f, g

-----------------------------------------------------------------------------
(* Sums.                                                                   *)

\* A sum is an integer, of nothing it is 0, and it grows by its next term.
THEOREM SumUnfolds ==
    ASSUME NEW f, \A n \in Nat : f[n] \in Int
    PROVE  /\ SumTo(f) \in [Nat -> Int]
           /\ SumTo(f)[0] = 0
           /\ \A n \in Nat : SumTo(f)[n + 1] = SumTo(f)[n] + f[n + 1]
<1> DEFINE F == [n \in Nat |-> [s \in Int |-> s + f[n]]]
           it == Iterated(0, F)
           Z == Int
<1>1. F \in [Nat -> [Z -> Z]] /\ 0 \in Z
  OBVIOUS
<1>2. SumTo(f) = it
  BY DEF SumTo
<1>3. \A n \in Nat, s \in Z : F[n][s] = s + f[n]
  OBVIOUS
<1>4. it \in [Nat -> Z] /\ it[0] = 0 /\ \A n \in Nat : it[n + 1] = F[n + 1][it[n]]
  <2> HIDE DEF F, Z
  <2> QED
    BY <1>1, IteratedUnfolds
<1> HIDE DEF F, it
<1>5. ASSUME NEW n \in Nat PROVE it[n + 1] = it[n] + f[n + 1]
  <2>1. n + 1 \in Nat /\ it[n] \in Z
    BY <1>4
  <2> QED
    BY <1>3, <1>4, <2>1
<1> QED
  BY <1>2, <1>4, <1>5

\* Sums of terms that agree as far as n are equal as far as n.
THEOREM SumsAgree ==
    ASSUME NEW f, NEW g, NEW n \in Nat,
           \A i \in Nat : f[i] \in Int, \A i \in Nat : g[i] \in Int,
           \A i \in 1 .. n : f[i] = g[i]
    PROVE  SumTo(f)[n] = SumTo(g)[n]
<1> DEFINE sf == SumTo(f)
           sg == SumTo(g)
           T  == {i \in Nat : i > n \/ sf[i] = sg[i]}
<1>1. sf[0] = 0 /\ sg[0] = 0
  BY SumUnfolds
<1>2. \A i \in Nat : sf[i + 1] = sf[i] + f[i + 1] /\ sg[i + 1] = sg[i] + g[i + 1]
  BY SumUnfolds
<1> HIDE DEF sf, sg
<1>3. T \in SUBSET Nat /\ 0 \in T
  BY <1>1
<1>4. ASSUME NEW i \in T PROVE i + 1 \in T
  BY <1>2
<1>5. T = Nat
  <2> HIDE DEF T
  <2> QED
    BY <1>3, <1>4, Inductive
<1>6. sf[n] = sg[n]
  BY <1>5
<1> QED
  BY <1>6 DEF sf, sg

-----------------------------------------------------------------------------
(* Sums of sequences.                                                      *)

\* The sum of a sequence of integers is an integer, of no term it is 0.
THEOREM SeqSumType ==
    ASSUME NEW q \in Seq(Int)
    PROVE  SeqSum(q) \in Int /\ (Len(q) = 0 => SeqSum(q) = 0)
<1> DEFINE f == [i \in Nat |-> IF i \in 1 .. Len(q) THEN q[i] ELSE 0]
<1>1. \A i \in Nat : f[i] \in Int
  OBVIOUS
<1>2. SeqSum(q) = SumTo(f)[Len(q)]
  BY DEF SeqSum
<1> HIDE DEF f
<1>3. Len(q) \in Nat
  OBVIOUS
<1> QED
  BY <1>1, <1>2, <1>3, SumUnfolds

\* A sequence that goes on by one term has a sum greater by that term.
THEOREM SeqSumGrows ==
    ASSUME NEW q \in Seq(Int), NEW r \in Seq(Int),
           Len(r) = Len(q) + 1, \A i \in 1 .. Len(q) : r[i] = q[i]
    PROVE  SeqSum(r) = SeqSum(q) + r[Len(r)]
<1> DEFINE f == [i \in Nat |-> IF i \in 1 .. Len(q) THEN q[i] ELSE 0]
           g == [i \in Nat |-> IF i \in 1 .. Len(r) THEN r[i] ELSE 0]
           n == Len(q)
<1>1. (\A i \in Nat : f[i] \in Int) /\ (\A i \in Nat : g[i] \in Int)
  OBVIOUS
<1>2. n \in Nat /\ \A i \in 1 .. n : f[i] = g[i]
  OBVIOUS
<1>3. g[n + 1] = r[Len(r)]
  OBVIOUS
<1>4. SeqSum(q) = SumTo(f)[n] /\ SeqSum(r) = SumTo(g)[n + 1]
  BY DEF SeqSum
<1> HIDE DEF f, g, n
<1>5. SumTo(f)[n] = SumTo(g)[n]
  BY <1>1, <1>2, SumsAgree
<1>6. SumTo(g)[n + 1] = SumTo(g)[n] + g[n + 1]
  BY <1>1, <1>2, SumUnfolds
<1> QED
  BY <1>3, <1>4, <1>5, <1>6

-----------------------------------------------------------------------------
(* Whole numbers.                                                          *)

\* Multiplication by a positive number keeps the order.
LEMMA Spaced ==
    ASSUME NEW d \in Nat \ {0}, NEW i \in Int, NEW j \in Int, i < j
    PROVE  i * d \in Int /\ j * d \in Int /\ i * d + d <= j * d
<1>1. (j - i) * d >= d
  OBVIOUS
<1> QED
  BY <1>1

\* The length of a sequence is that of its domain.
LEMMA LengthIs ==
    ASSUME NEW i \in Nat, NEW j \in Nat, 1 .. i = 1 .. j
    PROVE  i = j
<1> SUFFICES ASSUME i # j PROVE FALSE
  OBVIOUS
<1>1. CASE i < j
  <2>1. j \in 1 .. j /\ j \notin 1 .. i
    BY <1>1
  <2> QED
    BY <2>1
<1>2. CASE j < i
  <2>1. i \in 1 .. i /\ i \notin 1 .. j
    BY <1>2
  <2> QED
    BY <2>1
<1> QED
  BY <1>1, <1>2

\* A quotient is where it should be, and nothing else is.
LEMMA Quotient ==
    ASSUME NEW a \in Int, NEW d \in Nat \ {0}
    PROVE  /\ a \div d \in Int
           /\ (a \div d) * d <= a /\ a < (a \div d) * d + d
OBVIOUS

LEMMA QuotientIs ==
    ASSUME NEW a \in Int, NEW d \in Nat \ {0}, NEW q \in Int, q * d <= a, a < q * d + d
    PROVE  a \div d = q
<1> DEFINE p == a \div d
<1>1. p \in Int /\ p * d <= a /\ a < p * d + d
  BY Quotient
<1> HIDE DEF p
<1>2. ASSUME p < q PROVE FALSE
  <2>1. p * d \in Int /\ q * d \in Int /\ p * d + d <= q * d
    BY <1>1, <1>2, Spaced
  <2> QED
    BY <1>1, <2>1
<1>3. ASSUME q < p PROVE FALSE
  <2>1. p * d \in Int /\ q * d \in Int /\ q * d + d <= p * d
    BY <1>1, <1>3, Spaced
  <2> QED
    BY <1>1, <2>1
<1>4. p = q
  BY <1>1, <1>2, <1>3
<1> QED
  BY <1>4 DEF p

\* Remainders and multiples.
LEMMA Remainder ==
    ASSUME NEW i \in Int, NEW n \in Nat, n > 0
    PROVE  /\ i % n \in Int /\ 0 <= i % n /\ i % n < n
           /\ i \div n \in Int
           /\ i = n * (i \div n) + (i % n)
OBVIOUS

LEMMA Unique ==
    ASSUME NEW n \in Nat, n > 0, NEW k \in Int, NEW r \in 0 .. n - 1
    PROVE  (n * k + r) % n = r
OBVIOUS

LEMMA Near ==
    ASSUME NEW n \in Nat, n > 0, NEW k \in Int, NEW d \in Int, d = n * k, -n < d, d < n
    PROVE  d = 0
OBVIOUS

\* A remainder may be taken before an addition as well as after it.
LEMMA RemainderAdds ==
    ASSUME NEW n \in Nat, n > 0, NEW i \in Int, NEW j \in Int
    PROVE  ((i % n) + j) % n = (i + j) % n
<1> DEFINE r == i % n
           q == i \div n
           s == (r + j) % n
           p == (r + j) \div n
<1>1. r \in Int /\ q \in Int /\ i = n * q + r
  BY Remainder
<1>2. r + j \in Int
  BY <1>1
<1>3. s \in Int /\ 0 <= s /\ s < n /\ p \in Int /\ r + j = n * p + s
  <2> HIDE DEF r
  <2> QED
    BY <1>2, Remainder
<1> HIDE DEF r, q, s, p
<1>4. n * (q + p) = n * q + n * p /\ n * q \in Int /\ n * p \in Int
  BY <1>1, <1>3
<1>5. i + j = n * (q + p) + s
  BY <1>1, <1>3, <1>4
<1>6. s \in 0 .. n - 1 /\ q + p \in Int
  BY <1>1, <1>3
<1>7. (i + j) % n = s
  BY <1>5, <1>6, Unique
<1> QED
  BY <1>7 DEF s, r

\* Numbers less than n apart have different remainders.
LEMMA RemaindersDiffer ==
    ASSUME NEW n \in Nat, n > 0, NEW i \in Int, NEW j \in Int, i < j, j < i + n
    PROVE  i % n # j % n
<1> SUFFICES ASSUME i % n = j % n PROVE FALSE
  OBVIOUS
<1> DEFINE q == i \div n
           p == j \div n
           r == i % n
<1>1. q \in Int /\ p \in Int /\ r \in Int /\ i = n * q + r /\ j = n * p + r
  BY Remainder
<1> HIDE DEF q, p, r
<1>2. n * (p - q) = n * p - n * q /\ n * p \in Int /\ n * q \in Int
  BY <1>1
<1>3. j - i = n * (p - q) /\ j - i \in Int /\ p - q \in Int
  BY <1>1, <1>2
<1>4. -n < j - i /\ j - i < n
  OBVIOUS
<1>5. j - i = 0
  BY <1>3, <1>4, Near
<1> QED
  BY <1>5
=============================================================================
