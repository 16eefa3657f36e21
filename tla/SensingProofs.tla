---------------------------- MODULE SensingProofs ----------------------------
(***************************************************************************)
(* Proofs about sensing: the counting of an axis, for every width of the   *)
(* counter, every set of moves, lags and circumferences the assumption     *)
(* admits; and the sampled blocks of a signal path, for every capacity,    *)
(* band, margin and rate, and every sequence of samples and resets.        *)
(***************************************************************************)
EXTENDS AxisCounting, SignalPath, CommonLemmas, FiniteSetTheorems, TLAPS

(***************************************************************************)
(* Integers modulo the counter's range.                                    *)
(***************************************************************************)

\* Signed() is the representative of its argument in the counter's range.
LEMMA SignedRange ==
    ASSUME NEW i \in Int
    PROVE  /\ Signed(i) \in -HalfRange .. HalfRange - 1
           /\ Signed(i) \in Int
           /\ \E k \in Int : Signed(i) = i + 2 * HalfRange * k
<1> DEFINE n == 2 * HalfRange
           q == (i + HalfRange) \div n
<1>1. HalfRange \in Nat /\ HalfRange > 0 /\ n \in Nat /\ n > 0
  BY AxisAssumption
<1>2. /\ (i + HalfRange) % n \in Int /\ 0 <= (i + HalfRange) % n /\ (i + HalfRange) % n < n
      /\ q \in Int /\ i + HalfRange = n * q + ((i + HalfRange) % n)
  BY <1>1, Remainder
<1>3. Signed(i) = ((i + HalfRange) % n) - HalfRange
  BY DEF Signed
<1>4. Signed(i) = i - n * q
  BY <1>1, <1>2, <1>3
<1>5. -q \in Int /\ n * (-q) = -(n * q)
  BY <1>1, <1>2
<1>6. Signed(i) = i + n * (-q)
  BY <1>1, <1>2, <1>4, <1>5
<1>7. Signed(i) \in -HalfRange .. HalfRange - 1
  BY <1>1, <1>2, <1>3
<1>8. \E k \in Int : Signed(i) = i + 2 * HalfRange * k
  <2> HIDE DEF q
  <2>1. -q \in Int
    BY <1>5
  <2> QED
    BY <2>1, <1>6
<1> QED
  BY <1>1, <1>7, <1>8

\* Values that differ by whole turns of the counter have one representative, and it is
\* the value itself in the counter's range.
LEMMA SignedUnique ==
    ASSUME NEW i \in Int, NEW k \in Int, NEW r \in -HalfRange .. HalfRange - 1,
           i = r + 2 * HalfRange * k
    PROVE  Signed(i) = r
<1> DEFINE n == 2 * HalfRange
<1>1. HalfRange \in Nat /\ HalfRange > 0 /\ n \in Nat /\ n > 0
  BY AxisAssumption
<1>2. r + HalfRange \in 0 .. n - 1
  BY <1>1
<1>3. i + HalfRange = n * k + (r + HalfRange)
  BY <1>1
<1>4. (i + HalfRange) % n = r + HalfRange
  BY <1>1, <1>2, <1>3, Unique
<1> QED
  BY <1>1, <1>4 DEF Signed

LEMMA Factored ==
    ASSUME NEW n \in Int, NEW a \in Int, NEW b \in Int
    PROVE  /\ n * a + n * b = n * (a + b) /\ n * a - n * b = n * (a - b)
           /\ a + b \in Int /\ a - b \in Int
OBVIOUS

LEMMA SignedSame ==
    ASSUME NEW i \in Int, NEW j \in Int, NEW k \in Int, i = j + 2 * HalfRange * k
    PROVE  Signed(i) = Signed(j)
<1> DEFINE n == 2 * HalfRange
<1>1. HalfRange \in Nat /\ n \in Int
  BY AxisAssumption
<1>2. PICK l \in Int : Signed(j) = j + n * l
  BY SignedRange
<1>3. Signed(j) \in -HalfRange .. HalfRange - 1
  BY SignedRange
<1>4. k - l \in Int /\ n * k - n * l = n * (k - l) /\ n * k \in Int /\ n * l \in Int
  BY <1>1, <1>2, Factored
<1>5. i = Signed(j) + n * (k - l)
  BY <1>1, <1>2, <1>3, <1>4
<1> QED
  BY <1>3, <1>4, <1>5, SignedUnique

\* A count goes on from its representative as it would from itself.
LEMMA SignedAdd ==
    ASSUME NEW i \in Int, NEW d \in Int
    PROVE  Signed(Signed(i) + d) = Signed(i + d)
<1>1. PICK k \in Int : Signed(i) = i + 2 * HalfRange * k
  BY SignedRange
<1>2. HalfRange \in Nat /\ 2 * HalfRange * k \in Int /\ Signed(i) \in Int
  BY AxisAssumption, SignedRange
<1>3. Signed(i) + d = (i + d) + 2 * HalfRange * k
  BY <1>1, <1>2
<1>4. Signed(i) + d \in Int /\ i + d \in Int
  BY <1>2
<1> QED
  BY <1>3, <1>4, SignedSame, Zenon

\* wrapped_delta() is the difference of two counts, up to whole turns of the counter.
LEMMA DeltaCongruent ==
    ASSUME NEW a \in Int, NEW b \in Int
    PROVE  /\ Delta(b, a) \in Int
           /\ \E k \in Int : Delta(b, a) = (a - b) + 2 * HalfRange * k
<1> DEFINE n == 2 * HalfRange
           m == (b \div n) - (a \div n)
<1>1. HalfRange \in Nat /\ n \in Nat /\ n > 0
  BY AxisAssumption
<1>2. /\ a = n * (a \div n) + (a % n) /\ a \div n \in Int /\ a % n \in Int
      /\ b = n * (b \div n) + (b % n) /\ b \div n \in Int /\ b % n \in Int
  BY <1>1, Remainder
<1>3. /\ m \in Int /\ n * (b \div n) - n * (a \div n) = n * m
      /\ n * (b \div n) \in Int /\ n * (a \div n) \in Int
  BY <1>1, <1>2, Factored
<1> HIDE DEF m
<1>4. (a % n) - (b % n) \in Int /\ (a % n) - (b % n) = (a - b) + n * m
  BY <1>1, <1>2, <1>3
<1>5. PICK l \in Int : Signed((a % n) - (b % n)) = ((a % n) - (b % n)) + n * l
  BY <1>4, SignedRange
<1>6. m + l \in Int /\ n * m + n * l = n * (m + l) /\ n * m \in Int /\ n * l \in Int
  BY <1>1, <1>3, <1>5, Factored
<1>7. Signed((a % n) - (b % n)) = (a - b) + n * (m + l)
  BY <1>4, <1>5, <1>6
<1>8. Signed((a % n) - (b % n)) \in Int
  BY <1>4, SignedRange
<1>9. Delta(b, a) = Signed((a % n) - (b % n))
  BY DEF Delta, Unsigned
<1> QED
  BY <1>6, <1>7, <1>8, <1>9

\* It is exact while the two are less than half the range apart.
LEMMA DeltaExact ==
    ASSUME NEW i \in Int, NEW j \in Int, i - j < HalfRange, j - i < HalfRange
    PROVE  Delta(Signed(j), Signed(i)) = i - j
<1> DEFINE n == 2 * HalfRange
           d == Delta(Signed(j), Signed(i))
<1>1. HalfRange \in Nat /\ HalfRange > 0 /\ n \in Nat /\ n > 0
  BY AxisAssumption
<1>2. PICK k \in Int : Signed(i) = i + n * k
  BY SignedRange
<1>3. PICK l \in Int : Signed(j) = j + n * l
  BY SignedRange
<1>4. Signed(i) \in Int /\ Signed(j) \in Int
  BY SignedRange
<1>5. d \in Int /\ \E h \in Int : d = (Signed(i) - Signed(j)) + n * h
  BY <1>4, DeltaCongruent
<1>6. PICK h \in Int : d = (Signed(i) - Signed(j)) + n * h
  BY <1>5
<1>7. d \in -HalfRange .. HalfRange - 1
  <2>1. Unsigned(Signed(i)) \in Int /\ Unsigned(Signed(j)) \in Int
    BY <1>1, <1>4, Remainder DEF Unsigned
  <2>2. Unsigned(Signed(i)) - Unsigned(Signed(j)) \in Int
    BY <2>1
  <2> QED
    BY <2>2, SignedRange DEF Delta
<1>8. k - l \in Int /\ n * k - n * l = n * (k - l) /\ n * k \in Int /\ n * l \in Int
  BY <1>1, <1>2, <1>3, Factored
<1>9. (k - l) + h \in Int /\ n * (k - l) + n * h = n * ((k - l) + h) /\ n * (k - l) \in Int /\ n * h \in Int
  BY <1>1, <1>6, <1>8, Factored
<1> HIDE DEF d
<1>10. d - (i - j) = n * ((k - l) + h)
  BY <1>1, <1>2, <1>3, <1>5, <1>6, <1>8, <1>9
<1>11. d - (i - j) \in Int /\ -n < d - (i - j) /\ d - (i - j) < n
  BY <1>1, <1>5, <1>7
<1>12. d - (i - j) = 0
  BY <1>1, <1>9, <1>10, <1>11, Near
<1> QED
  BY <1>5, <1>12 DEF d

\* Two values less than half a range apart that share a count are one.
LEMMA SignedOneToOne ==
    ASSUME NEW i \in Int, NEW j \in Int, i - j < HalfRange, j - i < HalfRange,
           Signed(i) = Signed(j)
    PROVE  i = j
<1> DEFINE n == 2 * HalfRange
<1>1. HalfRange \in Nat /\ HalfRange > 0 /\ n \in Nat /\ n > 0
  BY AxisAssumption
<1>2. PICK k \in Int : Signed(i) = i + n * k
  BY SignedRange
<1>3. PICK l \in Int : Signed(j) = j + n * l
  BY SignedRange
<1>4. l - k \in Int /\ n * l - n * k = n * (l - k) /\ n * l \in Int /\ n * k \in Int
  BY <1>1, <1>2, <1>3, Factored
<1>5. i - j = n * (l - k)
  <2>1. i + n * k = j + n * l
    BY <1>2, <1>3
  <2> QED
    BY <2>1, <1>1, <1>4
<1>6. i - j \in Int /\ -n < i - j /\ i - j < n
  BY <1>1
<1>7. i - j = 0
  BY <1>1, <1>4, <1>5, <1>6, Near
<1> QED
  BY <1>7

(***************************************************************************)
(* The lines, and what a decoder makes of a step from quarter a to b.      *)
(***************************************************************************)

LEMMA LinesOf ==
    ASSUME NEW q \in Int
    PROVE  /\ q % 4 \in {0, 1, 2, 3}
           /\ q % 4 = 0 => Lines(q) = 0
           /\ q % 4 = 1 => Lines(q) = 1
           /\ q % 4 = 2 => Lines(q) = 3
           /\ q % 4 = 3 => Lines(q) = 2
BY DEF Lines

LEMMA Table ==
    /\ Transition[1] = 0 /\ Transition[2] = 1 /\ Transition[3] = -1 /\ Transition[4] = 0
    /\ Transition[5] = -1 /\ Transition[6] = 0 /\ Transition[7] = 0 /\ Transition[8] = 1
    /\ Transition[9] = 1 /\ Transition[10] = 0 /\ Transition[11] = 0 /\ Transition[12] = -1
    /\ Transition[13] = 0 /\ Transition[14] = -1 /\ Transition[15] = 1 /\ Transition[16] = 0
BY DEF Transition

LEMMA DirectionIs ==
    ASSUME NEW a \in Int, NEW b \in Int, prev = Lines(a)
    PROVE  /\ Direction(Lines(b)) \in {-1, 0, 1}
           /\ (Direction(Lines(b)) - (b - a)) % 2 = 0
           /\ b - a \in -1 .. 1 => Direction(Lines(b)) = b - a
<1>1. CASE a % 4 = 0
  BY <1>1, LinesOf, Table DEF Direction
<1>2. CASE a % 4 = 1
  BY <1>2, LinesOf, Table DEF Direction
<1>3. CASE a % 4 = 2
  BY <1>3, LinesOf, Table DEF Direction
<1>4. CASE a % 4 = 3
  BY <1>4, LinesOf, Table DEF Direction
<1> QED
  BY <1>1, <1>2, <1>3, <1>4, LinesOf

\* A step of at most a quarter is counted exactly when it crosses an edge of the mode.
LEMMA EdgesCounted ==
    ASSUME NEW a \in Int, NEW b \in Int, prev = Lines(a), b - a \in -1 .. 1,
           NEW mode \in Modes
    PROVE  Edges(mode, b) = IF Counts(mode, Lines(b)) THEN Edges(mode, a) + (b - a)
                            ELSE Edges(mode, a)
<1>1. Direction(Lines(b)) = b - a
  BY DirectionIs
<1>2. /\ Lines(a) \div 2 = (IF a % 4 \in {2, 3} THEN 1 ELSE 0)
      /\ Lines(b) \div 2 = (IF b % 4 \in {2, 3} THEN 1 ELSE 0)
  <2>1. ASSUME NEW q \in Int PROVE Lines(q) \div 2 = (IF q % 4 \in {2, 3} THEN 1 ELSE 0)
    BY LinesOf
  <2> QED
    BY <2>1
<1>3. AChanged(Lines(b)) <=> (a % 4 \in {2, 3}) # (b % 4 \in {2, 3})
  BY <1>2 DEF AChanged
<1>4. CASE mode = "X4"
  BY <1>1, <1>4 DEF Counts, Edges
<1>5. CASE mode = "X2"
  <2>1. Counts(mode, Lines(b)) <=> (a % 4 \in {2, 3}) # (b % 4 \in {2, 3})
    BY <1>3, <1>5 DEF Counts
  <2>2. Edges(mode, a) = a \div 2 /\ Edges(mode, b) = b \div 2
    BY <1>5 DEF Edges
  <2> QED
    BY <2>1, <2>2
<1>6. CASE mode = "X1"
  <2>1. Counts(mode, Lines(b)) <=>
          /\ (a % 4 \in {2, 3}) # (b % 4 \in {2, 3})
          /\ b - a > 0 <=> b % 4 \in {2, 3}
    BY <1>1, <1>2, <1>3, <1>6 DEF Counts
  <2>2. Edges(mode, a) = (a + 2) \div 4 /\ Edges(mode, b) = (b + 2) \div 4
    BY <1>6 DEF Edges
  <2> QED
    BY <2>1, <2>2
<1> QED
  BY <1>4, <1>5, <1>6 DEF Modes

(***************************************************************************)
(* Positions split into periods and a fraction.                            *)
(***************************************************************************)

LEMMA WrapOf ==
    ASSUME NEW p \in Int
    PROVE  /\ Wrap(p) \in -8 .. 7
           /\ p = 16 * ((p + 8) \div 16) + Wrap(p) /\ (p + 8) \div 16 \in Int
BY DEF Wrap, Period

LEMMA SplitOf ==
    ASSUME NEW whole \in Int, NEW frac \in Int
    PROVE  /\ Split(whole, frac).whole \in Int
           /\ Split(whole, frac).frac \in -8 .. 7
           /\ Value(Split(whole, frac)) = 16 * whole + frac
<1> DEFINE rest == Rem(frac, Period)
<1>1. /\ rest \in -15 .. 15 /\ (frac - rest) \div 16 \in Int
      /\ frac - rest = 16 * ((frac - rest) \div 16)
  BY DEF Rem, Period
<1> HIDE DEF rest
<1>2. Split(whole, frac) =
        LET fold == IF 2 * rest >= 16 THEN 1 ELSE IF 2 * rest < -16 THEN -1 ELSE 0
        IN [whole |-> whole + (frac - rest) \div 16 + fold, frac |-> rest - 16 * fold]
  <2>1. CASE 2 * rest >= 16
    BY <2>1, <1>1 DEF Split, Period, rest
  <2>2. CASE 2 * rest < -16
    BY <2>2, <1>1 DEF Split, Period, rest
  <2>3. CASE ~(2 * rest >= 16) /\ ~(2 * rest < -16)
    BY <2>3, <1>1 DEF Split, Period, rest
  <2> QED
    BY <2>1, <2>2, <2>3
<1> QED
  BY <1>1, <1>2 DEF Value, Period

\* The period of the count q seen with a fraction, at a comparator error of lag.
LEMMA CombineOf ==
    ASSUME NEW p \in Int, NEW lag \in -6 .. 5
    PROVE  Value(Combine((p + lag) \div 4, Wrap(p))) = p
<1> DEFINE q == (p + lag) \div 4
           f == Wrap(p)
           w == (p + 8) \div 16
           n == (4 * (q % 4) - f + 10) \div 16
<1>1. f \in -8 .. 7 /\ p = 16 * w + f /\ w \in Int
  BY WrapOf
<1>2. q \in Int /\ 4 * q <= p + lag /\ p + lag < 4 * q + 4
  OBVIOUS
<1> HIDE DEF q, f, w
<1>3. q \div 4 \in Int /\ q % 4 \in 0 .. 3 /\ q = 4 * (q \div 4) + (q % 4)
  BY <1>2
<1>4. 16 * (q \div 4) + (4 * (q % 4) - f + 10) \in 16 * w .. 16 * w + 15
  BY <1>1, <1>2, <1>3
<1>5. n \in Int /\ (q \div 4) + n = w
  BY <1>1, <1>3, <1>4
<1> HIDE DEF n
<1>6. Combine(q, f) = Split(w, f)
  BY <1>5 DEF Combine, PerQuarter, Period, n
<1>7. Value(Combine(q, f)) = p
  BY <1>1, <1>6, SplitOf
<1> QED
  BY <1>7 DEF q, f

LEMMA UnwrappedOf ==
    ASSUME NEW p \in Int, NEW move \in -7 .. 7, turns.whole \in Int, turns.frac \in Int,
           Value(turns) + move = p
    PROVE  /\ Unwrapped(Wrap(p)).whole \in Int
           /\ Unwrapped(Wrap(p)).frac \in -8 .. 7
           /\ Value(Unwrapped(Wrap(p))) = p
<1> DEFINE f == Wrap(p)
           w == (p + 8) \div 16
<1>1. f \in -8 .. 7 /\ p = 16 * w + f /\ w \in Int
  BY WrapOf
<1> HIDE DEF f, w
<1>2. f - turns.frac = 16 * (turns.whole - w) + move
  BY <1>1 DEF Value, Period
<1>3. Wrap(f - turns.frac) = move
  BY <1>1, <1>2 DEF Wrap, Period
<1>4. Unwrapped(f) = Split(turns.whole, turns.frac + move)
  BY <1>3 DEF Unwrapped
<1>5. turns.frac + move \in Int
  OBVIOUS
<1>6. 16 * turns.whole + (turns.frac + move) = p
  BY <1>5 DEF Value, Period
<1> QED
  BY <1>4, <1>5, <1>6, SplitOf DEF f

LEMMA RemOf ==
    ASSUME NEW a \in Int, NEW n \in Nat, n > 0
    PROVE  Rem(a, n) \in Int /\ \E k \in Int : Rem(a, n) = a + n * k
<1>1. CASE a >= 0
  <2>1. a % n \in Int /\ a \div n \in Int /\ a = n * (a \div n) + (a % n)
    BY Remainder
  <2>2. -(a \div n) \in Int /\ n * (-(a \div n)) = -(n * (a \div n)) /\ n * (a \div n) \in Int
    BY <2>1
  <2>3. a % n = a + n * (-(a \div n))
    BY <2>1, <2>2
  <2> QED
    BY <1>1, <2>1, <2>2, <2>3 DEF Rem
<1>2. CASE ~(a >= 0)
  <2> DEFINE b == -a
  <2>1. b \in Int
    OBVIOUS
  <2>2. b % n \in Int /\ b \div n \in Int /\ b = n * (b \div n) + (b % n)
    BY <2>1, Remainder
  <2>3. n * (b \div n) \in Int
    BY <2>2
  <2>4. -(b % n) = a + n * (b \div n)
    BY <2>2, <2>3
  <2>5. Rem(a, n) = -(b % n)
    BY <1>2 DEF Rem
  <2> QED
    BY <2>2, <2>4, <2>5
<1> QED
  BY <1>1, <1>2

\* AxisPosition::wrapped(): within half a turn, and whole turns off its argument.
LEMMA CircularOf ==
    ASSUME NEW whole \in Int, NEW frac \in Int, NEW wrap \in Nat, wrap > 0
    PROVE  /\ Circular(whole, frac, wrap) \in Int
           /\ 2 * Circular(whole, frac, wrap) \in -(16 * wrap) .. 16 * wrap
           /\ \E k \in Int : Circular(whole, frac, wrap) = 16 * whole + frac + (16 * wrap) * k
<1> DEFINE rem == Rem(whole, wrap)
           r == CASE rem > wrap \div 2    -> rem - wrap
                  [] rem < -(wrap \div 2) -> rem + wrap
                  [] OTHER                -> rem
           x == 16 * r + frac
           circle == 16 * wrap
           j == (2 * x + circle) \div (2 * circle)
<1>1. rem \in Int /\ \E k \in Int : rem = whole + wrap * k
  BY RemOf
<1>2. PICK k \in Int : rem = whole + wrap * k
  BY <1>1
<1> HIDE DEF rem
<1>3. r \in {rem - wrap, rem + wrap, rem}
  <2>1. CASE rem > wrap \div 2
    BY <2>1
  <2>2. CASE ~(rem > wrap \div 2) /\ rem < -(wrap \div 2)
    BY <2>2, <1>1
  <2>3. CASE ~(rem > wrap \div 2) /\ ~(rem < -(wrap \div 2))
    BY <2>3
  <2> QED
    BY <2>1, <2>2, <2>3
<1>4. Circular(whole, frac, wrap) = x - circle * j
  BY DEF Circular, Period, rem
<1> HIDE DEF r
<1>5. PICK l \in Int : r = whole + wrap * l
  <2>1. CASE r = rem - wrap
    <3>1. k - 1 \in Int /\ wrap * (k - 1) = wrap * k - wrap /\ wrap * k \in Int
      BY <1>2
    <3>2. r = whole + wrap * (k - 1)
      BY <2>1, <3>1, <1>2
    <3> QED
      BY <3>1, <3>2
  <2>2. CASE r = rem + wrap
    <3>1. k + 1 \in Int /\ wrap * (k + 1) = wrap * k + wrap /\ wrap * k \in Int
      BY <1>2
    <3>2. r = whole + wrap * (k + 1)
      BY <2>2, <3>1, <1>2
    <3> QED
      BY <3>1, <3>2
  <2>3. CASE r = rem
    BY <2>3, <1>2
  <2> QED
    BY <1>3, <2>1, <2>2, <2>3
<1>6. wrap * l \in Int /\ 16 * (wrap * l) = circle * l /\ circle \in Nat /\ circle > 0 /\ r \in Int
  BY <1>5
<1>7. x \in Int /\ x = 16 * whole + frac + circle * l /\ circle * l \in Int
  BY <1>5, <1>6
<1> HIDE DEF x, circle
<1> DEFINE y == 2 * x + circle
           m == 2 * circle
<1>8. /\ y \in Int /\ m \in Nat /\ m > 0
      /\ y % m \in Int /\ 0 <= y % m /\ y % m < m
      /\ y \div m \in Int /\ y = m * (y \div m) + (y % m)
  <2>1. y \in Int /\ m \in Nat /\ m > 0
    BY <1>6, <1>7
  <2> HIDE DEF y, m
  <2> QED
    BY <2>1, Remainder
<1>9. j \in Int /\ j = y \div m /\ circle * j \in Int /\ m * j = 2 * (circle * j)
  BY <1>6, <1>8
<1> HIDE DEF j
<1>10. x - circle * j \in Int /\ 2 * (x - circle * j) = (y % m) - circle
  BY <1>6, <1>7, <1>8, <1>9
<1>11. 2 * (x - circle * j) \in -circle .. circle
  BY <1>6, <1>8, <1>10
<1>12. l - j \in Int /\ circle * l - circle * j = circle * (l - j)
  BY <1>5, <1>6, <1>9, Factored
<1>13. x - circle * j = 16 * whole + frac + circle * (l - j)
  BY <1>7, <1>9, <1>12
<1> QED
  BY <1>4, <1>10, <1>11, <1>12, <1>13 DEF circle

LEMMA WholeTurns ==
    ASSUME NEW n \in Nat, n > 0, NEW k \in Int
    PROVE  (n * k) % n = 0
<1>1. 0 \in 0 .. n - 1 /\ n * k + 0 = n * k
  OBVIOUS
<1>2. (n * k + 0) % n = 0
  BY <1>1, Unique
<1> QED
  BY <1>1, <1>2

(***************************************************************************)
(* The inductive invariant: the unwrapped phase is the position, the three *)
(* decoders saw the lines of the quarter, the consumer's total is its last *)
(* reading but for rollovers, and while no edge was missed every count is  *)
(* that of the quarter, from which the consumer is less than half a range  *)
(* away.                                                                   *)
(***************************************************************************)

Numbers ==
    /\ axis \in Int /\ total \in Int /\ quarter \in Int
    /\ turns.whole \in Int /\ turns.frac \in -8 .. 7
    /\ count \in [Modes -> -HalfRange .. HalfRange - 1]

Tracks ==
    /\ Value(turns) = axis
    /\ prev = Lines(quarter)
    /\ read = Signed(total)

Parity == (count["X4"] - quarter) % 2 = 0

Counted ==
    ~missed =>
        /\ \A m \in Modes : count[m] = Signed(Edges(m, quarter))
        /\ KeepsUp(quarter)

Inv == Numbers /\ Tracks /\ Parity /\ Counted

LEMMA Zero == Signed(0) = 0 /\ Lines(0) = 0 /\ KeepsUp(0) \in BOOLEAN
<1>1. HalfRange \in Nat /\ HalfRange > 0
  BY AxisAssumption
<1>2. 0 \in -HalfRange .. HalfRange - 1 /\ 0 = 0 + 2 * HalfRange * 0
  BY <1>1
<1>3. Signed(0) = 0
  BY <1>2, SignedUnique
<1> QED
  BY <1>3, LinesOf DEF KeepsUp

\* A start from the zero of counter and consumer, at any phase.
LEMMA FromZero ==
    ASSUME NEW p \in Int, axis' = p, turns' = Split(0, p),
           quarter' = 0, prev' = Lines(0), total' = 0, read' = 0,
           count' = [m \in Modes |-> 0]
    PROVE  Inv'
<1>1. HalfRange \in Nat /\ HalfRange > 0
  BY AxisAssumption
<1>2. /\ Split(0, p).whole \in Int /\ Split(0, p).frac \in -8 .. 7
      /\ Value(Split(0, p)) = 16 * 0 + p
  <2>1. 0 \in Int
    OBVIOUS
  <2> QED
    BY <2>1, SplitOf, Zenon
<1>3. Numbers'
  BY <1>1, <1>2 DEF Numbers
<1>4. Tracks'
  BY <1>2, Zero DEF Tracks
<1>5. Parity'
  BY DEF Parity, Modes
<1>6. Counted'
  <2>1. ASSUME NEW m \in Modes PROVE Edges(m, 0) = 0
    BY DEF Edges, Modes
  <2> QED
    BY <1>1, <2>1, Zero DEF Counted, KeepsUp
<1> QED
  BY <1>3, <1>4, <1>5, <1>6 DEF Inv

LEMMA InitInv == Init => Inv
<1> SUFFICES ASSUME Init PROVE Inv
  OBVIOUS
<1>1. HalfRange \in Nat /\ HalfRange > 0
  BY AxisAssumption
<1>2. /\ Split(0, 0).whole \in Int /\ Split(0, 0).frac \in -8 .. 7
      /\ Value(Split(0, 0)) = 16 * 0 + 0
  BY SplitOf
<1>3. Numbers
  BY <1>1, <1>2 DEF Numbers, Init
<1>4. Tracks
  BY <1>2, Zero DEF Tracks, Init
<1>5. Parity
  BY DEF Parity, Init, Modes
<1>6. Counted
  <2>1. ASSUME NEW m \in Modes PROVE Edges(m, 0) = 0
    BY DEF Edges, Modes
  <2> QED
    BY <1>1, <2>1, Zero DEF Counted, KeepsUp, Init
<1> QED
  BY <1>3, <1>4, <1>5, <1>6 DEF Inv

LEMMA SampleInv ==
    ASSUME Inv, NEW move \in Moves, NEW lag \in Lags, Sample(move, lag)
    PROVE  Inv'
<1> DEFINE p == axis + move
           q == (p + lag) \div 4
<1>1. HalfRange \in Nat /\ HalfRange > 0 /\ move \in -7 .. 7 /\ lag \in -6 .. 5
  BY AxisAssumption
<1>2. p \in Int /\ q \in Int /\ Value(turns) + move = p
  BY <1>1 DEF Inv, Numbers, Tracks
<1>3. /\ axis' = p /\ quarter' = q /\ prev' = Lines(q) /\ count' = Updated(Lines(q))
      /\ turns' = Unwrapped(Wrap(p))
      /\ missed' = (missed \/ q - quarter \notin -1 .. 1)
      /\ missed \/ KeepsUp(q)
      /\ read' = read /\ total' = total
  BY DEF Sample, PerQuarter
<1>4. /\ turns'.whole \in Int /\ turns'.frac \in -8 .. 7 /\ Value(turns') = p
  <2>1. turns.whole \in Int /\ turns.frac \in Int
    BY DEF Inv, Numbers
  <2> HIDE DEF p, q
  <2>2. /\ Unwrapped(Wrap(p)).whole \in Int /\ Unwrapped(Wrap(p)).frac \in -8 .. 7
        /\ Value(Unwrapped(Wrap(p))) = p
    BY <2>1, <1>1, <1>2, UnwrappedOf
  <2> QED
    BY <2>2, <1>3
<1> HIDE DEF p, q
<1>5. quarter \in Int /\ prev = Lines(quarter) /\ total \in Int /\ read = Signed(total)
  BY DEF Inv, Numbers, Tracks
<1> DEFINE dir == Direction(Lines(q))
<1>6. /\ dir \in {-1, 0, 1} /\ (dir - (q - quarter)) % 2 = 0
      /\ q - quarter \in -1 .. 1 => dir = q - quarter
  BY <1>2, <1>5, DirectionIs
<1>7. \A m \in Modes : count[m] \in -HalfRange .. HalfRange - 1 /\ count[m] \in Int
  BY <1>1 DEF Inv, Numbers
<1> HIDE DEF dir
<1>8. count' = [m \in Modes |->
                  IF Counts(m, Lines(q)) THEN Signed(count[m] + dir) ELSE count[m]]
  BY <1>3 DEF Updated, dir
<1>9. \A m \in Modes : Signed(count[m] + dir) \in -HalfRange .. HalfRange - 1
  BY <1>6, <1>7, SignedRange
<1>10. Numbers'
  BY <1>2, <1>3, <1>4, <1>5, <1>7, <1>8, <1>9 DEF Numbers
<1>11. Tracks'
  BY <1>3, <1>4, <1>5 DEF Tracks
<1>12. Parity'
  <2>1. "X4" \in Modes /\ Counts("X4", Lines(q))
    BY DEF Modes, Counts
  <2> DEFINE c == count["X4"]
  <2>2. count'["X4"] = Signed(c + dir) /\ c \in Int /\ (c - quarter) % 2 = 0
    BY <2>1, <1>7, <1>8 DEF Inv, Parity
  <2> HIDE DEF c
  <2>3. c + dir \in Int
    BY <2>2, <1>6
  <2>4. PICK k \in Int : Signed(c + dir) = (c + dir) + 2 * HalfRange * k
    BY <2>3, SignedRange
  <2>5. HalfRange * k \in Int /\ 2 * HalfRange * k = 2 * (HalfRange * k)
    BY <1>1, <2>4
  <2> DEFINE h == HalfRange * k
  <2>6. Signed(c + dir) = (c + dir) + 2 * h /\ h \in Int
    BY <2>4, <2>5
  <2> HIDE DEF h
  <2>7. (((c + dir) + 2 * h) - q) % 2 = 0
    BY <2>2, <2>6, <1>2, <1>5, <1>6
  <2> QED
    BY <2>2, <2>6, <2>7, <1>3 DEF Parity
<1>13. Counted'
  <2> SUFFICES ASSUME ~missed'
               PROVE  /\ \A m \in Modes : count'[m] = Signed(Edges(m, q))
                      /\ KeepsUp(q)
    BY <1>3 DEF Counted, KeepsUp
  <2>1. ~missed /\ q - quarter \in -1 .. 1 /\ KeepsUp(q)
    BY <1>3
  <2>2. ASSUME NEW m \in Modes PROVE count'[m] = Signed(Edges(m, q))
    <3>1. count[m] = Signed(Edges(m, quarter))
      BY <2>1 DEF Inv, Counted
    <3>2. Edges(m, q) = IF Counts(m, Lines(q)) THEN Edges(m, quarter) + (q - quarter)
                        ELSE Edges(m, quarter)
      BY <2>1, <1>2, <1>5, EdgesCounted
    <3>3. Edges(m, quarter) \in Int /\ q - quarter \in Int /\ dir = q - quarter
      BY <2>1, <1>2, <1>5, <1>6 DEF Edges, Modes
    <3>4. Signed(Signed(Edges(m, quarter)) + (q - quarter)) = Signed(Edges(m, quarter) + (q - quarter))
      BY <3>3, SignedAdd
    <3>5. CASE Counts(m, Lines(q))
      BY <3>1, <3>2, <3>3, <3>4, <3>5, <1>8
    <3>6. CASE ~Counts(m, Lines(q))
      BY <3>1, <3>2, <3>6, <1>8
    <3> QED
      BY <3>5, <3>6
  <2> QED
    BY <2>1, <2>2
<1> QED
  BY <1>10, <1>11, <1>12, <1>13 DEF Inv

LEMMA ReadInv ==
    ASSUME Inv, Read
    PROVE  Inv'
<1>1. HalfRange \in Nat /\ HalfRange > 0
  BY AxisAssumption
<1> DEFINE c == count["X4"]
           n == 2 * HalfRange
<1>2. "X4" \in Modes /\ c \in -HalfRange .. HalfRange - 1 /\ c \in Int
  BY <1>1 DEF Modes, Inv, Numbers
<1>3. total \in Int /\ quarter \in Int /\ read = Signed(total) /\ read \in Int
  BY SignedRange DEF Inv, Numbers, Tracks
<1>4. /\ total' = total + Delta(read, c) /\ read' = c
      /\ UNCHANGED <<axis, count, prev, turns, quarter, missed>>
  BY DEF Read
<1> HIDE DEF c
<1>5. Delta(read, c) \in Int /\ \E k \in Int : Delta(read, c) = (c - read) + n * k
  BY <1>2, <1>3, DeltaCongruent
<1>6. PICK k \in Int : Delta(read, c) = (c - read) + n * k
  BY <1>5
<1>7. PICK l \in Int : read = total + n * l
  BY <1>3, SignedRange
<1>8. k - l \in Int /\ n * k - n * l = n * (k - l) /\ n * k \in Int /\ n * l \in Int
  BY <1>1, <1>6, <1>7, Factored
<1>9. total' = c + n * (k - l) /\ total' \in Int
  BY <1>2, <1>3, <1>4, <1>5, <1>6, <1>7, <1>8
<1>10. Signed(total') = c
  BY <1>2, <1>8, <1>9, SignedUnique
<1>11. Numbers'
  BY <1>4, <1>9 DEF Inv, Numbers
<1>12. Tracks'
  BY <1>4, <1>10 DEF Inv, Tracks
<1>13. Parity'
  BY <1>4 DEF Inv, Parity
<1>14. Counted'
  <2> SUFFICES ASSUME ~missed PROVE KeepsUp(quarter)'
    BY <1>4 DEF Inv, Counted
  <2>1. c = Signed(quarter)
    BY <1>2 DEF Inv, Counted, Edges, c
  <2>2. quarter - total < HalfRange /\ total - quarter < HalfRange
    BY DEF Inv, Counted, KeepsUp
  <2>3. Delta(read, c) = quarter - total
    BY <2>1, <2>2, <1>3, DeltaExact
  <2>4. total' = quarter /\ quarter' = quarter
    BY <2>3, <1>3, <1>4
  <2> QED
    BY <2>4, <1>1, <1>3 DEF KeepsUp
<1> QED
  BY <1>11, <1>12, <1>13, <1>14 DEF Inv

LEMMA IndexInv ==
    ASSUME Inv, Index
    PROVE  Inv'
<1>1. quarter \in Int /\ axis \in Int /\ prev = Lines(quarter)
  BY DEF Inv, Numbers, Tracks
<1>2. prev' = Lines(0)
  BY <1>1, LinesOf DEF Index
<1>3. axis - PerQuarter * quarter \in Int
  BY <1>1 DEF PerQuarter
<1> QED
  BY <1>2, <1>3, FromZero DEF Index

LEMMA ResetInv ==
    ASSUME Inv, Reset
    PROVE  Inv'
<1>1. Wrap(axis) \in Int
  BY WrapOf DEF Inv, Numbers
<1>2. prev' = Lines(0)
  BY Zero DEF Reset
<1> QED
  BY <1>1, <1>2, FromZero DEF Reset

THEOREM Invariance == Spec => []Inv
<1>1. Inv /\ [Next]_vars => Inv'
  <2> SUFFICES ASSUME Inv, [Next]_vars PROVE Inv'
    OBVIOUS
  <2>1. CASE \E move \in Moves, lag \in Lags : Sample(move, lag)
    BY <2>1, SampleInv
  <2>2. CASE Read
    BY <2>2, ReadInv
  <2>3. CASE Index
    BY <2>3, IndexInv
  <2>4. CASE Reset
    BY <2>4, ResetInv
  <2>5. CASE UNCHANGED vars
    BY <2>5 DEF vars, Inv, Numbers, Tracks, Parity, Counted, KeepsUp
  <2> QED
    BY <2>1, <2>2, <2>3, <2>4, <2>5 DEF Next
<1> QED
  BY <1>1, InitInv, PTL DEF Spec

\* While no edge was missed, the count of every decoder is a function of where the
\* lines are: it does not drift, however the axis dithers over them and however often
\* the counter rolls over (QuadratureDecoder::update).
THEOREM CountsAreTruth == Spec => []CountsTruth
<1>1. Inv => CountsTruth
  BY DEF Inv, Parity, Counted, CountsTruth
<1> QED
  BY <1>1, Invariance, PTL

\* The absolute position made of the extended count and the fine phase, and the one
\* unwrapped from the phase alone, are the true position (combine_quadrature,
\* wrapped_delta, PhaseUnwrapper::update), for every width of the counter.
THEOREM PositionIsTruth == Spec => []AbsoluteIsTruth
<1>1. Inv => AbsoluteIsTruth
  <2> SUFFICES ASSUME Inv PROVE AbsoluteIsTruth
    OBVIOUS
  <2>1. Value(turns) = axis /\ axis \in Int /\ total \in Int /\ quarter \in Int
    BY DEF Inv, Numbers, Tracks
  <2>2. ASSUME ~missed, InStep, read = count["X4"]
        PROVE  Value(Combine(total, Wrap(axis))) = axis
    <3>1. Signed(total) = Signed(quarter)
      BY <2>2 DEF Inv, Tracks, Counted, Edges, Modes
    <3>2. total - quarter < HalfRange /\ quarter - total < HalfRange
      BY <2>2 DEF Inv, Counted, KeepsUp
    <3>3. total = quarter
      BY <2>1, <3>1, <3>2, SignedOneToOne
    <3>4. PICK lag \in Lags : quarter = (axis + lag) \div 4
      BY <2>2 DEF InStep, PerQuarter
    <3>5. lag \in -6 .. 5
      BY AxisAssumption
    <3> QED
      BY <2>1, <3>3, <3>4, <3>5, CombineOf
  <2> QED
    BY <2>1, <2>2 DEF AbsoluteIsTruth
<1> QED
  BY <1>1, Invariance, PTL

\* The circular distance leads to its target the shortest way, whatever the signs of
\* the counts and however many turns lie between (AxisPosition::distance_to).
THEOREM DistanceIsShortest == Spec => []ShortestWay
<1>1. Inv => ShortestWay
  <2> SUFFICES ASSUME Inv, NEW wrap \in Wraps, NEW to \in {0, -axis, 7 - PerQuarter * total}
               PROVE  LET d == CircularDistance(turns, Split(0, to), wrap)
                      IN /\ 2 * d \in -(Period * wrap) .. Period * wrap
                         /\ (axis + d - to) % (Period * wrap) = 0
    BY DEF ShortestWay
  <2> DEFINE s == Split(0, to)
             d == CircularDistance(turns, s, wrap)
             circle == 16 * wrap
  <2>1. wrap \in Nat /\ wrap > 0 /\ circle \in Nat /\ circle > 0
    BY AxisAssumption
  <2>2. /\ turns.whole \in Int /\ turns.frac \in Int /\ axis \in Int /\ to \in Int
        /\ 16 * turns.whole + turns.frac = axis
    BY DEF Inv, Numbers, Tracks, Value, Period, PerQuarter
  <2>3. s.whole \in Int /\ s.frac \in Int /\ 16 * s.whole + s.frac = to
    <3>1. 0 \in Int
      OBVIOUS
    <3>2. /\ Split(0, to).whole \in Int /\ Split(0, to).frac \in -8 .. 7
          /\ Value(Split(0, to)) = 16 * 0 + to
      BY <2>2, <3>1, SplitOf, Zenon
    <3> QED
      BY <2>2, <3>2 DEF Value, Period
  <2> HIDE DEF s
  <2> DEFINE e == s.whole - turns.whole
             f == s.frac - turns.frac
  <2>4. e \in Int /\ f \in Int
    BY <2>2, <2>3
  <2>5. d = Circular(e, f, wrap)
    BY DEF CircularDistance
  <2> HIDE DEF d, e, f
  <2>6. /\ d \in Int /\ 2 * d \in -circle .. circle
        /\ \E k \in Int : d = 16 * e + f + circle * k
    <3>1. /\ Circular(e, f, wrap) \in Int
          /\ 2 * Circular(e, f, wrap) \in -(16 * wrap) .. 16 * wrap
          /\ \E k \in Int : Circular(e, f, wrap) = 16 * e + f + (16 * wrap) * k
      BY <2>1, <2>4, CircularOf, Zenon
    <3> QED
      BY <3>1, <2>5, Zenon
  <2>7. PICK k \in Int : d = 16 * e + f + circle * k
    BY <2>6
  <2>8. axis + d - to = circle * k
    BY <2>1, <2>2, <2>3, <2>6, <2>7 DEF e, f
  <2>9. (circle * k) % circle = 0
    BY <2>1, WholeTurns
  <2> QED
    BY <2>6, <2>8, <2>9 DEF Period, d, s
<1> QED
  BY <1>1, Invariance, PTL

\* Types; every count stays in the range of its counter.
THEOREM TypeCorrect == Spec => []TypeOK
<1>1. Init => missed \in BOOLEAN
  BY DEF Init
<1>2. missed \in BOOLEAN /\ [Next]_vars => (missed \in BOOLEAN)'
  <2> SUFFICES ASSUME missed \in BOOLEAN, [Next]_vars PROVE missed' \in BOOLEAN
    OBVIOUS
  <2>1. ASSUME NEW move \in Moves, NEW lag \in Lags, Sample(move, lag) PROVE missed' \in BOOLEAN
    BY <2>1, Zenon DEF Sample
  <2> QED
    BY <2>1, Zenon DEF Next, Read, Index, Reset, vars
<1>3. Inv /\ missed \in BOOLEAN => TypeOK
  <2> SUFFICES ASSUME Inv, missed \in BOOLEAN PROVE TypeOK
    OBVIOUS
  <2>1. read \in -HalfRange .. HalfRange - 1
    BY SignedRange DEF Inv, Numbers, Tracks
  <2>2. prev \in 0 .. 3
    BY LinesOf DEF Inv, Numbers, Tracks
  <2>3. 2 * turns.frac \in -Period .. Period - 1
    BY DEF Inv, Numbers, Period
  <2> QED
    BY <2>1, <2>2, <2>3 DEF Inv, Numbers, TypeOK
<1> QED
  BY <1>1, <1>2, <1>3, Invariance, PTL DEF Spec

-----------------------------------------------------------------------------
(***************************************************************************)
(* The front end of an analog input.                                       *)
(***************************************************************************)

LEMMA Bands ==
    /\ RateUp \in Nat /\ RateDown \in Nat /\ Tol \in Nat
    /\ TripLow \in Int /\ TripHigh \in Int /\ TripLow <= TripHigh
    /\ CalGain \in Int /\ CalOffset \in Int /\ PairSpan \in Int
    /\ Valid.lower \in Int /\ Valid.upper \in Int /\ Fault.lower \in Int /\ Fault.upper \in Int
    /\ Fault.lower <= Valid.lower /\ Valid.lower <= Valid.upper /\ Valid.upper <= Fault.upper
<1>1. /\ {RateUp, RateDown, Tol} \subseteq Nat
      /\ {TripLow, TripHigh, CalGain, CalOffset, PairSpan} \subseteq Int
      /\ {Valid, Fault} \subseteq [lower : Int, upper : Int]
  BY ConditioningAssumption
<1>2. Valid \in [lower : Int, upper : Int] /\ Fault \in [lower : Int, upper : Int]
  BY <1>1
<1> QED
  BY <1>1, <1>2, ConditioningAssumption

\* The edges of the bands around a status, as a monitor with this margin sees them.
Edges4(fl, vl, vu, fu, x, status) ==
    /\ status = "FaultLow" <=> x < fl
    /\ status = "FaultHigh" <=> x >= fl /\ x > fu
    /\ status = "UnderRange" <=> x >= fl /\ x <= fu /\ x < vl
    /\ status = "OverRange" <=> x >= fl /\ x <= fu /\ x >= vl /\ x > vu
    /\ status = "Valid" <=> x >= fl /\ x <= fu /\ x >= vl /\ x <= vu

LEMMA ClassifiedIs ==
    ASSUME NEW fl \in Int, NEW vl \in Int, NEW vu \in Int, NEW fu \in Int, NEW x \in Int
    PROVE  LET s == Classified(x, [lower |-> vl, upper |-> vu], [lower |-> fl, upper |-> fu]) IN
           s \in SignalStatus /\ Edges4(fl, vl, vu, fu, x, s)
<1> DEFINE s == Classified(x, [lower |-> vl, upper |-> vu], [lower |-> fl, upper |-> fu])
<1>1. CASE x < fl
  <2>1. s = "FaultLow"
    BY <1>1 DEF Classified
  <2> QED
    BY <1>1, <2>1 DEF Edges4, SignalStatus, Faults, Usable
<1>2. CASE ~(x < fl) /\ x > fu
  <2>1. s = "FaultHigh"
    BY <1>2 DEF Classified
  <2> QED
    BY <1>2, <2>1 DEF Edges4, SignalStatus, Faults, Usable
<1>3. CASE x >= fl /\ x <= fu /\ x < vl
  <2>1. s = "UnderRange"
    BY <1>3 DEF Classified
  <2> QED
    BY <1>3, <2>1 DEF Edges4, SignalStatus, Faults, Usable
<1>4. CASE x >= fl /\ x <= fu /\ x >= vl /\ x > vu
  <2>1. s = "OverRange"
    BY <1>4 DEF Classified
  <2> QED
    BY <1>4, <2>1 DEF Edges4, SignalStatus, Faults, Usable
<1>5. CASE x >= fl /\ x <= fu /\ x >= vl /\ x <= vu
  <2>1. s = "Valid"
    BY <1>5 DEF Classified
  <2> QED
    BY <1>5, <2>1 DEF Edges4, SignalStatus, Faults, Usable
<1> QED
  BY <1>1, <1>2, <1>3, <1>4, <1>5

\* What a reading is to a monitor that has a status: the band it is in reaches further
\* by the margin, the others less far.
Widened(status, m, x, s) ==
    /\ status = "Valid" => Edges4(Fault.lower, Valid.lower - m, Valid.upper + m, Fault.upper, x, s)
    /\ status = "UnderRange" => Edges4(Fault.lower - m, Valid.lower + m, Valid.upper, Fault.upper, x, s)
    /\ status = "OverRange" => Edges4(Fault.lower, Valid.lower, Valid.upper - m, Fault.upper + m, x, s)
    /\ status = "FaultLow" => Edges4(Fault.lower + m, Valid.lower, Valid.upper, Fault.upper, x, s)
    /\ status = "FaultHigh" => Edges4(Fault.lower, Valid.lower, Valid.upper, Fault.upper - m, x, s)

LEMMA MonitoredIs ==
    ASSUME NEW status \in SignalStatus, NEW m \in Nat, NEW x \in Int
    PROVE  /\ Monitored(status, m, x) \in SignalStatus
           /\ Widened(status, m, x, Monitored(status, m, x))
<1> DEFINE fl == Fault.lower
           vl == Valid.lower
           vu == Valid.upper
           fu == Fault.upper
           s == Monitored(status, m, x)
<1>1. fl \in Int /\ vl \in Int /\ vu \in Int /\ fu \in Int
  BY Bands
<1>2. \A a, b, c, d \in Int :
        LET t == Classified(x, [lower |-> b, upper |-> c], [lower |-> a, upper |-> d]) IN
        t \in SignalStatus /\ Edges4(a, b, c, d, x, t)
  BY ClassifiedIs
<1>3. CASE status = "Valid"
  <2>1. s = Classified(x, [lower |-> vl - m, upper |-> vu + m], [lower |-> fl, upper |-> fu])
    BY <1>1, <1>3 DEF Monitored
  <2>2. vl - m \in Int /\ vu + m \in Int
    BY <1>1
  <2> HIDE DEF s, fl, vl, vu, fu
  <2>3. s \in SignalStatus /\ Edges4(fl, vl - m, vu + m, fu, x, s)
    BY <1>1, <1>2, <2>1, <2>2
  <2> QED
    BY <1>3, <2>3 DEF Widened, s, fl, vl, vu, fu
<1>4. CASE status = "UnderRange"
  <2>1. s = Classified(x, [lower |-> vl + m, upper |-> vu], [lower |-> fl - m, upper |-> fu])
    BY <1>1, <1>4 DEF Monitored
  <2>2. vl + m \in Int /\ fl - m \in Int
    BY <1>1
  <2> HIDE DEF s, fl, vl, vu, fu
  <2>3. s \in SignalStatus /\ Edges4(fl - m, vl + m, vu, fu, x, s)
    BY <1>1, <1>2, <2>1, <2>2
  <2> QED
    BY <1>4, <2>3 DEF Widened, s, fl, vl, vu, fu
<1>5. CASE status = "OverRange"
  <2>1. s = Classified(x, [lower |-> vl, upper |-> vu - m], [lower |-> fl, upper |-> fu + m])
    BY <1>1, <1>5 DEF Monitored
  <2>2. vu - m \in Int /\ fu + m \in Int
    BY <1>1
  <2> HIDE DEF s, fl, vl, vu, fu
  <2>3. s \in SignalStatus /\ Edges4(fl, vl, vu - m, fu + m, x, s)
    BY <1>1, <1>2, <2>1, <2>2
  <2> QED
    BY <1>5, <2>3 DEF Widened, s, fl, vl, vu, fu
<1>6. CASE status = "FaultLow"
  <2>1. s = Classified(x, [lower |-> vl, upper |-> vu], [lower |-> fl + m, upper |-> fu])
    BY <1>1, <1>6 DEF Monitored
  <2>2. fl + m \in Int
    BY <1>1
  <2> HIDE DEF s, fl, vl, vu, fu
  <2>3. s \in SignalStatus /\ Edges4(fl + m, vl, vu, fu, x, s)
    BY <1>1, <1>2, <2>1, <2>2
  <2> QED
    BY <1>6, <2>3 DEF Widened, s, fl, vl, vu, fu
<1>7. CASE status = "FaultHigh"
  <2>1. s = Classified(x, [lower |-> vl, upper |-> vu], [lower |-> fl, upper |-> fu - m])
    BY <1>1, <1>7 DEF Monitored
  <2>2. fu - m \in Int
    BY <1>1
  <2> HIDE DEF s, fl, vl, vu, fu
  <2>3. s \in SignalStatus /\ Edges4(fl, vl, vu, fu - m, x, s)
    BY <1>1, <1>2, <2>1, <2>2
  <2> QED
    BY <1>7, <2>3 DEF Widened, s, fl, vl, vu, fu
<1> QED
  BY <1>3, <1>4, <1>5, <1>6, <1>7 DEF SignalStatus, Faults, Usable

\* A status that was left at one reading is come back to only at a reading further off
\* than the margin, if the margin is narrow or the way back is the way out.
LEMMA LeavingCosts ==
    ASSUME NEW A \in SignalStatus, NEW B \in SignalStatus, NEW C \in SignalStatus,
           NEW m \in Nat, NEW x \in Int, NEW y \in Int,
           Widened(A, m, x, B), B # A, Widened(C, m, y, A), C # A,
           \/ /\ m <= Valid.upper - Valid.lower
              /\ m <= Valid.lower - Fault.lower /\ m <= Fault.upper - Valid.upper
           \/ C = B
    PROVE  Distance(x, y) >= m
<1> DEFINE fl == Fault.lower
           vl == Valid.lower
           vu == Valid.upper
           fu == Fault.upper
<1>1. fl \in Int /\ vl \in Int /\ vu \in Int /\ fu \in Int /\ fl <= vl /\ vl <= vu /\ vu <= fu
  BY Bands
<1>2. \/ m <= vu - vl /\ m <= vl - fl /\ m <= fu - vu
      \/ C = B
  OBVIOUS
<1>3. /\ A = "Valid" => Edges4(fl, vl - m, vu + m, fu, x, B)
      /\ A = "UnderRange" => Edges4(fl - m, vl + m, vu, fu, x, B)
      /\ A = "OverRange" => Edges4(fl, vl, vu - m, fu + m, x, B)
      /\ A = "FaultLow" => Edges4(fl + m, vl, vu, fu, x, B)
      /\ A = "FaultHigh" => Edges4(fl, vl, vu, fu - m, x, B)
  BY DEF Widened
<1>4. /\ C = "Valid" => Edges4(fl, vl - m, vu + m, fu, y, A)
      /\ C = "UnderRange" => Edges4(fl - m, vl + m, vu, fu, y, A)
      /\ C = "OverRange" => Edges4(fl, vl, vu - m, fu + m, y, A)
      /\ C = "FaultLow" => Edges4(fl + m, vl, vu, fu, y, A)
      /\ C = "FaultHigh" => Edges4(fl, vl, vu, fu - m, y, A)
  BY DEF Widened
<1> HIDE DEF fl, vl, vu, fu
<1>5. CASE A = "Valid"
  BY <1>1, <1>2, <1>3, <1>4, <1>5 DEF Edges4, SignalStatus, Faults, Usable, Distance
<1>6. CASE A = "UnderRange"
  BY <1>1, <1>2, <1>3, <1>4, <1>6 DEF Edges4, SignalStatus, Faults, Usable, Distance
<1>7. CASE A = "OverRange"
  BY <1>1, <1>2, <1>3, <1>4, <1>7 DEF Edges4, SignalStatus, Faults, Usable, Distance
<1>8. CASE A = "FaultLow"
  BY <1>1, <1>2, <1>3, <1>4, <1>8 DEF Edges4, SignalStatus, Faults, Usable, Distance
<1>9. CASE A = "FaultHigh"
  BY <1>1, <1>2, <1>3, <1>4, <1>9 DEF Edges4, SignalStatus, Faults, Usable, Distance
<1> QED
  BY <1>5, <1>6, <1>7, <1>8, <1>9 DEF SignalStatus, Faults, Usable

-----------------------------------------------------------------------------
(***************************************************************************)
(* A block of the signal path stays what it is.                            *)
(***************************************************************************)

Kinds == {"average", "median", "delay", "repetitive", "smith", "mhe", "slew", "schmitt", "monitor", "pair"}

HasKind == "kind" \in DOMAIN block /\ block.kind \in Kinds

\* Is r a record of the kind of b?
SameKind(b, r) == "kind" \in DOMAIN r /\ r.kind = b.kind

LEMMA KindKept ==
    ASSUME NEW b, NEW r, SameKind(b, r), NEW f, f # "kind", NEW v
    PROVE  SameKind(b, [r EXCEPT ![f] = v])
BY DEF SameKind

LEMMA TicksKeepKind ==
    ASSUME NEW b, "kind" \in DOMAIN b, NEW x, NEW o,
           \/ o \in AverageTick(b, x) \/ o \in MedianTick(b, x) \/ o \in DelayTick(b, x)
           \/ o \in RepetitiveTick(b, x) \/ o \in SmithTick(b, x)
    PROVE  SameKind(b, o.block)
<1> SameKind(b, b)
  BY DEF SameKind
<1>1. CASE o \in AverageTick(b, x)
  <2> DEFINE u == [b.buffer EXCEPT ![b.idx] = x]
             i == (b.idx + 1) % b.n
             S == IF i = 0 THEN {SeqSum([k \in 1 .. b.n |-> u[k - 1]])} ELSE {b.sum + x - b.buffer[b.idx] + e : e \in -Ulp .. Ulp}
  <2>0. o \in {[block |-> [b EXCEPT !.buffer = u, !.idx = i, !.sum = s], out |-> s] : s \in S}
    BY <1>1, Zenon DEF AverageTick
  <2> HIDE DEF u, i, S
  <2>a. PICK s \in S : o = [block |-> [b EXCEPT !.buffer = u, !.idx = i, !.sum = s], out |-> s]
    BY <2>0, Zenon
  <2>1. o.block = [b EXCEPT !.buffer = u, !.idx = i, !.sum = s]
    BY <2>a
  <2>2. [b EXCEPT !.buffer = u, !.idx = i, !.sum = s]
           = [[[b EXCEPT !.buffer = u] EXCEPT !.idx = i] EXCEPT !.sum = s]
    OBVIOUS
  <2>3. SameKind(b, [b EXCEPT !.buffer = u])
    BY KindKept
  <2>4. SameKind(b, [[b EXCEPT !.buffer = u] EXCEPT !.idx = i])
    BY <2>3, KindKept
  <2>5. SameKind(b, [[[b EXCEPT !.buffer = u] EXCEPT !.idx = i] EXCEPT !.sum = s])
    BY <2>4, KindKept
  <2> QED
    BY <2>1, <2>2, <2>5
<1>2. CASE o \in MedianTick(b, x)
  <2> DEFINE u == [b.buffer EXCEPT ![b.idx] = x]
             i == (b.idx + 1) % b.n
             c == IF b.count < b.n THEN b.count + 1 ELSE b.count
             s == Sorted([k \in 1 .. c |-> u[k - 1]])
             m == IF c % 2 = 0 THEN s[c \div 2] + s[c \div 2 + 1] ELSE 2 * s[c \div 2 + 1]
  <2>0. o \in {[block |-> [b EXCEPT !.buffer = u, !.idx = i, !.count = c], out |-> m]}
    BY <1>2, Zenon DEF MedianTick
  <2> HIDE DEF u, i, c, s, m
  <2>1. o.block = [b EXCEPT !.buffer = u, !.idx = i, !.count = c]
    BY <2>0
  <2>2. [b EXCEPT !.buffer = u, !.idx = i, !.count = c]
           = [[[b EXCEPT !.buffer = u] EXCEPT !.idx = i] EXCEPT !.count = c]
    OBVIOUS
  <2>3. SameKind(b, [b EXCEPT !.buffer = u])
    BY KindKept
  <2>4. SameKind(b, [[b EXCEPT !.buffer = u] EXCEPT !.idx = i])
    BY <2>3, KindKept
  <2>5. SameKind(b, [[[b EXCEPT !.buffer = u] EXCEPT !.idx = i] EXCEPT !.count = c])
    BY <2>4, KindKept
  <2> QED
    BY <2>1, <2>2, <2>5
<1>3. CASE o \in DelayTick(b, x)
  <2> DEFINE u == [b.buffer EXCEPT ![b.idx] = x]
             i == (b.idx + 1) % Capacity
             y == u[(b.idx + Capacity - b.d) % Capacity]
  <2>0. o \in {[block |-> [b EXCEPT !.buffer = u, !.idx = i], out |-> y]}
    BY <1>3, Zenon DEF DelayTick
  <2> HIDE DEF u, i, y
  <2>1. o.block = [b EXCEPT !.buffer = u, !.idx = i]
    BY <2>0
  <2>2. [b EXCEPT !.buffer = u, !.idx = i] = [[b EXCEPT !.buffer = u] EXCEPT !.idx = i]
    OBVIOUS
  <2>3. SameKind(b, [b EXCEPT !.buffer = u])
    BY KindKept
  <2>4. SameKind(b, [[b EXCEPT !.buffer = u] EXCEPT !.idx = i])
    BY <2>3, KindKept
  <2> QED
    BY <2>1, <2>2, <2>4
<1>4. CASE o \in RepetitiveTick(b, x)
  <2>1. CASE ~b.valid
    BY <1>4, <2>1 DEF RepetitiveTick
  <2>2. CASE b.valid
    <3> DEFINE u == [b.mem EXCEPT ![b.idx] = Filtered(b, b.period) + x]
               i == (b.idx + 1) % Capacity
               y == Gain * Filtered(b, b.period - Lead)
    <3>0. o \in {[block |-> [b EXCEPT !.mem = u, !.idx = i], out |-> y]}
      BY <1>4, <2>2 DEF RepetitiveTick
    <3> HIDE DEF u, i, y
    <3>1. o.block = [b EXCEPT !.mem = u, !.idx = i]
      BY <3>0
    <3>2. [b EXCEPT !.mem = u, !.idx = i] = [[b EXCEPT !.mem = u] EXCEPT !.idx = i]
      OBVIOUS
    <3>3. SameKind(b, [b EXCEPT !.mem = u])
      BY KindKept
    <3>4. SameKind(b, [[b EXCEPT !.mem = u] EXCEPT !.idx = i])
      BY <3>3, KindKept
    <3> QED
      BY <3>1, <3>2, <3>4
  <2> QED
    BY <2>1, <2>2
<1>5. CASE o \in SmithTick(b, x)
  <2>1. CASE ~b.valid
    BY <1>5, <2>1 DEF SmithTick
  <2>2. CASE b.valid
    <3> DEFINE u == [b.ring EXCEPT ![b.head] = x]
               h == NextSlot(b, b.head)
               y == Model(b.x, u[h])
               z == Predicted(b) - b.x
    <3>0. o \in {[block |-> [b EXCEPT !.ring = u, !.head = h, !.x = y], out |-> z]}
      BY <1>5, <2>2 DEF SmithTick
    <3> HIDE DEF u, h, y, z
    <3>1. o.block = [b EXCEPT !.ring = u, !.head = h, !.x = y]
      BY <3>0
    <3>2. [b EXCEPT !.ring = u, !.head = h, !.x = y]
             = [[[b EXCEPT !.ring = u] EXCEPT !.head = h] EXCEPT !.x = y]
      OBVIOUS
    <3>3. SameKind(b, [b EXCEPT !.ring = u])
      BY KindKept
    <3>4. SameKind(b, [[b EXCEPT !.ring = u] EXCEPT !.head = h])
      BY <3>3, KindKept
    <3>5. SameKind(b, [[[b EXCEPT !.ring = u] EXCEPT !.head = h] EXCEPT !.x = y])
      BY <3>4, KindKept
    <3> QED
      BY <3>1, <3>2, <3>5
  <2> QED
    BY <2>1, <2>2
<1> QED
  BY <1>1, <1>2, <1>3, <1>4, <1>5

\* The same for the blocks whose ticks are not those of Tick, and for the trigger.
LEMMA OthersKeepKind ==
    ASSUME NEW b, "kind" \in DOMAIN b, NEW x, NEW y, NEW o,
           \/ o \in MheTick(b, x) \/ o \in SlewTick(b, x, y) \/ o \in SchmittTick(b, x)
           \/ o \in MonitorTick(b, x) \/ o \in PairTick(b, x, y)
    PROVE  SameKind(b, o.block)
<1> SameKind(b, b)
  BY DEF SameKind
<1>1. CASE o \in MheTick(b, x)
  <2>1. CASE ~b.valid
    BY <1>1, <2>1 DEF MheTick
  <2>2. CASE b.valid
    <3> DEFINE moved == IF b.primed THEN Slid(b, x, x) ELSE Primed(b, x, x)
    <3> DEFINE Z(status) == CASE status = "Success" -> <<x, FALSE>>
                              [] status = "MaxIterations" -> <<x, TRUE>>
                              [] OTHER -> b.z
    <3>0. o \in {[block |-> [moved EXCEPT !.z = Z(status)], out |-> Z(status)[1]] : status \in QPStatus}
      BY <1>1, <2>2, Zenon DEF MheTick
    <3> HIDE DEF moved
    <3>1. PICK status \in QPStatus : o.block = [moved EXCEPT !.z = Z(status)]
      <4> HIDE DEF Z
      <4> QED
        BY <3>0
    <3> DEFINE z == Z(status)
    <3>2. SameKind(b, Slid(b, x, x))
      <4> DEFINE p == Append(b.xbar, <<b.ys[0], b.us[0]>>)
                 q == [k \in 0 .. Horizon |-> IF k = Horizon THEN x ELSE b.ys[k + 1]]
                 r == [k \in 0 .. Horizon - 1 |-> IF k = Horizon - 1 THEN x ELSE b.us[k + 1]]
      <4>1. Slid(b, x, x) = [b EXCEPT !.xbar = p, !.ys = q, !.us = r]
        BY DEF Slid
      <4> HIDE DEF p, q, r
      <4>2. [b EXCEPT !.xbar = p, !.ys = q, !.us = r]
               = [[[b EXCEPT !.xbar = p] EXCEPT !.ys = q] EXCEPT !.us = r]
        OBVIOUS
      <4>3. SameKind(b, [b EXCEPT !.xbar = p])
        BY KindKept
      <4>4. SameKind(b, [[b EXCEPT !.xbar = p] EXCEPT !.ys = q])
        BY <4>3, KindKept
      <4>5. SameKind(b, [[[b EXCEPT !.xbar = p] EXCEPT !.ys = q] EXCEPT !.us = r])
        BY <4>4, KindKept
      <4> QED
        BY <4>1, <4>2, <4>5
    <3>3. SameKind(b, Primed(b, x, x))
      <4> DEFINE p == TRUE
                 q == [k \in 0 .. Horizon |-> x]
                 r == [k \in 0 .. Horizon - 1 |-> x]
      <4>1. Primed(b, x, x) = [b EXCEPT !.primed = p, !.ys = q, !.us = r]
        BY DEF Primed
      <4> HIDE DEF p, q, r
      <4>2. [b EXCEPT !.primed = p, !.ys = q, !.us = r]
               = [[[b EXCEPT !.primed = p] EXCEPT !.ys = q] EXCEPT !.us = r]
        OBVIOUS
      <4>3. SameKind(b, [b EXCEPT !.primed = p])
        BY KindKept
      <4>4. SameKind(b, [[b EXCEPT !.primed = p] EXCEPT !.ys = q])
        BY <4>3, KindKept
      <4>5. SameKind(b, [[[b EXCEPT !.primed = p] EXCEPT !.ys = q] EXCEPT !.us = r])
        BY <4>4, KindKept
      <4> QED
        BY <4>1, <4>2, <4>5
    <3>4. SameKind(b, moved)
      BY <3>2, <3>3 DEF moved
    <3>5. SameKind(b, [moved EXCEPT !.z = z])
      BY <3>4, KindKept
    <3> QED
      BY <3>1, <3>5
  <2> QED
    BY <2>1, <2>2
<1>2. CASE o \in SlewTick(b, x, y)
  <2> DEFINE delta == x - b.y
             u == CASE ~b.init -> x
                    [] b.init /\ y <= 0 -> b.y
                    [] b.init /\ y > 0 /\ delta > RateUp * y -> b.y + RateUp * y
                    [] b.init /\ y > 0 /\ delta < -RateDown * y -> b.y - RateDown * y
                    [] OTHER -> x
             v == TRUE
  <2>0. o \in {[block |-> [b EXCEPT !.y = u, !.init = v], out |-> u]}
    BY <1>2, Zenon DEF SlewTick
  <2> HIDE DEF u, v
  <2>1. o.block = [b EXCEPT !.y = u, !.init = v]
    BY <2>0
  <2>2. [b EXCEPT !.y = u, !.init = v] = [[b EXCEPT !.y = u] EXCEPT !.init = v]
    OBVIOUS
  <2>3. SameKind(b, [b EXCEPT !.y = u])
    BY KindKept
  <2>4. SameKind(b, [[b EXCEPT !.y = u] EXCEPT !.init = v])
    BY <2>3, KindKept
  <2> QED
    BY <2>1, <2>2, <2>4
<1>3. CASE o \in SchmittTick(b, x)
  BY <1>3, KindKept DEF SchmittTick
<1>4. CASE o \in MonitorTick(b, x)
  BY <1>4, KindKept DEF MonitorTick
<1>5. CASE o \in PairTick(b, x, y)
  <2> DEFINE u == Monitored(b.a, b.margin, x)
             v == Monitored(b.b, b.margin, y)
             w == CrossChecked(Calibrated(x), u, Calibrated(y), v, b.opposite)
  <2>0. o \in {[block |-> [b EXCEPT !.a = u, !.b = v], out |-> w]}
    BY <1>5, Zenon DEF PairTick
  <2> HIDE DEF u, v, w
  <2>1. o.block = [b EXCEPT !.a = u, !.b = v]
    BY <2>0
  <2>2. [b EXCEPT !.a = u, !.b = v] = [[b EXCEPT !.a = u] EXCEPT !.b = v]
    OBVIOUS
  <2>3. SameKind(b, [b EXCEPT !.a = u])
    BY KindKept
  <2>4. SameKind(b, [[b EXCEPT !.a = u] EXCEPT !.b = v])
    BY <2>3, KindKept
  <2> QED
    BY <2>1, <2>2, <2>4
<1> QED
  BY <1>1, <1>2, <1>3, <1>4, <1>5

\* What resets and reconfigures keeps the kind too.
LEMMA FreshKeepsKind ==
    ASSUME HasKind, NEW r \in Fresh(block)
    PROVE  SameKind(block, r)
<1>1. CASE block.kind = "average"
  BY <1>1 DEF Fresh, Average, SameKind
<1>2. CASE block.kind = "median"
  BY <1>2 DEF Fresh, Median, SameKind
<1>3. CASE block.kind = "delay"
  BY <1>3 DEF Fresh, Delay, SameKind
<1>4. CASE block.kind = "repetitive"
  BY <1>4 DEF Fresh, Repetitive, SameKind
<1>5. CASE block.kind = "smith"
  BY <1>5 DEF Fresh, Smith, SameKind
<1>6. CASE block.kind = "mhe"
  <2> DEFINE b == Mhe(block.valid)
  <2>1. SameKind(b, b) /\ b.kind = "mhe"
    BY DEF SameKind, Mhe
  <2>2. r = [b EXCEPT !.ys = block.ys, !.us = block.us]
    BY <1>6 DEF Fresh, MheReset
  <2>3. [b EXCEPT !.ys = block.ys, !.us = block.us] = [[b EXCEPT !.ys = block.ys] EXCEPT !.us = block.us]
    OBVIOUS
  <2> HIDE DEF b
  <2>4. SameKind(b, [b EXCEPT !.ys = block.ys])
    BY <2>1, KindKept
  <2>5. SameKind(b, [[b EXCEPT !.ys = block.ys] EXCEPT !.us = block.us])
    BY <2>4, KindKept
  <2>6. SameKind(b, r)
    BY <2>2, <2>3, <2>5
  <2> QED
    BY <1>6, <2>1, <2>6 DEF SameKind
<1>7. CASE block.kind = "slew"
  BY <1>7 DEF Fresh, Slew, SameKind
<1>8. CASE block.kind = "schmitt"
  BY <1>8 DEF Fresh, Schmitt, SameKind
<1>9. CASE block.kind = "monitor"
  BY <1>9 DEF Fresh, Monitor, SameKind
<1>10. CASE block.kind = "pair"
  BY <1>10 DEF Fresh
<1> QED
  BY <1>1, <1>2, <1>3, <1>4, <1>5, <1>6, <1>7, <1>8, <1>9, <1>10 DEF HasKind, Kinds

\* A block stays of its kind for its whole life.
LEMMA KindStays ==
    ASSUME HasKind, [PathNext]_path
    PROVE  HasKind' /\ block'.kind = block.kind
<1>1. SUFFICES SameKind(block, block')
  BY DEF SameKind, HasKind
<1>2. "kind" \in DOMAIN block
  BY DEF HasKind
<1>3. CASE Tick
  <2>1. PICK x \in Samples : Hear(TickOf(block, x), x)
    BY <1>3 DEF Tick
  <2>2. PICK o \in TickOf(block, x) : block' = o.block
    BY <2>1 DEF Hear
  <2>3. block.kind \in {"average", "median", "delay", "repetitive", "smith", "schmitt"}
    BY <1>3 DEF Tick, HasKind, Kinds
  <2>4. \/ o \in AverageTick(block, x) \/ o \in MedianTick(block, x) \/ o \in DelayTick(block, x)
        \/ o \in RepetitiveTick(block, x) \/ o \in SmithTick(block, x) \/ o \in SchmittTick(block, x)
    BY <2>3 DEF TickOf
  <2> QED
    BY <1>2, <2>2, <2>4, TicksKeepKind, OthersKeepKind
<1>4. CASE TickMhe
  <2>1. PICK o \in MheTick(block, Len(heard) + 1) : block' = o.block
    BY <1>4 DEF TickMhe, Hear
  <2> QED
    BY <1>2, <2>1, OthersKeepKind
<1>5. CASE TickSlew
  <2>1. PICK target \in Readings, dt \in Intervals : \E o \in SlewTick(block, target, dt) : block' = o.block
    BY <1>5 DEF TickSlew
  <2>2. PICK o \in SlewTick(block, target, dt) : block' = o.block
    BY <2>1
  <2> QED
    BY <1>2, <2>2, OthersKeepKind
<1>6. CASE TickMonitor
  <2>1. PICK x \in Readings : \E o \in MonitorTick(block, x) : block' = o.block
    BY <1>6 DEF TickMonitor, Hear
  <2>2. PICK o \in MonitorTick(block, x) : block' = o.block
    BY <2>1
  <2> QED
    BY <1>2, <2>2, OthersKeepKind
<1>7. CASE TickPair
  <2>1. PICK a \in Readings, b \in Readings : \E o \in PairTick(block, a, b) : block' = o.block
    BY <1>7 DEF TickPair
  <2>2. PICK o \in PairTick(block, a, b) : block' = o.block
    BY <2>1
  <2> QED
    BY <1>2, <2>2, OthersKeepKind
<1>8. CASE PathReset
  BY <1>8, FreshKeepsKind DEF PathReset
<1>9. CASE UNCHANGED path
  BY <1>2, <1>9 DEF path, SameKind
<1> QED
  BY <1>3, <1>4, <1>5, <1>6, <1>7, <1>8, <1>9 DEF PathNext

\* The blocks a behaviour starts with.
LEMMA FirstBlock ==
    ASSUME PathInit
    PROVE  /\ HasKind
           /\ block.kind = "mhe" => \E v \in BOOLEAN : block = Mhe(v)
           /\ block.kind = "smith" => \E d \in 0 .. Capacity : block = Smith(d)
           /\ block.kind = "delay" => \E d \in 0 .. Capacity + 1 : block = Delay(d)
           /\ block.kind = "average" => \E w \in 0 .. Capacity + 1 : block = Average(w)
           /\ block.kind = "median" => \E w \in 0 .. Capacity + 1 : block = Median(w)
           /\ block.kind = "repetitive" => \E p \in QHalf + Lead + 1 .. Capacity : block = Repetitive(p)
           /\ block.kind = "slew" => block = Slew
           /\ block.kind = "schmitt" => block = Schmitt
           /\ block.kind = "monitor" => \E m \in Margins : block = Monitor(m)
           /\ block.kind = "pair" => \E m \in Margins, v \in BOOLEAN : block = Pair(m, v)
<1>1. block \in Blocks
  BY DEF PathInit
<1>2. CASE \E w \in 0 .. Capacity + 1 : block = Average(w)
  BY <1>2 DEF HasKind, Kinds, Average
<1>3. CASE \E w \in 0 .. Capacity + 1 : block = Median(w)
  BY <1>3 DEF HasKind, Kinds, Median
<1>4. CASE \E d \in 0 .. Capacity + 1 : block = Delay(d)
  BY <1>4 DEF HasKind, Kinds, Delay
<1>5. CASE \E p \in QHalf + Lead + 1 .. Capacity : block = Repetitive(p)
  BY <1>5 DEF HasKind, Kinds, Repetitive
<1>6. CASE \E d \in 0 .. Capacity : block = Smith(d)
  BY <1>6 DEF HasKind, Kinds, Smith
<1>7. CASE \E v \in BOOLEAN : block = Mhe(v)
  <2>1. PICK v \in BOOLEAN : block = Mhe(v)
    BY <1>7
  <2>2. "kind" \in DOMAIN block /\ block.kind = "mhe"
    BY <2>1 DEF Mhe
  <2> QED
    BY <1>7, <2>2 DEF HasKind, Kinds
<1>8. CASE block = Slew
  BY <1>8 DEF HasKind, Kinds, Slew
<1>9. CASE block = Schmitt
  BY <1>9 DEF HasKind, Kinds, Schmitt
<1>10. CASE \E m \in Margins : block = Monitor(m)
  BY <1>10 DEF HasKind, Kinds, Monitor
<1>11. CASE \E m \in Margins, v \in BOOLEAN : block = Pair(m, v)
  BY <1>11 DEF HasKind, Kinds, Pair
<1>12. \/ \E w \in 0 .. Capacity + 1 : block = Average(w)
       \/ \E w \in 0 .. Capacity + 1 : block = Median(w)
       \/ \E d \in 0 .. Capacity + 1 : block = Delay(d)
       \/ \E p \in QHalf + Lead + 1 .. Capacity : block = Repetitive(p)
       \/ \E d \in 0 .. Capacity : block = Smith(d)
       \/ \E v \in BOOLEAN : block = Mhe(v)
       \/ block = Slew \/ block = Schmitt
       \/ \E m \in Margins : block = Monitor(m)
       \/ \E m \in Margins, v \in BOOLEAN : block = Pair(m, v)
  BY <1>1 DEF Blocks
<1> QED
  BY <1>2, <1>3, <1>4, <1>5, <1>6, <1>7, <1>8, <1>9, <1>10, <1>11, <1>12

-----------------------------------------------------------------------------
(* A monitor.                                                              *)

Heard == [x : Int, status : SignalStatus]

\* A monitor's status is what its readings made of the statuses before them.
MonitorFollows ==
    block.kind = "monitor" =>
        /\ block \in [kind : {"monitor"}, margin : Margins, status : SignalStatus]
        /\ heard \in Seq(Heard)
        /\ block.status = StatusAfter(Len(heard))
        /\ \A i \in 1 .. Len(heard) :
             heard[i].status = Monitored(StatusAfter(i - 1), block.margin, heard[i].x)

LEMMA MonitorFirst == PathInit => MonitorFollows
<1> SUFFICES ASSUME PathInit, block.kind = "monitor" PROVE MonitorFollows
  BY DEF MonitorFollows
<1>1. PICK m \in Margins : block = Monitor(m)
  BY FirstBlock
<1>2. heard = <<>>
  BY DEF PathInit
<1> QED
  BY <1>1, <1>2 DEF MonitorFollows, Monitor, StatusAfter, SignalStatus, Usable

LEMMA MonitorStep == HasKind /\ MonitorFollows /\ [PathNext]_path => MonitorFollows'
<1> SUFFICES ASSUME HasKind, MonitorFollows, [PathNext]_path, block'.kind = "monitor"
             PROVE  MonitorFollows'
  BY DEF MonitorFollows
<1>1. block.kind = "monitor"
  BY KindStays
<1>2. /\ block \in [kind : {"monitor"}, margin : Margins, status : SignalStatus]
      /\ heard \in Seq(Heard)
      /\ block.status = StatusAfter(Len(heard))
      /\ \A i \in 1 .. Len(heard) :
           heard[i].status = Monitored(StatusAfter(i - 1), block.margin, heard[i].x)
  BY <1>1 DEF MonitorFollows
<1>3. CASE TickMonitor
  <2>1. PICK x \in Readings : \E o \in MonitorTick(block, x) :
          block' = o.block /\ heard' = Append(heard, [x |-> x, status |-> o.out])
    BY <1>3 DEF TickMonitor, Hear
  <2> DEFINE s == Monitored(block.status, block.margin, x)
             h == [x |-> x, status |-> s]
             T == Heard
  <2>n. PICK n \in Nat : n = Len(heard)
    BY <1>2
  <2>2. block' = [block EXCEPT !.status = s] /\ heard' = Append(heard, h)
    BY <2>1 DEF MonitorTick
  <2>3. x \in Int /\ block.status \in SignalStatus /\ block.margin \in Margins /\ block.margin \in Nat
    BY <1>2, SignalPathAssumption, ConditioningAssumption
  <2>4. s \in SignalStatus
    BY <2>3, MonitoredIs
  <2> HIDE DEF s
  <2>5. h \in T
    BY <2>3, <2>4 DEF Heard
  <2>6. block' \in [kind : {"monitor"}, margin : Margins, status : SignalStatus]
        /\ block'.status = s /\ block'.margin = block.margin
    BY <1>2, <2>2, <2>4
  <2>7. h.x = x /\ h.status = s
    OBVIOUS
  <2> HIDE DEF h, T
  <2>8. heard' \in Seq(T) /\ Len(heard') = n + 1 /\ n \in Nat /\ heard'[n + 1] = h
        /\ \A i \in 1 .. n : heard'[i] = heard[i]
    BY <1>2, <2>n, <2>2, <2>5 DEF T
  <2>9. \A i \in 0 .. n : StatusAfter(i)' = StatusAfter(i)
    BY <2>8 DEF StatusAfter
  <2>10. StatusAfter(n + 1)' = s
    BY <2>7, <2>8 DEF StatusAfter
  <2>11. ASSUME NEW i \in 1 .. n + 1
         PROVE  heard'[i].status = Monitored(StatusAfter(i - 1)', block.margin, heard'[i].x)
    <3>1. CASE i = n + 1
      <4>1. StatusAfter(i - 1)' = block.status
        BY <3>1, <2>n, <2>8, <2>9, <1>2
      <4> QED
        BY <3>1, <4>1, <2>7, <2>8 DEF s
    <3>2. CASE i \in 1 .. n
      <4>1. StatusAfter(i - 1)' = StatusAfter(i - 1)
        BY <3>2, <2>8, <2>9
      <4> QED
        BY <3>2, <4>1, <2>n, <2>8, <1>2
    <3> QED
      BY <3>1, <3>2
  <2>12. StatusAfter(Len(heard))' = s
    BY <2>8, <2>10 DEF StatusAfter
  <2>13. \A i \in 1 .. Len(heard') :
           heard'[i].status = Monitored(StatusAfter(i - 1)', block'.margin, heard'[i].x)
    BY <2>6, <2>8, <2>11
  <2> QED
    BY <2>6, <2>8, <2>12, <2>13 DEF MonitorFollows, T
<1>4. CASE PathReset
  <2>1. block' = Monitor(block.margin) /\ heard' = <<>>
    BY <1>1, <1>4 DEF PathReset, Fresh
  <2>2. block.margin \in Margins
    BY <1>2
  <2> QED
    BY <2>1, <2>2 DEF MonitorFollows, Monitor, StatusAfter, SignalStatus, Usable
<1>5. CASE UNCHANGED path
  BY <1>2, <1>5 DEF path, MonitorFollows, StatusAfter
<1> QED
  BY <1>1, <1>3, <1>4, <1>5 DEF PathNext, Tick, TickMhe, TickSlew, TickPair

LEMMA FollowingIsQuiet == MonitorFollows => NoChatter
<1> SUFFICES ASSUME MonitorFollows, block.kind = "monitor",
                    NEW i \in 1 .. Len(heard), NEW j \in 1 .. Len(heard),
                    i < j,
                    StatusAfter(i) # StatusAfter(i - 1),
                    StatusAfter(j) = StatusAfter(i - 1), StatusAfter(j - 1) # StatusAfter(j),
                    NarrowMargin \/ StatusAfter(j - 1) = StatusAfter(i)
             PROVE  Distance(heard[i].x, heard[j].x) >= block.margin
  BY DEF NoChatter
<1> DEFINE A == StatusAfter(i - 1)
           B == StatusAfter(i)
           C == StatusAfter(j - 1)
           m == block.margin
           x == heard[i].x
           y == heard[j].x
<1>1. /\ block \in [kind : {"monitor"}, margin : Margins, status : SignalStatus]
      /\ heard \in Seq(Heard)
      /\ \A k \in 1 .. Len(heard) :
           heard[k].status = Monitored(StatusAfter(k - 1), block.margin, heard[k].x)
  BY DEF MonitorFollows
<1>2. m \in Nat
  BY <1>1, ConditioningAssumption
<1>3. Len(heard) \in Nat /\ \A k \in 1 .. Len(heard) : heard[k] \in Heard
  BY <1>1
<1>4. \A k \in 1 .. Len(heard) : heard[k].x \in Int /\ heard[k].status \in SignalStatus
  BY <1>3 DEF Heard
<1>5. \A k \in 0 .. Len(heard) : StatusAfter(k) \in SignalStatus
  BY <1>3, <1>4 DEF StatusAfter, SignalStatus, Usable
<1>6. A \in SignalStatus /\ B \in SignalStatus /\ C \in SignalStatus /\ x \in Int /\ y \in Int
  BY <1>3, <1>4, <1>5
<1>7. B = Monitored(A, m, x)
  BY <1>1, <1>3 DEF StatusAfter
<1>8. A = Monitored(C, m, y)
  BY <1>1, <1>3 DEF StatusAfter
<1>9. B # A /\ C # A
  OBVIOUS
<1>10. \/ m <= Valid.upper - Valid.lower
          /\ m <= Valid.lower - Fault.lower /\ m <= Fault.upper - Valid.upper
       \/ C = B
  BY DEF NarrowMargin
<1> HIDE DEF A, B, C, m, x, y
<1>11. Widened(A, m, x, B) /\ Widened(C, m, y, A)
  BY <1>2, <1>6, <1>7, <1>8, MonitoredIs
<1>12. Distance(x, y) >= m
  BY <1>2, <1>6, <1>9, <1>10, <1>11, LeavingCosts
<1> QED
  BY <1>12 DEF x, y, m

\* "A signal hovering on an edge must move hysteresis past it": after any readings, a
\* monitor of any bands and margin comes back to a status it left only at a reading
\* further off than the margin (margins wider than a band, where it goes from band to
\* band, apart).
THEOREM MonitorsAreQuiet == PathSpec => []NoChatter
<1>1. PathInit => HasKind /\ MonitorFollows
  BY FirstBlock, MonitorFirst
<1>2. HasKind /\ MonitorFollows /\ [PathNext]_path => (HasKind /\ MonitorFollows)'
  BY KindStays, MonitorStep
<1> QED
  BY <1>1, <1>2, FollowingIsQuiet, PTL DEF PathSpec

-----------------------------------------------------------------------------
(* A Schmitt trigger.                                                      *)

\* A set of the places of a sequence has a last one.
LEMMA LastPlace ==
    ASSUME NEW n \in Nat, NEW S \in SUBSET (1 .. n), S # {}
    PROVE  Max(S) \in S /\ \A i \in S : i <= Max(S)
<1> DEFINE T == {n - i : i \in S}
<1>1. T \in SUBSET Nat /\ T # {}
  <2>1. \A i \in S : n - i \in Nat
    OBVIOUS
  <2>2. PICK i : i \in S
    OBVIOUS
  <2>3. n - i \in T
    BY <2>2
  <2> QED
    BY <2>1, <2>3
<1>2. PICK t \in T : \A u \in T : t <= u
  <2> HIDE DEF T
  <2> QED
    BY <1>1, LeastNatural
<1>3. PICK i \in S : t = n - i
  BY <1>2
<1>4. \A j \in S : n - j \in T
  OBVIOUS
<1>5. \A j \in S : i >= j
  BY <1>2, <1>3, <1>4
<1>6. \E j \in S : \A k \in S : j >= k
  BY <1>5
<1>7. Max(S) = CHOOSE j \in S : \A k \in S : j >= k
  BY DEF Max
<1>8. Max(S) \in S /\ \A k \in S : Max(S) >= k
  BY <1>6, <1>7
<1> QED
  BY <1>8

\* A reading outside the band that no other follows holds the state.
TriggerFollows ==
    block.kind = "schmitt" =>
        /\ block \in [kind : {"schmitt"}, state : BOOLEAN]
        /\ heard \in Seq(Int)
        /\ heard # <<>> => out = block.state
        /\ \A i \in 1 .. Len(heard) :
             Clear(heard[i]) /\ (\A k \in i + 1 .. Len(heard) : ~Clear(heard[k]))
             => (block.state <=> heard[i] > TripHigh)

LEMMA TriggerFirst == PathInit => TriggerFollows
<1> SUFFICES ASSUME PathInit, block.kind = "schmitt" PROVE TriggerFollows
  BY DEF TriggerFollows
<1>1. block = Schmitt /\ heard = <<>>
  BY FirstBlock DEF PathInit
<1> QED
  BY <1>1 DEF TriggerFollows, Schmitt

LEMMA TriggerStep == HasKind /\ TriggerFollows /\ [PathNext]_path => TriggerFollows'
<1> SUFFICES ASSUME HasKind, TriggerFollows, [PathNext]_path, block'.kind = "schmitt"
             PROVE  TriggerFollows'
  BY DEF TriggerFollows
<1>1. block.kind = "schmitt"
  BY KindStays
<1>2. /\ block \in [kind : {"schmitt"}, state : BOOLEAN]
      /\ heard \in Seq(Int)
      /\ \A i \in 1 .. Len(heard) :
           Clear(heard[i]) /\ (\A k \in i + 1 .. Len(heard) : ~Clear(heard[k]))
           => (block.state <=> heard[i] > TripHigh)
  BY <1>1 DEF TriggerFollows
<1>n. PICK n \in Nat : n = Len(heard)
  BY <1>2
<1>3. CASE Tick
  <2>1. PICK x \in Samples : Hear(SchmittTick(block, x), x)
    BY <1>1, <1>3 DEF Tick, TickOf
  <2>2. PICK s \in BOOLEAN : s <=> IF block.state THEN ~(x < TripLow) ELSE x > TripHigh
    OBVIOUS
  <2>3. block' = [block EXCEPT !.state = s] /\ out' = s /\ heard' = Append(heard, x)
    <3>1. s = IF block.state THEN ~(x < TripLow) ELSE x > TripHigh
      BY <1>2, <2>2, Zenon
    <3> QED
      BY <2>1, <3>1 DEF Hear, SchmittTick
  <2>4. x \in Int
    BY SignalPathAssumption
  <2>5. block' \in [kind : {"schmitt"}, state : BOOLEAN] /\ block'.state = s
    BY <1>2, <2>3
  <2>6. heard' \in Seq(Int) /\ Len(heard') = n + 1 /\ heard'[n + 1] = x
        /\ \A i \in 1 .. n : heard'[i] = heard[i] /\ heard[i] \in Int
    BY <1>2, <1>n, <2>3, <2>4
  <2>7. ASSUME NEW i \in 1 .. n + 1,
               Clear(heard'[i]), \A k \in i + 1 .. n + 1 : ~Clear(heard'[k])
        PROVE  s <=> heard'[i] > TripHigh
    <3>1. CASE i = n + 1
      BY <3>1, <2>2, <2>4, <2>6, <2>7, Bands DEF Clear
    <3>2. CASE i \in 1 .. n
      <4>1. n + 1 \in i + 1 .. n + 1 /\ \A k \in i + 1 .. n : k \in i + 1 .. n + 1 /\ k \in 1 .. n
        BY <3>2
      <4>2. ~Clear(x) /\ \A k \in i + 1 .. n : ~Clear(heard[k])
        BY <4>1, <2>6, <2>7
      <4>3. block.state <=> heard[i] > TripHigh
        BY <1>2, <1>n, <3>2, <4>2, <2>6, <2>7
      <4>4. s <=> block.state
        BY <2>2, <2>4, <4>2, Bands DEF Clear
      <4> QED
        BY <3>2, <4>3, <4>4, <2>6
    <3> QED
      BY <3>1, <3>2
  <2> QED
    BY <2>3, <2>5, <2>6, <2>7 DEF TriggerFollows, Clear
<1>4. CASE PathReset
  <2>1. block' \in {Schmitt, [Schmitt EXCEPT !.state = TRUE]} /\ heard' = <<>>
    BY <1>1, <1>4 DEF PathReset, Fresh
  <2>2. block' \in [kind : {"schmitt"}, state : BOOLEAN]
    <3>1. CASE block' = Schmitt
      BY <3>1 DEF Schmitt
    <3>2. CASE block' = [Schmitt EXCEPT !.state = TRUE]
      BY <3>2 DEF Schmitt
    <3> QED
      BY <2>1, <3>1, <3>2
  <2>3. heard' \in Seq(Int) /\ Len(heard') = 0
    BY <2>1
  <2> QED
    BY <2>1, <2>2, <2>3 DEF TriggerFollows
<1>5. CASE UNCHANGED path
  BY <1>5 DEF path, TriggerFollows, Clear
<1> QED
  BY <1>1, <1>3, <1>4, <1>5 DEF PathNext, TickMonitor, TickMhe, TickSlew, TickPair

LEMMA FollowingIsTriggered == TriggerFollows /\ heard # <<>> => TriggerSound
<1> SUFFICES ASSUME TriggerFollows, heard # <<>>, block.kind = "schmitt",
                    {i \in 1 .. Len(heard) : Clear(heard[i])} # {}
             PROVE  out <=> heard[Max({i \in 1 .. Len(heard) : Clear(heard[i])})] > TripHigh
  BY DEF TriggerSound
<1> DEFINE S == {i \in 1 .. Len(heard) : Clear(heard[i])}
           i == Max(S)
<1>1. /\ block \in [kind : {"schmitt"}, state : BOOLEAN]
      /\ heard \in Seq(Int) /\ out = block.state
      /\ \A k \in 1 .. Len(heard) :
           Clear(heard[k]) /\ (\A l \in k + 1 .. Len(heard) : ~Clear(heard[l]))
           => (block.state <=> heard[k] > TripHigh)
  BY DEF TriggerFollows
<1>2. Len(heard) \in Nat /\ S \in SUBSET (1 .. Len(heard)) /\ S # {}
  BY <1>1
<1>3. i \in S /\ \A k \in S : k <= i
  <2> HIDE DEF S
  <2> QED
    BY <1>2, LastPlace
<1>4. Clear(heard[i]) /\ i \in 1 .. Len(heard)
  BY <1>3
<1>5. \A l \in i + 1 .. Len(heard) : ~Clear(heard[l])
  <2> SUFFICES ASSUME NEW l \in i + 1 .. Len(heard), Clear(heard[l]) PROVE FALSE
    OBVIOUS
  <2> HIDE DEF i
  <2>1. l \in S
    BY <1>4
  <2> HIDE DEF S
  <2> QED
    BY <1>2, <1>3, <1>4, <2>1
<1> HIDE DEF i
<1>6. block.state <=> heard[i] > TripHigh
  BY <1>1, <1>4, <1>5
<1>7. block.state \in BOOLEAN
  BY <1>1
<1> QED
  BY <1>1, <1>6, <1>7 DEF i

-----------------------------------------------------------------------------
(* A slew limiter.                                                         *)

SlewHolds ==
    block.kind = "slew" =>
        /\ block \in [kind : {"slew"}, y : Int, init : BOOLEAN]
        /\ heard # <<>> => SlewSound

\* The limiter's output is the reachable value nearest its target.
LEMMA NearestIs ==
    ASSUME NEW y \in Int, NEW up \in Nat, NEW down \in Nat, NEW target \in Int, NEW z \in Int,
           z = IF target - y > up THEN y + up ELSE IF target - y < -down THEN y - down ELSE target
    PROVE  /\ z \in y - down .. y + up
           /\ \A v \in y - down .. y + up : Distance(v, target) >= Distance(z, target)
BY DEF Distance

LEMMA SlewFirst == PathInit => SlewHolds
<1> SUFFICES ASSUME PathInit, block.kind = "slew" PROVE SlewHolds
  BY DEF SlewHolds
<1>1. block = Slew /\ heard = <<>>
  BY FirstBlock DEF PathInit
<1> QED
  BY <1>1 DEF SlewHolds, Slew

LEMMA SlewStep == HasKind /\ SlewHolds /\ [PathNext]_path => SlewHolds'
<1> SUFFICES ASSUME HasKind, SlewHolds, [PathNext]_path, block'.kind = "slew"
             PROVE  SlewHolds'
  BY DEF SlewHolds
<1>1. block.kind = "slew"
  BY KindStays
<1>2. block \in [kind : {"slew"}, y : Int, init : BOOLEAN]
  BY <1>1 DEF SlewHolds
<1>3. CASE TickSlew
  <2>1. PICK target \in Readings, dt \in Intervals :
          /\ \E o \in SlewTick(block, target, dt) : block' = o.block /\ out' = o.out
          /\ heard' = <<[from |-> block, target |-> target, dt |-> dt]>>
    BY <1>3 DEF TickSlew
  <2> DEFINE y == block.y
             delta == target - y
             z == CASE ~block.init -> target
                    [] block.init /\ dt <= 0 -> y
                    [] block.init /\ dt > 0 /\ delta > RateUp * dt -> y + RateUp * dt
                    [] block.init /\ dt > 0 /\ delta < -RateDown * dt -> y - RateDown * dt
                    [] OTHER -> target
  <2>2. block' = [block EXCEPT !.y = z, !.init = TRUE] /\ out' = z
    <3>1. SlewTick(block, target, dt) = {[block |-> [block EXCEPT !.y = z, !.init = TRUE], out |-> z]}
      BY Zenon DEF SlewTick
    <3> HIDE DEF z
    <3> QED
      BY <2>1, <3>1
  <2>3. target \in Int /\ dt \in Int /\ y \in Int
    BY <1>2, SignalPathAssumption
  <2> DEFINE ru == RateUp * dt
             rd == RateDown * dt
             pos == MaxOf(0, dt)
             up == RateUp * pos
             down == RateDown * pos
  <2>4. pos \in Nat /\ (dt > 0 => pos = dt) /\ (dt <= 0 => pos = 0)
    BY <2>3 DEF MaxOf
  <2>5. up \in Nat /\ down \in Nat
    BY <2>4, Bands
  <2>6. pos = 0 => up = 0 /\ down = 0
    BY Bands
  <2>7. dt > 0 => up = RateUp * dt /\ down = RateDown * dt
    BY <2>3, <2>4, Bands
  <2> HIDE DEF pos, up, down
  <2>8. block.init =>
          z = IF dt <= 0 THEN y
              ELSE IF delta > up THEN y + up ELSE IF delta < -down THEN y - down ELSE target
    <3>1. ru \in Int /\ rd \in Int /\ (dt > 0 => up = ru /\ down = rd)
      BY <2>3, <2>7, Bands
    <3>2. z = CASE ~block.init -> target
                [] block.init /\ dt <= 0 -> y
                [] block.init /\ dt > 0 /\ delta > ru -> y + ru
                [] block.init /\ dt > 0 /\ delta < -rd -> y - rd
                [] OTHER -> target
      OBVIOUS
    <3>3. delta \in Int /\ block.init \in BOOLEAN
      BY <1>2, <2>3
    <3> HIDE DEF z, ru, rd, y, delta
    <3>4. CASE dt <= 0
      BY <2>3, <3>2, <3>3, <3>4
    <3>5. CASE dt > 0
      BY <2>3, <2>5, <3>1, <3>2, <3>3, <3>5
    <3> QED
      BY <2>3, <3>4, <3>5
  <2>9. ~block.init => z = target
    BY <1>2
  <2>10. z \in Int
    BY <1>2, <2>3, <2>5, <2>8, <2>9
  <2> HIDE DEF z
  <2>11. block.init => /\ z \in y - down .. y + up
                       /\ \A v \in y - down .. y + up : Distance(v, target) >= Distance(z, target)
    <3>1. CASE dt <= 0
      <4>1. block.init => z = y /\ up = 0 /\ down = 0
        BY <3>1, <2>4, <2>6, <2>8
      <4> QED
        BY <4>1, <2>3 DEF Distance
    <3>2. CASE ~(dt <= 0)
      <4>1. block.init =>
              z = IF target - y > up THEN y + up ELSE IF target - y < -down THEN y - down ELSE target
        BY <3>2, <2>8
      <4> HIDE DEF y
      <4> QED
        BY <4>1, <2>3, <2>5, <2>10, NearestIs
    <3> QED
      BY <3>1, <3>2
  <2>12. block' \in [kind : {"slew"}, y : Int, init : BOOLEAN]
    <3>1. [block EXCEPT !.y = z, !.init = TRUE] = [[block EXCEPT !.y = z] EXCEPT !.init = TRUE]
      OBVIOUS
    <3>2. [block EXCEPT !.y = z] \in [kind : {"slew"}, y : Int, init : BOOLEAN]
      BY <1>2, <2>10
    <3> QED
      BY <2>2, <3>1, <3>2
  <2>13. heard'[1].from = block /\ heard'[1].target = target /\ heard'[1].dt = dt
    BY <2>1
  <2>14. SlewSound'
    <3> SUFFICES ASSUME block.init
                 PROVE  /\ z \in y - RateDown * pos .. y + RateUp * pos
                        /\ \A v \in y - RateDown * pos .. y + RateUp * pos :
                             Distance(v, target) >= Distance(z, target)
      BY <2>2, <2>13, Zenon DEF SlewSound, pos
    <3> QED
      BY <2>11 DEF up, down
  <2> QED
    BY <2>12, <2>14 DEF SlewHolds
<1>4. CASE PathReset
  <2>1. block' = Slew /\ heard' = <<>>
    BY <1>1, <1>4 DEF PathReset, Fresh
  <2> QED
    BY <2>1 DEF SlewHolds, Slew
<1>5. CASE UNCHANGED path
  BY <1>5 DEF path, SlewHolds, SlewSound
<1> QED
  BY <1>1, <1>3, <1>4, <1>5 DEF PathNext, Tick, TickMhe, TickMonitor, TickPair

-----------------------------------------------------------------------------
(* A redundant pair.                                                       *)

PairBlocks == [kind : {"pair"}, margin : Margins, opposite : BOOLEAN, a : SignalStatus, b : SignalStatus]

VoteHolds ==
    block.kind = "pair" =>
        /\ block \in PairBlocks
        /\ heard # <<>> => VoteSound

\* A usable reading is within the fault band, as the margin widens it.
LEMMA UsableIsWhole ==
    ASSUME NEW status \in SignalStatus, NEW m \in Nat, NEW x \in Int, Monitored(status, m, x) \in Usable
    PROVE  ~(x < Fault.lower - m) /\ ~(x > Fault.upper + m)
<1> DEFINE s == Monitored(status, m, x)
<1>1. Widened(status, m, x, s)
  BY MonitoredIs
<1>2. s \in Usable
  OBVIOUS
<1> HIDE DEF s
<1> QED
  BY <1>1, <1>2, Bands DEF Widened, Edges4, Usable, Faults, SignalStatus

\* Whom a vote that has a value believes.
LEMMA VoteIs ==
    ASSUME NEW p \in Int, NEW sa \in SignalStatus, NEW q \in Int, NEW sb \in SignalStatus,
           NEW opposite \in BOOLEAN, NEW r, r = CrossChecked(p, sa, q, sb, opposite),
           "twice" \in DOMAIN r,
           NEW other \in Int, other = IF opposite THEN PairSpan - q ELSE q
    PROVE  /\ r.status \in {"Agree", "ChannelAOnly"} => sa \in Usable /\ Distance(r.twice, 2 * p) <= Tol
           /\ r.status \in {"Agree", "ChannelBOnly"} => sb \in Usable
           /\ r.status = "Agree" => Distance(r.twice, 2 * other) <= Tol
<1> Tol \in Nat
  BY Bands
<1>1. CASE sa \notin Usable /\ sb \notin Usable
  BY <1>1 DEF CrossChecked
<1>2. CASE sa \in Usable /\ sb \notin Usable
  <2>1. r = [status |-> "ChannelAOnly", twice |-> 2 * p]
    BY <1>2 DEF CrossChecked
  <2> QED
    BY <1>2, <2>1 DEF Distance
<1>3. CASE sa \notin Usable /\ sb \in Usable
  <2>1. r = [status |-> "ChannelBOnly", twice |-> 2 * q]
    BY <1>3 DEF CrossChecked
  <2> QED
    BY <1>3, <2>1
<1>4. CASE sa \in Usable /\ sb \in Usable /\ Distance(p, other) <= Tol
  <2>1. r = [status |-> "Agree", twice |-> p + other]
    BY <1>4 DEF CrossChecked
  <2>2. Distance(p + other, 2 * p) <= Tol /\ Distance(p + other, 2 * other) <= Tol
    BY <1>4 DEF Distance
  <2> QED
    BY <1>4, <2>1, <2>2
<1>5. CASE sa \in Usable /\ sb \in Usable /\ ~(Distance(p, other) <= Tol)
  <2>1. r = [status |-> "Disagree"]
    BY <1>5 DEF CrossChecked
  <2> QED
    BY <2>1
<1> QED
  BY <1>1, <1>2, <1>3, <1>4, <1>5

LEMMA VoteFirst == PathInit => VoteHolds
<1> SUFFICES ASSUME PathInit, block.kind = "pair" PROVE VoteHolds
  BY DEF VoteHolds
<1>1. PICK m \in Margins, v \in BOOLEAN : block = Pair(m, v)
  BY FirstBlock
<1>2. heard = <<>>
  BY DEF PathInit
<1> QED
  BY <1>1, <1>2 DEF VoteHolds, PairBlocks, Pair, SignalStatus, Usable

LEMMA VoteStep == HasKind /\ VoteHolds /\ [PathNext]_path => VoteHolds'
<1> SUFFICES ASSUME HasKind, VoteHolds, [PathNext]_path, block'.kind = "pair"
             PROVE  VoteHolds'
  BY DEF VoteHolds
<1>1. block.kind = "pair"
  BY KindStays
<1>2. block \in PairBlocks
  BY <1>1 DEF VoteHolds
<1>3. CASE TickPair
  <2>1. PICK x \in Readings, y \in Readings :
          /\ \E o \in PairTick(block, x, y) : block' = o.block /\ out' = o.out
          /\ heard' = <<[a |-> x, b |-> y]>>
    BY <1>3 DEF TickPair
  <2> DEFINE m  == block.margin
             v  == block.opposite
             sa == Monitored(block.a, m, x)
             sb == Monitored(block.b, m, y)
             p  == Calibrated(x)
             q  == Calibrated(y)
             r  == CrossChecked(p, sa, q, sb, v)
             other == IF v THEN PairSpan - q ELSE q
  <2>2. block' = [block EXCEPT !.a = sa, !.b = sb] /\ out' = r
    <3>1. PairTick(block, x, y) = {[block |-> [block EXCEPT !.a = sa, !.b = sb], out |-> r]}
      BY Zenon DEF PairTick
    <3> HIDE DEF sa, sb, r
    <3> QED
      BY <2>1, <3>1
  <2>3. /\ x \in Int /\ y \in Int /\ m \in Nat /\ v \in BOOLEAN
        /\ block.a \in SignalStatus /\ block.b \in SignalStatus
    BY <1>2, SignalPathAssumption, ConditioningAssumption DEF PairBlocks
  <2>4. p \in Int /\ q \in Int /\ other \in Int
    BY <2>3, Bands DEF Calibrated
  <2>5. /\ sa \in SignalStatus /\ sb \in SignalStatus
        /\ sa \in Usable => ~(x < Fault.lower - m) /\ ~(x > Fault.upper + m)
        /\ sb \in Usable => ~(y < Fault.lower - m) /\ ~(y > Fault.upper + m)
    BY <2>3, MonitoredIs, UsableIsWhole
  <2>6. other = IF v THEN PairSpan - q ELSE q
    OBVIOUS
  <2>7. r = CrossChecked(p, sa, q, sb, v)
    OBVIOUS
  <2> HIDE DEF sa, sb, p, q, r, other, m, v
  <2>8. "twice" \in DOMAIN r =>
          /\ r.status \in {"Agree", "ChannelAOnly"} => sa \in Usable /\ Distance(r.twice, 2 * p) <= Tol
          /\ r.status \in {"Agree", "ChannelBOnly"} => sb \in Usable
          /\ r.status = "Agree" => Distance(r.twice, 2 * other) <= Tol
    BY <2>3, <2>4, <2>5, <2>6, <2>7, VoteIs
  <2>9. block' \in PairBlocks /\ block'.margin = m /\ block'.opposite = v
    <3>1. [block EXCEPT !.a = sa, !.b = sb] = [[block EXCEPT !.a = sa] EXCEPT !.b = sb]
      OBVIOUS
    <3>2. [block EXCEPT !.a = sa] \in PairBlocks
          /\ [block EXCEPT !.a = sa].margin = m /\ [block EXCEPT !.a = sa].opposite = v
      BY <1>2, <2>5 DEF PairBlocks, m, v
    <3>3. \A c \in PairBlocks : /\ [c EXCEPT !.b = sb] \in PairBlocks
                                /\ [c EXCEPT !.b = sb].margin = c.margin
                                /\ [c EXCEPT !.b = sb].opposite = c.opposite
      BY <2>5 DEF PairBlocks
    <3> QED
      BY <2>2, <3>1, <3>2, <3>3
  <2>10. heard'[1].a = x /\ heard'[1].b = y
    BY <2>1
  <2>11. VoteSound'
    <3>1. /\ ~(x < Fault.lower - m) /\ ~(x > Fault.upper + m) => ~Broken(x)'
          /\ ~(y < Fault.lower - m) /\ ~(y > Fault.upper + m) => ~Broken(y)'
      BY <2>9 DEF Broken
    <3>2. HasValue' <=> "twice" \in DOMAIN r
      BY <2>2 DEF HasValue
    <3>3. /\ Calibrated(heard'[1].a) = p
          /\ (IF block'.opposite THEN PairSpan - Calibrated(heard'[1].b) ELSE Calibrated(heard'[1].b)) = other
      BY <2>9, <2>10 DEF p, q, other
    <3>4. HasValue' =>
            /\ r.status \in {"Agree", "ChannelAOnly"} => ~Broken(x)' /\ Distance(r.twice, 2 * p) <= Tol
            /\ r.status \in {"Agree", "ChannelBOnly"} => ~Broken(y)'
            /\ r.status = "Agree" => Distance(r.twice, 2 * other) <= Tol
      BY <2>5, <2>8, <3>1, <3>2
    <3> QED
      BY <2>2, <2>10, <3>3, <3>4 DEF VoteSound
  <2> QED
    BY <2>9, <2>11 DEF VoteHolds
<1>4. CASE PathReset
  BY <1>1, <1>4 DEF PathReset, Fresh
<1>5. CASE UNCHANGED path
  BY <1>5 DEF path, VoteHolds, VoteSound, HasValue, Broken
<1> QED
  BY <1>1, <1>3, <1>4, <1>5 DEF PathNext, Tick, TickMhe, TickMonitor, TickSlew

\* What leaves the front end is fit for use: of any pair of channels, calibrated by any
\* line and whatever their margins, a vote never takes a value from a broken wire nor
\* one further than the tolerance from a channel it averages; a trigger of any band is
\* where the last reading outside its band put it; and a limiter of any rates goes to
\* the value it can reach that is nearest to its target.
THEOREM FrontEndIsSound == PathSpec => []FrontEndSound
<1> DEFINE I == HasKind /\ TriggerFollows /\ SlewHolds /\ VoteHolds
<1>1. PathInit => I
  BY FirstBlock, TriggerFirst, SlewFirst, VoteFirst
<1>2. I /\ [PathNext]_path => I'
  BY KindStays, TriggerStep, SlewStep, VoteStep
<1>3. I => FrontEndSound
  <2>1. SlewHolds /\ heard # <<>> => SlewSound
    BY DEF SlewHolds, SlewSound
  <2>2. VoteHolds /\ heard # <<>> => VoteSound
    BY DEF VoteHolds, VoteSound
  <2> QED
    BY <2>1, <2>2, FollowingIsTriggered DEF FrontEndSound
<1> QED
  BY <1>1, <1>2, <1>3, PTL DEF PathSpec

-----------------------------------------------------------------------------
(***************************************************************************)
(* The rings of the windows.                                               *)
(***************************************************************************)

PastOf(h) == [j \in Int |-> IF j \in 1 .. Len(h) THEN h[j] ELSE 0]

\* The P slots of a ring hold the last P values of f, up to the k-th.
RingHolds(ring, P, k, f) == \A i \in k - P + 1 .. k : ring[(i - 1) % P] = f[i]

\* A value written where the ring stands replaces the oldest.
Writes(ring, C, P, k, f, g, v, new) ==
    /\ P \in Nat \ {0} /\ C \in Nat /\ P <= C /\ k \in Nat /\ v \in Int
    /\ ring \in [0 .. C - 1 -> Int] /\ RingHolds(ring, P, k, f)
    /\ \A i \in k - P + 2 .. k : g[i] = f[i]
    /\ g[k + 1] = v
    /\ new = [ring EXCEPT ![k % P] = v]

LEMMA RingTurns ==
    ASSUME NEW ring, NEW C, NEW P, NEW k, NEW f, NEW g, NEW v, NEW new,
           Writes(ring, C, P, k, f, g, v, new)
    PROVE  /\ k % P \in 0 .. C - 1
           /\ new \in [0 .. C - 1 -> Int]
           /\ RingHolds(new, P, k + 1, g)
<1> DEFINE head == k % P
<1>0. /\ P \in Nat \ {0} /\ C \in Nat /\ P <= C /\ k \in Nat /\ v \in Int
      /\ ring \in [0 .. C - 1 -> Int] /\ RingHolds(ring, P, k, f)
      /\ \A i \in k - P + 2 .. k : g[i] = f[i]
      /\ g[k + 1] = v
      /\ new = [ring EXCEPT ![head] = v]
  BY DEF Writes
<1>1. head \in Int /\ 0 <= head /\ head < P
  BY <1>0, Remainder
<1> HIDE DEF head
<1>2. head \in 0 .. C - 1 /\ new \in [0 .. C - 1 -> Int] /\ new[head] = v
  BY <1>0, <1>1
<1>3. ASSUME NEW i \in (k + 1) - P + 1 .. k + 1 PROVE new[(i - 1) % P] = g[i]
  <2>1. CASE i = k + 1
    BY <2>1, <1>0, <1>2 DEF head
  <2>2. CASE i < k + 1
    <3> DEFINE j == (i - 1) % P
    <3>1. i - 1 \in Int /\ i - 1 < k /\ k < (i - 1) + P
      BY <2>2, <1>0
    <3>2. j # head
      <4> DEFINE p == i - 1
      <4>1. p \in Int /\ k \in Int /\ p < k /\ k < p + P /\ P \in Nat /\ P > 0
        BY <3>1, <1>0
      <4> HIDE DEF p
      <4>2. p % P # k % P
        BY <4>1, RemaindersDiffer
      <4> QED
        BY <4>2 DEF head, p
    <3>3. j \in Int /\ 0 <= j /\ j < P
      BY <3>1, <1>0, Remainder
    <3>4. ring[j] = f[i] /\ g[i] = f[i]
      BY <2>2, <1>0 DEF RingHolds
    <3> HIDE DEF j
    <3>5. new[j] = ring[j]
      BY <3>2, <3>3, <1>0, <1>1
    <3> QED
      BY <3>4, <3>5 DEF j
  <2> QED
    BY <2>1, <2>2, <1>0
<1>4. RingHolds(new, P, k + 1, g)
  BY <1>3 DEF RingHolds
<1> QED
  BY <1>2, <1>4 DEF head

\* The slot before the one the ring stands at is also reached the long way round.
LEMMA SlotOf ==
    ASSUME NEW P \in Nat \ {0}, NEW k \in Int, NEW j \in Int
    PROVE  /\ ((k % P) + j) % P = (k + j) % P
           /\ (k + P) % P = k % P
<1>0. P \in Nat /\ P > 0 /\ P \in Int /\ 0 \in Int
  OBVIOUS
<1>1. ((k % P) + j) % P = (k + j) % P
  BY <1>0, RemainderAdds
<1>2. ((P % P) + k) % P = (P + k) % P /\ ((0 % P) + k) % P = (0 + k) % P
  BY <1>0, RemainderAdds
<1>3. P % P = 0 /\ 0 % P = 0
  <2>1. P = P * 1 + 0 /\ 0 = P * 0 + 0 /\ 0 \in 0 .. P - 1
    OBVIOUS
  <2>2. (P * 1 + 0) % P = 0 /\ (P * 0 + 0) % P = 0
    BY <2>1, Unique
  <2> QED
    BY <2>1, <2>2
<1>4. P + k = k + P /\ 0 + k = k
  OBVIOUS
<1> QED
  BY <1>1, <1>2, <1>3, <1>4

LEMMA EmptyRing ==
    ASSUME NEW P \in Nat \ {0}, NEW C \in Nat, P <= C
    PROVE  /\ Zeros(C) \in [0 .. C - 1 -> Int]
           /\ RingHolds(Zeros(C), P, 0, PastOf(<<>>))
<1>1. ASSUME NEW i \in 0 - P + 1 .. 0 PROVE Zeros(C)[(i - 1) % P] = PastOf(<<>>)[i]
  <2>1. i - 1 \in Int /\ (i - 1) % P \in Int /\ 0 <= (i - 1) % P /\ (i - 1) % P < P
    BY Remainder
  <2>2. PastOf(<<>>)[i] = 0
    BY DEF PastOf
  <2> QED
    BY <2>1, <2>2 DEF Zeros
<1>2. Zeros(C) \in [0 .. C - 1 -> Int]
  BY DEF Zeros
<1> QED
  BY <1>1, <1>2 DEF RingHolds

\* One more sample changes no earlier one.
LEMMA PastGrows ==
    ASSUME NEW h \in Seq(Int), NEW u \in Int
    PROVE  /\ PastOf(h) \in [Int -> Int] /\ Append(h, u) \in Seq(Int)
           /\ Len(Append(h, u)) = Len(h) + 1
           /\ PastOf(Append(h, u))[Len(h) + 1] = u
           /\ \A i \in Int : i <= Len(h) => PastOf(Append(h, u))[i] = PastOf(h)[i]
BY DEF PastOf

-----------------------------------------------------------------------------
(***************************************************************************)
(* The Smith predictor.                                                    *)
(***************************************************************************)

LEMMA ModelIs ==
    /\ \A x, u \in Int : Model(x, u) \in Int
    /\ Model(0, 0) = 0
<1>1. Scale \in Int
  BY WindowsAssumption
<1>2. ASSUME NEW x \in Int, NEW u \in Int PROVE Model(x, u) \in Int
  <2>1. x \div 2 \in Int /\ Scale * u \in Int
    BY <1>1
  <2> QED
    BY <2>1 DEF Model
<1>3. 0 \div 2 = 0 /\ Scale * 0 = 0
  BY <1>1
<1> QED
  BY <1>2, <1>3 DEF Model

\* A signal: 0 before its first sample.
Signals == {f \in [Int -> Int] : \A i \in Int : i <= 0 => f[i] = 0}

\* The delay-free model after i of the samples of f, at rest before the first.
Turns(f) == [k \in Nat |-> [x \in Int |-> Model(x, f[k])]]

Free(f) == [i \in Int |-> Iterated(0, Turns(f))[IF 0 < i THEN i ELSE 0]]

LEMMA TurnsAre ==
    ASSUME NEW f \in [Int -> Int]
    PROVE  /\ Turns(f) \in [Nat -> [Int -> Int]]
           /\ \A k \in Nat, x \in Int : Turns(f)[k][x] = Model(x, f[k])
<1>1. \A k \in Nat : f[k] \in Int
  OBVIOUS
<1>2. \A k \in Nat, x \in Int : Model(x, f[k]) \in Int
  BY <1>1, ModelIs
<1> QED
  BY <1>2 DEF Turns

LEMMA FreeRuns ==
    ASSUME NEW f \in Signals
    PROVE  /\ Free(f) \in [Int -> Int] /\ Free(f)[0] = 0
           /\ \A i \in Int : Free(f)[i + 1] = Model(Free(f)[i], f[i + 1])
           /\ \A i \in Int : i <= 0 => Free(f)[i] = 0
<1> DEFINE Z == Int
           F == Turns(f)
           it == Iterated(0, F)
<1>0. f \in [Int -> Int] /\ \A i \in Int : i <= 0 => f[i] = 0
  BY DEF Signals
<1>1. F \in [Nat -> [Z -> Z]] /\ 0 \in Z
  BY <1>0, TurnsAre
<1>2. it \in [Nat -> Z] /\ it[0] = 0 /\ \A n \in Nat : it[n + 1] = F[n + 1][it[n]]
  <2> HIDE DEF F, Z
  <2> QED
    BY <1>1, IteratedUnfolds
<1> HIDE DEF it
<1>3. Free(f) = [i \in Int |-> it[IF 0 < i THEN i ELSE 0]]
  BY DEF Free, it, F
<1>4. Free(f) \in [Int -> Int] /\ \A i \in Int : Free(f)[i] = it[IF 0 < i THEN i ELSE 0]
  BY <1>2, <1>3
<1>5. ASSUME NEW i \in Int PROVE Free(f)[i + 1] = Model(Free(f)[i], f[i + 1])
  <2>1. CASE i >= 0
    <3>1. i \in Nat /\ i + 1 \in Nat /\ it[i] \in Int
      BY <2>1, <1>2
    <3>2. Free(f)[i] = it[i] /\ Free(f)[i + 1] = it[i + 1]
      BY <2>1, <1>2, <1>4
    <3>3. F[i + 1][it[i]] = Model(it[i], f[i + 1])
      BY <1>0, <3>1, TurnsAre
    <3> HIDE DEF F
    <3> QED
      BY <1>2, <3>1, <3>2, <3>3
  <2>2. CASE i < 0
    <3>1. Free(f)[i] = 0 /\ Free(f)[i + 1] = 0
      BY <2>2, <1>2, <1>4
    <3>2. f[i + 1] = 0
      BY <2>2, <1>0
    <3> QED
      BY <3>1, <3>2, ModelIs
  <2> QED
    BY <2>1, <2>2
<1>6. Free(f)[0] = 0 /\ \A i \in Int : i <= 0 => Free(f)[i] = 0
  BY <1>2, <1>4
<1> QED
  BY <1>4, <1>5, <1>6

\* It depends on no later sample.
LEMMA FreeAgrees ==
    \A f, g \in [Int -> Int], i \in Int :
        (\A k \in Int : k <= i => f[k] = g[k]) => Free(f)[i] = Free(g)[i]
<1>1. ASSUME NEW f, NEW g, NEW i, f \in [Int -> Int], g \in [Int -> Int], i \in Int,
             \A k \in Int : k <= i => f[k] = g[k]
      PROVE  Free(f)[i] = Free(g)[i]
  <2> DEFINE n == IF 0 < i THEN i ELSE 0
             F == Turns(f)
             G == Turns(g)
             Z == Int
  <2>1. n \in Nat
    BY <1>1
  <2>2. \A k \in 1 .. n : f[k] = g[k]
    BY <1>1
  <2>3. F \in [Nat -> [Z -> Z]] /\ G \in [Nat -> [Z -> Z]] /\ 0 \in Z
    BY <1>1, TurnsAre
  <2>4. \A k \in 1 .. n : F[k] = G[k]
    BY <2>1, <2>2 DEF Turns
  <2>5. Iterated(0, F)[n] = Iterated(0, G)[n]
    <3> HIDE DEF F, G, Z, n
    <3> QED
      BY <2>1, <2>3, <2>4, IteratedAgree
  <2> QED
    BY <1>1, <2>5 DEF Free
<1> QED
  BY <1>1

LEMMA DelayFreeIs ==
    ASSUME NEW i \in Int
    PROVE  Free(PastOf(heard))[i] = DelayFree[MaxOf(0, i)]
<1>1. \A k \in Nat : PastOf(heard)[k] = Past(k)
  BY DEF PastOf, Past
<1>2. Turns(PastOf(heard)) = [k \in Nat |-> [x \in Int |-> Model(x, Past(k))]]
  BY <1>1 DEF Turns
<1> QED
  BY <1>2 DEF Free, DelayFree, MaxOf

\* What the commands in flight do to the model's state: the ring of a predictor that
\* has heard k samples of f holds the last d + 1 of them, and its state is the
\* model's d ago.
LEMMA PredictedIs ==
    ASSUME NEW f \in Signals, NEW k \in Nat, NEW b, NEW d \in Nat, b.d = d,
           b.head = k % (d + 1), b.x = Free(f)[k - d],
           RingHolds(b.ring, d + 1, k, f),
           NEW C \in Nat, d + 1 <= C, b.ring \in [0 .. C - 1 -> Int]
    PROVE  Predicted(b) = Free(f)[k]
<1> DEFINE P == d + 1
           g == Free(f)
           Z == Nat \X Int
           Turn == [s \in Z |-> LET slot == NextSlot(b, s[1]) IN <<slot, Model(s[2], b.ring[slot])>>]
           F == [j \in Nat |-> Turn]
           a == <<b.head, b.x>>
           it == Iterated(a, F)
           at(j) == <<(k + j) % P, g[k - d + j]>>
           T == {j \in Nat : j > d \/ it[j] = at(j)}
<1>1. P \in Nat \ {0} /\ P \in Nat /\ P > 0 /\ P <= C
  OBVIOUS
<1>2. g \in [Int -> Int] /\ f \in [Int -> Int] /\ \A i \in Int : g[i + 1] = Model(g[i], f[i + 1])
  BY FreeRuns DEF Signals
<1>3. \A i \in Int : i % P \in Nat /\ i % P \in 0 .. C - 1 /\ b.ring[i % P] \in Int
  <2> HIDE DEF P
  <2>1. \A i \in Int : i % P \in Int /\ 0 <= i % P /\ i % P < P
    BY <1>1, Remainder
  <2> QED
    BY <1>1, <2>1
<1>4. \A i \in Nat : NextSlot(b, i) = (i + 1) % P
  BY DEF NextSlot
<1>5. Predicted(b) = it[d][2]
  BY Zenon DEF Predicted
<1>6. \A i \in k - P + 1 .. k : b.ring[(i - 1) % P] = f[i]
  BY DEF RingHolds
<1>7. b.head = k % P /\ b.x = g[k - d]
  OBVIOUS
<1> HIDE DEF P, g
<1>8. ASSUME NEW i \in Nat, NEW x \in Int
      PROVE  /\ Turn[<<i, x>>] = <<(i + 1) % P, Model(x, b.ring[(i + 1) % P])>>
             /\ Turn[<<i, x>>] \in Z
  <2>0. i + 1 \in Int
    OBVIOUS
  <2>1. (i + 1) % P \in Nat /\ b.ring[(i + 1) % P] \in Int
    BY <1>3, <2>0
  <2>2. Model(x, b.ring[(i + 1) % P]) \in Int
    BY <2>1, ModelIs
  <2>3. <<i, x>> \in Z /\ <<i, x>>[1] = i /\ <<i, x>>[2] = x
    OBVIOUS
  <2>4. Turn[<<i, x>>] = <<NextSlot(b, i), Model(x, b.ring[NextSlot(b, i)])>>
    BY <2>3
  <2> QED
    BY <1>4, <2>1, <2>2, <2>4
<1>9. F \in [Nat -> [Z -> Z]]
  <2>1. ASSUME NEW s \in Z PROVE Turn[s] \in Z
    <3>1. PICK i \in Nat, x \in Int : s = <<i, x>>
      OBVIOUS
    <3> HIDE DEF Turn
    <3> QED
      BY <3>1, <1>8
  <2>2. Turn = [s \in Z |-> Turn[s]]
    OBVIOUS
  <2> HIDE DEF Turn, Z
  <2>3. Turn \in [Z -> Z]
    BY <2>1, <2>2
  <2> QED
    BY <2>3
<1>10. \A j \in Nat : F[j + 1] = Turn
  <2> HIDE DEF Turn
  <2> QED
    OBVIOUS
<1>11. a \in Z
  <2>1. k \in Int /\ k - d \in Int
    OBVIOUS
  <2>2. b.head \in Nat /\ b.x \in Int
    BY <2>1, <1>2, <1>3, <1>7
  <2> QED
    BY <2>2
<1>12. it[0] = a /\ \A j \in Nat : it[j + 1] = Turn[it[j]]
  <2>1. it \in [Nat -> Z] /\ it[0] = a /\ \A j \in Nat : it[j + 1] = F[j + 1][it[j]]
    <3> HIDE DEF F, Z, a, Turn
    <3> QED
      BY <1>9, <1>11, IteratedUnfolds
  <2> HIDE DEF it, F, a, Turn
  <2> QED
    BY <1>10, <2>1
<1> HIDE DEF it, F, Turn
<1>13. it[0] = at(0)
  BY <1>1, <1>2, <1>7, <1>12
<1>14. ASSUME NEW j \in Nat, j + 1 <= d, it[j] = at(j) PROVE it[j + 1] = at(j + 1)
  <2> DEFINE s == (k + j) % P
             x == g[k - d + j]
             i == k - d + j + 1
  <2>0. k + j \in Int /\ k - d + j \in Int
    OBVIOUS
  <2>1. s \in Nat /\ x \in Int
    BY <2>0, <1>2, <1>3
  <2>2. (s + 1) % P = (k + j + 1) % P
    <3> DEFINE t == k + j
    <3>1. t \in Int /\ 1 \in Int
      OBVIOUS
    <3> HIDE DEF t
    <3>2. ((t % P) + 1) % P = (t + 1) % P
      BY <1>1, <3>1, SlotOf
    <3> QED
      BY <3>2 DEF t
  <2>3. i \in k - P + 1 .. k /\ i - 1 + P = k + j + 1 /\ i - 1 \in Int /\ i - 1 = k - d + j
    BY <1>1, <1>14 DEF P
  <2>4. (k + j + 1) % P = (i - 1) % P
    <3>1. ((i - 1) + P) % P = (i - 1) % P
      <4> HIDE DEF i
      <4> QED
        BY <1>1, <2>3, SlotOf
    <3> HIDE DEF i
    <3> QED
      BY <2>3, <3>1
  <2>5. b.ring[(s + 1) % P] = f[i]
    BY <1>6, <2>2, <2>3, <2>4
  <2>6. g[i] = Model(x, f[i])
    BY <1>2, <2>0
  <2>7. it[j + 1] = <<(s + 1) % P, Model(x, b.ring[(s + 1) % P])>>
    <3>1. it[j] = <<s, x>>
      BY <1>14
    <3> HIDE DEF s, x
    <3>2. Turn[<<s, x>>] = <<(s + 1) % P, Model(x, b.ring[(s + 1) % P])>>
      BY <1>8, <2>1
    <3>3. it[j + 1] = Turn[it[j]]
      BY <1>12
    <3> QED
      BY <3>1, <3>2, <3>3
  <2>8. it[j + 1] = <<(k + j + 1) % P, g[i]>>
    <3> HIDE DEF s, x, i
    <3> QED
      BY <2>2, <2>5, <2>6, <2>7
  <2>9. k + (j + 1) = k + j + 1 /\ k - d + (j + 1) = i
    OBVIOUS
  <2> QED
    BY <2>8, <2>9
<1>15. T = Nat
  <2>1. T \in SUBSET Nat /\ 0 \in T
    <3> HIDE DEF at
    <3> QED
      BY <1>13
  <2>2. ASSUME NEW j \in T PROVE j + 1 \in T
    <3> HIDE DEF at
    <3> QED
      BY <1>14
  <2> HIDE DEF T
  <2> QED
    BY <2>1, <2>2, Inductive
<1>16. it[d] = at(d)
  <2> HIDE DEF at
  <2> QED
    BY <1>15
<1>17. it[d][2] = g[k - d + d] /\ k - d + d = k
  BY <1>16
<1> QED
  BY <1>5, <1>17 DEF g

SmithBlocks ==
    [kind : {"smith"}, d : 0 .. Capacity, ring : [0 .. Capacity - 1 -> Int], head : Int, x : Int, valid : BOOLEAN]

\* A predictor that has heard k samples of f.
SmithAt(b, k, f) ==
    /\ b.head = k % (b.d + 1)
    /\ RingHolds(b.ring, b.d + 1, k, f)
    /\ b.x = Free(f)[k - b.d]

\* g goes on where f stood after k samples, with u.
GoesOn(f, g, k, u) ==
    /\ f \in Signals /\ g \in Signals /\ k \in Nat /\ u \in Int
    /\ g[k + 1] = u /\ \A i \in Int : i <= k => g[i] = f[i]

\* What a predictor that heard k samples answers to the next.
SmithAnswers(b, k, g, o) ==
    /\ o.block \in SmithBlocks /\ o.block.d = b.d /\ o.block.valid = b.valid
    /\ SmithAt(o.block, k + 1, g)
    /\ o.out = Free(g)[k] - Free(g)[k - b.d]

LEMMA SmithTicks ==
    ASSUME NEW f, NEW g, NEW k, NEW u, GoesOn(f, g, k, u),
           NEW b, b \in SmithBlocks, b.valid, b.d <= Capacity - 1, SmithAt(b, k, f),
           NEW o, o \in SmithTick(b, u)
    PROVE  SmithAnswers(b, k, g, o)
<1> DEFINE d == b.d
           P == d + 1
           C == Capacity
           ring == [b.ring EXCEPT ![b.head] = u]
           head == NextSlot(b, b.head)
           x == Model(b.x, ring[head])
           z == Predicted(b) - b.x
           S == SmithBlocks
<1> /\ f \in Signals /\ g \in Signals /\ k \in Nat /\ u \in Int
    /\ g[k + 1] = u /\ \A i \in Int : i <= k => g[i] = f[i]
  BY DEF GoesOn
<1>1. /\ P \in Nat \ {0} /\ P \in Nat /\ P > 0 /\ C \in Nat /\ P <= C /\ d \in Nat
      /\ b.ring \in [0 .. C - 1 -> Int]
  BY WindowsAssumption DEF SmithBlocks
<1>2. f \in [Int -> Int] /\ g \in [Int -> Int]
  BY DEF Signals
<1>3. b.head = k % P /\ RingHolds(b.ring, P, k, f) /\ b.x = Free(f)[k - d]
  BY DEF SmithAt
<1>4. o.block = [b EXCEPT !.ring = ring, !.head = head, !.x = x] /\ o.out = z
  <2>1. SmithTick(b, u) = {[block |-> [b EXCEPT !.ring = ring, !.head = head, !.x = x], out |-> z]}
    BY DEF SmithTick
  <2> HIDE DEF ring, head, x, z
  <2> QED
    BY <2>1
<1>5. \A i \in Int : i <= k => Free(g)[i] = Free(f)[i]
  BY <1>2, FreeAgrees
<1>6. Free(g) \in [Int -> Int] /\ \A i \in Int : Free(g)[i + 1] = Model(Free(g)[i], g[i + 1])
  BY FreeRuns
<1> HIDE DEF P, C, d
<1>7. z = Free(g)[k] - Free(g)[k - d]
  <2>1. Predicted(b) = Free(f)[k]
    BY <1>1, <1>3, PredictedIs DEF d, P
  <2>2. k - d \in Int /\ k - d <= k /\ k \in Int
    BY <1>1
  <2> QED
    BY <1>3, <1>5, <2>1, <2>2
<1>8. ring \in [0 .. C - 1 -> Int] /\ RingHolds(ring, P, k + 1, g)
  <2>1. \A i \in k - P + 2 .. k : g[i] = f[i]
    BY <1>1
  <2>2. ring = [b.ring EXCEPT ![k % P] = u]
    BY <1>3
  <2> HIDE DEF ring
  <2>3. Writes(b.ring, C, P, k, f, g, u, ring)
    BY <1>1, <1>3, <2>1, <2>2 DEF Writes
  <2> QED
    BY <2>3, RingTurns
<1>9. head = (k + 1) % P
  <2>1. k \in Int /\ 1 \in Int
    OBVIOUS
  <2>2. head = ((k % P) + 1) % P
    BY <1>3 DEF NextSlot, P, d
  <2> QED
    BY <1>1, <2>1, <2>2, SlotOf
<1>10. x = Free(g)[k + 1 - d]
  <2> DEFINE i == k + 1 - d
  <2>1. i \in (k + 1) - P + 1 .. k + 1 /\ i - 1 \in Int /\ (i - 1) + P = k + 1 /\ i - 1 = k - d /\ i - 1 <= k
    BY <1>1 DEF P
  <2>2. (k + 1) % P = (i - 1) % P
    <3>1. ((i - 1) + P) % P = (i - 1) % P
      <4> HIDE DEF i
      <4> QED
        BY <1>1, <2>1, SlotOf
    <3> HIDE DEF i
    <3> QED
      BY <2>1, <3>1
  <2> HIDE DEF ring, i
  <2>3. ring[head] = g[i]
    BY <1>8, <1>9, <2>1, <2>2 DEF RingHolds
  <2>4. b.x = Free(g)[i - 1]
    BY <1>3, <1>5, <2>1
  <2>5. Free(g)[(i - 1) + 1] = Model(Free(g)[i - 1], g[(i - 1) + 1]) /\ (i - 1) + 1 = i
    BY <1>6, <2>1
  <2>6. x = Free(g)[i]
    BY <2>3, <2>4, <2>5
  <2> QED
    BY <2>6 DEF i
<1>11. x \in Int /\ head \in Int
  <2>1. k + 1 - d \in Int /\ k + 1 \in Int
    BY <1>1
  <2>2. (k + 1) % P \in Int
    BY <1>1, <2>1, Remainder
  <2> HIDE DEF x, head
  <2> QED
    BY <1>6, <1>9, <1>10, <2>1, <2>2
<1> HIDE DEF ring, head, x
<1>12. /\ o.block \in S /\ o.block.d = b.d /\ o.block.valid = b.valid
       /\ o.block.ring = ring /\ o.block.head = head /\ o.block.x = x
  <2>1. ring \in [0 .. Capacity - 1 -> Int]
    BY <1>8 DEF C
  <2>2. [b EXCEPT !.ring = ring, !.head = head, !.x = x]
           = [[[b EXCEPT !.ring = ring] EXCEPT !.head = head] EXCEPT !.x = x]
    OBVIOUS
  <2> DEFINE b1 == [b EXCEPT !.ring = ring]
             b2 == [b1 EXCEPT !.head = head]
             b3 == [b2 EXCEPT !.x = x]
  <2>3. b1 \in S /\ b1.d = b.d /\ b1.valid = b.valid /\ b1.ring = ring
    BY <2>1 DEF SmithBlocks
  <2> HIDE DEF b1
  <2>4. b2 \in S /\ b2.d = b.d /\ b2.valid = b.valid /\ b2.ring = ring /\ b2.head = head
    BY <2>3, <1>11 DEF SmithBlocks
  <2> HIDE DEF b2
  <2>5. b3 \in S /\ b3.d = b.d /\ b3.valid = b.valid /\ b3.ring = ring /\ b3.head = head /\ b3.x = x
    BY <2>4, <1>11 DEF SmithBlocks
  <2>6. o.block = b3
    BY <1>4, <2>2 DEF b1, b2
  <2> HIDE DEF b3, S
  <2> QED
    BY <2>5, <2>6
<1>13. SmithAt(o.block, k + 1, g)
  <2>1. o.block.d = d
    BY <1>12 DEF d
  <2>2. o.block.head = (k + 1) % P /\ RingHolds(o.block.ring, P, k + 1, g) /\ o.block.x = Free(g)[k + 1 - d]
    BY <1>8, <1>9, <1>10, <1>12
  <2> DEFINE c == o.block
  <2> HIDE DEF c, z
  <2>3. SmithAt(c, k + 1, g)
    BY <1>1, <2>1, <2>2 DEF SmithAt, P, c
  <2> QED
    BY <2>3 DEF c
<1>14. o.out = Free(g)[k] - Free(g)[k - b.d]
  BY <1>4, <1>7 DEF d
<1> QED
  BY <1>12, <1>13, <1>14 DEF SmithAnswers

LEMMA PastIsSignal ==
    ASSUME NEW h \in Seq(Int)
    PROVE  PastOf(h) \in Signals
BY DEF PastOf, Signals

\* One more sample takes the signal on.
LEMMA SignalGrows ==
    ASSUME NEW h \in Seq(Int), NEW u \in Int, NEW s, s = Append(h, u)
    PROVE  /\ s \in Seq(Int) /\ Len(s) = Len(h) + 1 /\ s # <<>>
           /\ GoesOn(PastOf(h), PastOf(s), Len(h), u)
<1>1. s \in Seq(Int) /\ Len(s) = Len(h) + 1 /\ s # <<>> /\ Len(h) \in Nat
  OBVIOUS
<1>2. PastOf(h) \in Signals /\ PastOf(s) \in Signals
  BY <1>1, PastIsSignal
<1>3. PastOf(s)[Len(h) + 1] = u /\ \A i \in Int : i <= Len(h) => PastOf(s)[i] = PastOf(h)[i]
  BY PastGrows
<1> QED
  BY <1>1, <1>2, <1>3 DEF GoesOn

\* A predictor of any delay its ring can hold.
SmithFollows ==
    block.kind = "smith" =>
        /\ block \in SmithBlocks /\ heard \in Seq(Int)
        /\ block.valid =>
             /\ block.d <= Capacity - 1
             /\ SmithAt(block, Len(heard), PastOf(heard))
             /\ heard # <<>> =>
                  out = Free(PastOf(heard))[Len(heard) - 1] - Free(PastOf(heard))[Len(heard) - 1 - block.d]

\* One that has heard nothing.
LEMMA SmithFresh ==
    ASSUME NEW d \in 0 .. Capacity
    PROVE  /\ Smith(d) \in SmithBlocks
           /\ Smith(d).valid => Smith(d).d <= Capacity - 1 /\ SmithAt(Smith(d), 0, PastOf(<<>>))
<1> DEFINE b == Smith(d)
           f == PastOf(<<>>)
           P == d + 1
<1>1. b.d = d /\ b.ring = Zeros(Capacity) /\ b.head = 0 /\ b.x = 0
  BY DEF Smith
<1>2. b \in SmithBlocks
  <2>1. Zeros(Capacity) \in [0 .. Capacity - 1 -> Int]
    BY DEF Zeros
  <2>2. b = [kind |-> "smith", d |-> d, ring |-> Zeros(Capacity), head |-> 0, x |-> 0,
             valid |-> d <= Capacity - 1]
    BY Zenon DEF Smith
  <2>3. (d <= Capacity - 1) \in BOOLEAN
    OBVIOUS
  <2> QED
    BY <2>1, <2>2, <2>3 DEF SmithBlocks
<1>3. b.valid => d <= Capacity - 1
  BY DEF Smith
<1>4. ASSUME d <= Capacity - 1 PROVE SmithAt(b, 0, f)
  <2>1. P \in Nat \ {0} /\ P \in Nat /\ P > 0 /\ Capacity \in Nat /\ P <= Capacity
    BY <1>4, WindowsAssumption
  <2> HIDE DEF P, f
  <2>2. RingHolds(Zeros(Capacity), P, 0, f)
    BY <2>1, EmptyRing DEF f
  <2>3. 0 % P = 0
    BY <2>1
  <2>4. <<>> \in Seq(Int)
    OBVIOUS
  <2>5. f \in Signals
    BY <2>4, PastIsSignal DEF f
  <2>6. Free(f)[0 - d] = 0
    BY <2>5, FreeRuns
  <2> QED
    BY <1>1, <2>2, <2>3, <2>6 DEF SmithAt, P
<1> QED
  BY <1>1, <1>2, <1>3, <1>4

LEMMA SmithFirst == PathInit => SmithFollows
<1> SUFFICES ASSUME PathInit, block.kind = "smith" PROVE SmithFollows
  BY DEF SmithFollows
<1>1. PICK d \in 0 .. Capacity : block = Smith(d)
  BY FirstBlock
<1>2. heard = <<>> /\ <<>> \in Seq(Int) /\ Len(<<>>) = 0
  BY DEF PathInit
<1> QED
  BY <1>1, <1>2, SmithFresh DEF SmithFollows

LEMMA SmithStep == HasKind /\ SmithFollows /\ [PathNext]_path => SmithFollows'
<1> SUFFICES ASSUME HasKind, SmithFollows, [PathNext]_path, block'.kind = "smith"
             PROVE  SmithFollows'
  BY DEF SmithFollows
<1>1. block.kind = "smith"
  BY KindStays
<1>2. /\ block \in SmithBlocks /\ heard \in Seq(Int)
      /\ block.valid =>
           /\ block.d <= Capacity - 1
           /\ SmithAt(block, Len(heard), PastOf(heard))
  BY <1>1 DEF SmithFollows
<1>3. CASE Tick
  <2>1. PICK u \in Samples : Hear(SmithTick(block, u), u)
    BY <1>1, <1>3 DEF Tick, TickOf
  <2>2. PICK o \in SmithTick(block, u) : block' = o.block /\ out' = o.out
    BY <2>1 DEF Hear
  <2>3. heard' = Append(heard, u) /\ u \in Int
    BY <2>1, SignalPathAssumption DEF Hear
  <2>4. PICK k \in Nat : k = Len(heard)
    BY <1>2
  <2>5. PICK f, g : f = PastOf(heard) /\ g = PastOf(heard')
    OBVIOUS
  <2>6. heard' \in Seq(Int) /\ Len(heard') = k + 1 /\ heard' # <<>> /\ GoesOn(f, g, k, u)
    BY <1>2, <2>3, <2>4, <2>5, SignalGrows
  <2>7. CASE block.valid
    <3>1. block.d <= Capacity - 1 /\ SmithAt(block, k, f)
      BY <1>2, <2>4, <2>5, <2>7
    <3>2. /\ o.block \in SmithBlocks /\ o.block.d = block.d /\ o.block.valid = block.valid
          /\ SmithAt(o.block, k + 1, g)
          /\ o.out = Free(g)[k] - Free(g)[k - block.d]
      <4>1. block \in SmithBlocks
        BY <1>2
      <4>2. GoesOn(f, g, k, u)
        BY <2>6
      <4>3. SmithAnswers(block, k, g, o)
        BY <4>1, <4>2, <2>2, <2>7, <3>1, SmithTicks
      <4> QED
        BY <4>3 DEF SmithAnswers
    <3>3. (k + 1) - 1 = k
      OBVIOUS
    <3> QED
      BY <2>2, <2>5, <2>6, <3>1, <3>2, <3>3 DEF SmithFollows
  <2>8. CASE ~block.valid
    <3>1. block' = block
      BY <2>2, <2>8 DEF SmithTick
    <3> QED
      BY <1>2, <2>6, <2>8, <3>1 DEF SmithFollows
  <2> QED
    BY <2>7, <2>8
<1>4. CASE PathReset
  <2>1. block' = Smith(block.d) /\ heard' = <<>> /\ <<>> \in Seq(Int) /\ Len(<<>>) = 0
    BY <1>1, <1>4 DEF PathReset, Fresh
  <2>2. block.d \in 0 .. Capacity
    BY <1>2 DEF SmithBlocks
  <2> QED
    BY <2>1, <2>2, SmithFresh DEF SmithFollows
<1>5. CASE UNCHANGED path
  BY <1>5 DEF path, SmithFollows
<1> QED
  BY <1>1, <1>3, <1>4, <1>5 DEF PathNext, TickMonitor, TickMhe, TickSlew, TickPair

-----------------------------------------------------------------------------
(***************************************************************************)
(* The window of the moving-horizon estimator.                             *)
(***************************************************************************)

MheFields == {"kind", "valid", "primed", "ys", "us", "xbar", "z"}

\* The j-th pair that prior and window hold.
PairAt(j) == <<MaxOf(1, j - Horizon), MaxOf(1, j - Horizon + 1)>>

\* The estimator's window and prior after k calls.
MheWindow(ys, us, xbar, k) ==
    /\ \A i \in 0 .. Horizon : ys[i] = MaxOf(1, k - Horizon + i)
    /\ \A i \in 0 .. Horizon - 1 : us[i] = MaxOf(1, k - Horizon + 1 + i)
    /\ xbar \in Seq(Int \X Int) /\ Len(xbar) = k - 1 /\ \A j \in 1 .. k - 1 : xbar[j] = PairAt(j)

MheAt(b, k) ==
    /\ DOMAIN b = MheFields
    /\ k = 0 => ~b.primed /\ b.xbar = <<>>
    /\ k > 0 => b.primed /\ MheWindow(b.ys, b.us, b.xbar, k)

\* The last update, of the estimate, is of nothing that is in the window.
LEMMA EstimateApart ==
    ASSUME NEW b, NEW z, NEW k, MheAt(b, k)
    PROVE  MheAt([b EXCEPT !.z = z], k) /\ [b EXCEPT !.z = z].valid = b.valid
<1> DEFINE c == [b EXCEPT !.z = z]
<1>1. DOMAIN b = MheFields
  BY DEF MheAt
<1>2. /\ DOMAIN c = MheFields /\ c.primed = b.primed /\ c.xbar = b.xbar
      /\ c.ys = b.ys /\ c.us = b.us /\ c.valid = b.valid
  BY <1>1 DEF MheFields
<1> HIDE DEF c
<1>3. MheAt(c, k)
  BY <1>2 DEF MheAt
<1> QED
  BY <1>2, <1>3 DEF c

LEMMA PrimedIs ==
    ASSUME NEW b, MheAt(b, 0)
    PROVE  MheAt(Primed(b, 1, 1), 1) /\ Primed(b, 1, 1).valid = b.valid
<1> DEFINE ys == [i \in 0 .. Horizon |-> 1]
           us == [i \in 0 .. Horizon - 1 |-> 1]
           c == Primed(b, 1, 1)
<1>1. DOMAIN b = MheFields /\ b.xbar = <<>>
  BY DEF MheAt
<1>2. Horizon \in Nat /\ Horizon > 0
  BY WindowsAssumption
<1>3. MheWindow(ys, us, <<>>, 1)
  <2>1. <<>> \in Seq(Int \X Int) /\ Len(<<>>) = 1 - 1
    OBVIOUS
  <2>2. \A i \in 0 .. Horizon : ys[i] = MaxOf(1, 1 - Horizon + i)
    BY <1>2 DEF MaxOf
  <2>3. \A i \in 0 .. Horizon - 1 : us[i] = MaxOf(1, 1 - Horizon + 1 + i)
    BY <1>2 DEF MaxOf
  <2>4. \A j \in 1 .. 1 - 1 : <<>>[j] = PairAt(j)
    OBVIOUS
  <2> HIDE DEF ys, us
  <2> QED
    BY <2>1, <2>2, <2>3, <2>4 DEF MheWindow
<1>4. c = [b EXCEPT !.primed = TRUE, !.ys = ys, !.us = us]
  BY Zenon DEF Primed
<1> HIDE DEF ys, us, c
<1>5. [b EXCEPT !.primed = TRUE, !.ys = ys, !.us = us]
         = [[[b EXCEPT !.primed = TRUE] EXCEPT !.ys = ys] EXCEPT !.us = us]
  OBVIOUS
<1> DEFINE b1 == [b EXCEPT !.primed = TRUE]
           b2 == [b1 EXCEPT !.ys = ys]
           b3 == [b2 EXCEPT !.us = us]
<1>6. DOMAIN b1 = MheFields /\ b1.valid = b.valid /\ b1.xbar = b.xbar /\ b1.primed = TRUE
  BY <1>1 DEF MheFields
<1>7. c = b3
  BY <1>4, <1>5
<1> HIDE DEF b1
<1>8. DOMAIN b2 = MheFields /\ b2.valid = b.valid /\ b2.xbar = b.xbar /\ b2.primed = TRUE /\ b2.ys = ys
  BY <1>6 DEF MheFields
<1> HIDE DEF b2
<1>9. /\ DOMAIN b3 = MheFields /\ b3.valid = b.valid /\ b3.xbar = b.xbar /\ b3.primed = TRUE
      /\ b3.ys = ys /\ b3.us = us
  BY <1>8 DEF MheFields
<1> HIDE DEF b3
<1>10. MheAt(b3, 1)
  BY <1>1, <1>3, <1>9 DEF MheAt
<1> QED
  BY <1>7, <1>9, <1>10 DEF c

\* The window slides over one more call: its oldest pair goes to the prior.
LEMMA WindowSlides ==
    ASSUME NEW ys, NEW us, NEW xbar, NEW k \in Nat, k > 0, MheWindow(ys, us, xbar, k)
    PROVE  MheWindow([i \in 0 .. Horizon |-> IF i = Horizon THEN k + 1 ELSE ys[i + 1]],
                     [i \in 0 .. Horizon - 1 |-> IF i = Horizon - 1 THEN k + 1 ELSE us[i + 1]],
                     Append(xbar, <<ys[0], us[0]>>), k + 1)
<1> DEFINE y == [i \in 0 .. Horizon |-> IF i = Horizon THEN k + 1 ELSE ys[i + 1]]
           u == [i \in 0 .. Horizon - 1 |-> IF i = Horizon - 1 THEN k + 1 ELSE us[i + 1]]
           p == <<ys[0], us[0]>>
           T == Int \X Int
           x == Append(xbar, p)
<1>1. Horizon \in Nat /\ Horizon > 0
  BY WindowsAssumption
<1>2. /\ \A i \in 0 .. Horizon : ys[i] = MaxOf(1, k - Horizon + i)
      /\ \A i \in 0 .. Horizon - 1 : us[i] = MaxOf(1, k - Horizon + 1 + i)
  BY DEF MheWindow
<1>3. xbar \in Seq(T) /\ Len(xbar) = k - 1 /\ \A j \in 1 .. k - 1 : xbar[j] = PairAt(j)
  BY DEF MheWindow
<1>4. ASSUME NEW i \in 0 .. Horizon PROVE y[i] = MaxOf(1, (k + 1) - Horizon + i)
  <2>1. CASE i = Horizon
    BY <2>1, <1>1 DEF MaxOf
  <2>2. CASE i # Horizon
    <3>1. i + 1 \in 0 .. Horizon /\ k - Horizon + (i + 1) = (k + 1) - Horizon + i
      BY <2>2, <1>1
    <3>2. y[i] = ys[i + 1]
      BY <2>2
    <3> QED
      BY <3>1, <3>2, <1>2
  <2> QED
    BY <2>1, <2>2
<1>5. ASSUME NEW i \in 0 .. Horizon - 1 PROVE u[i] = MaxOf(1, (k + 1) - Horizon + 1 + i)
  <2>1. CASE i = Horizon - 1
    BY <2>1, <1>1 DEF MaxOf
  <2>2. CASE i # Horizon - 1
    <3>1. i + 1 \in 0 .. Horizon - 1 /\ k - Horizon + 1 + (i + 1) = (k + 1) - Horizon + 1 + i
      BY <2>2, <1>1
    <3>2. u[i] = us[i + 1]
      BY <2>2
    <3> QED
      BY <3>1, <3>2, <1>2
  <2> QED
    BY <2>1, <2>2
<1>6. p = PairAt(k) /\ p \in T
  <2>1. 0 \in 0 .. Horizon /\ 0 \in 0 .. Horizon - 1
    BY <1>1
  <2>2. ys[0] = MaxOf(1, k - Horizon + 0) /\ us[0] = MaxOf(1, k - Horizon + 1 + 0)
    BY <1>2, <2>1
  <2>3. k - Horizon + 0 = k - Horizon /\ k - Horizon + 1 + 0 = k - Horizon + 1
    BY <1>1
  <2>4. MaxOf(1, k - Horizon) \in Int /\ MaxOf(1, k - Horizon + 1) \in Int
    BY <1>1 DEF MaxOf
  <2> QED
    BY <2>2, <2>3, <2>4 DEF PairAt
<1> HIDE DEF p, T
<1>7. x \in Seq(T) /\ Len(x) = k /\ x[k] = p /\ \A j \in 1 .. k - 1 : x[j] = xbar[j]
  BY <1>3, <1>6
<1>8. \A j \in 1 .. k : x[j] = PairAt(j)
  BY <1>3, <1>6, <1>7
<1> HIDE DEF x, y, u
<1>9. (k + 1) - 1 = k
  OBVIOUS
<1>10. MheWindow(y, u, x, k + 1)
  BY <1>4, <1>5, <1>7, <1>8, <1>9 DEF MheWindow, T
<1> QED
  BY <1>10 DEF x, y, u, p

LEMMA SlidIs ==
    ASSUME NEW b, NEW k \in Nat, k > 0, MheAt(b, k)
    PROVE  MheAt(Slid(b, k + 1, k + 1), k + 1) /\ Slid(b, k + 1, k + 1).valid = b.valid
<1> DEFINE ys == [i \in 0 .. Horizon |-> IF i = Horizon THEN k + 1 ELSE b.ys[i + 1]]
           us == [i \in 0 .. Horizon - 1 |-> IF i = Horizon - 1 THEN k + 1 ELSE b.us[i + 1]]
           x == Append(b.xbar, <<b.ys[0], b.us[0]>>)
           c == Slid(b, k + 1, k + 1)
           n == k + 1
<1>1. DOMAIN b = MheFields /\ b.primed /\ MheWindow(b.ys, b.us, b.xbar, k)
  BY DEF MheAt
<1>2. MheWindow(ys, us, x, n)
  BY <1>1, WindowSlides
<1>3. c = [b EXCEPT !.xbar = x, !.ys = ys, !.us = us]
  BY Zenon DEF Slid
<1>4. n # 0 /\ n > 0
  OBVIOUS
<1> HIDE DEF ys, us, x, c, n
<1>5. [b EXCEPT !.xbar = x, !.ys = ys, !.us = us]
         = [[[b EXCEPT !.xbar = x] EXCEPT !.ys = ys] EXCEPT !.us = us]
  OBVIOUS
<1> DEFINE b1 == [b EXCEPT !.xbar = x]
           b2 == [b1 EXCEPT !.ys = ys]
           b3 == [b2 EXCEPT !.us = us]
<1>6. DOMAIN b1 = MheFields /\ b1.valid = b.valid /\ b1.xbar = x /\ b1.primed = b.primed
  BY <1>1 DEF MheFields
<1>7. c = b3
  BY <1>3, <1>5
<1> HIDE DEF b1
<1>8. DOMAIN b2 = MheFields /\ b2.valid = b.valid /\ b2.xbar = x /\ b2.primed = b.primed /\ b2.ys = ys
  BY <1>6 DEF MheFields
<1> HIDE DEF b2
<1>9. /\ DOMAIN b3 = MheFields /\ b3.valid = b.valid /\ b3.xbar = x /\ b3.primed = b.primed
      /\ b3.ys = ys /\ b3.us = us
  BY <1>8 DEF MheFields
<1> HIDE DEF b3
<1>10. MheAt(b3, n)
  BY <1>1, <1>2, <1>4, <1>9 DEF MheAt
<1> QED
  BY <1>7, <1>9, <1>10 DEF c, n

LEMMA MheTicks ==
    ASSUME NEW b, NEW k \in Nat, MheAt(b, k), b.valid, NEW o, o \in MheTick(b, k + 1)
    PROVE  MheAt(o.block, k + 1) /\ o.block.valid = b.valid
<1> DEFINE n == k + 1
           moved == IF b.primed THEN Slid(b, n, n) ELSE Primed(b, n, n)
           Z(status) == CASE status = "Success" -> <<n, FALSE>>
                          [] status = "MaxIterations" -> <<n, TRUE>>
                          [] OTHER -> b.z
<1>1. o \in {[block |-> [moved EXCEPT !.z = Z(status)], out |-> Z(status)[1]] : status \in QPStatus}
  BY Zenon DEF MheTick
<1>2. MheAt(moved, n) /\ moved.valid = b.valid
  <2>1. CASE k = 0
    <3>1. ~b.primed /\ n = 1
      BY <2>1 DEF MheAt
    <3>2. moved = Primed(b, 1, 1)
      BY <3>1
    <3>3. MheAt(b, 0)
      BY <2>1
    <3> QED
      BY <3>1, <3>2, <3>3, PrimedIs
  <2>2. CASE k > 0
    <3>1. b.primed
      BY <2>2 DEF MheAt
    <3>2. moved = Slid(b, k + 1, k + 1)
      BY <3>1
    <3> QED
      BY <2>2, <3>2, SlidIs
  <2>3. k = 0 \/ k > 0
    OBVIOUS
  <2> HIDE DEF moved, n
  <2> QED
    BY <2>1, <2>2, <2>3
<1> HIDE DEF moved, n, Z
<1>3. PICK status \in QPStatus : o = [block |-> [moved EXCEPT !.z = Z(status)], out |-> Z(status)[1]]
  BY <1>1, Zenon
<1>4. o.block = [moved EXCEPT !.z = Z(status)]
  BY <1>3
<1>5. MheAt(o.block, n) /\ o.block.valid = b.valid
  <2>1. MheAt([moved EXCEPT !.z = Z(status)], n) /\ [moved EXCEPT !.z = Z(status)].valid = moved.valid
    BY <1>2, EstimateApart
  <2> QED
    BY <1>2, <1>4, <2>1
<1> QED
  BY <1>5 DEF n

\* An estimator, of any horizon, whatever its solver answers.
MheFollows ==
    block.kind = "mhe" =>
        heard \in Seq(Int) /\ (block.valid => MheAt(block, Len(heard)))

LEMMA MheFirst == PathInit => MheFollows
<1> SUFFICES ASSUME PathInit, block.kind = "mhe" PROVE MheFollows
  BY DEF MheFollows
<1>1. PICK v \in BOOLEAN : block = Mhe(v)
  BY FirstBlock
<1>2. heard = <<>> /\ <<>> \in Seq(Int) /\ Len(<<>>) = 0
  BY DEF PathInit
<1>3. DOMAIN block = MheFields /\ block.primed = FALSE /\ block.xbar = <<>>
  BY <1>1 DEF Mhe, MheFields
<1>4. MheAt(block, 0)
  BY <1>3 DEF MheAt
<1> QED
  BY <1>2, <1>4 DEF MheFollows

LEMMA MheStep == HasKind /\ MheFollows /\ [PathNext]_path => MheFollows'
<1> SUFFICES ASSUME HasKind, MheFollows, [PathNext]_path, block'.kind = "mhe"
             PROVE  MheFollows'
  BY DEF MheFollows
<1>1. block.kind = "mhe"
  BY KindStays
<1>2. heard \in Seq(Int) /\ (block.valid => MheAt(block, Len(heard)))
  BY <1>1 DEF MheFollows
<1>3. CASE TickMhe
  <2>1. PICK k \in Nat : k = Len(heard)
    BY <1>2
  <2>2. PICK o \in MheTick(block, k + 1) : block' = o.block
    BY <1>3, <2>1 DEF TickMhe, Hear
  <2>3. heard' = Append(heard, k + 1)
    BY <1>3, <2>1 DEF TickMhe, Hear
  <2>4. heard' \in Seq(Int) /\ Len(heard') = k + 1
    BY <1>2, <2>1, <2>3
  <2>5. CASE block.valid
    <3>1. MheAt(block, k)
      BY <1>2, <2>1, <2>5
    <3>2. MheAt(o.block, k + 1)
      BY <2>2, <2>5, <3>1, MheTicks
    <3> QED
      BY <2>2, <2>4, <3>2 DEF MheFollows
  <2>6. CASE ~block.valid
    <3>1. block' = block
      BY <2>2, <2>6 DEF MheTick
    <3> QED
      BY <2>4, <2>6, <3>1 DEF MheFollows
  <2> QED
    BY <2>5, <2>6
<1>4. CASE PathReset
  <2> DEFINE b == Mhe(block.valid)
             b1 == [b EXCEPT !.ys = block.ys]
             b2 == [b1 EXCEPT !.us = block.us]
  <2>1. block' = [b EXCEPT !.ys = block.ys, !.us = block.us] /\ heard' = <<>>
    BY <1>1, <1>4 DEF PathReset, Fresh, MheReset
  <2>2. [b EXCEPT !.ys = block.ys, !.us = block.us] = [[b EXCEPT !.ys = block.ys] EXCEPT !.us = block.us]
    OBVIOUS
  <2>3. DOMAIN b = MheFields /\ b.primed = FALSE /\ b.xbar = <<>>
    BY DEF Mhe, MheFields
  <2> HIDE DEF b
  <2>4. DOMAIN b1 = MheFields /\ b1.primed = FALSE /\ b1.xbar = <<>>
    BY <2>3 DEF MheFields
  <2>5. block' = b2
    BY <2>1, <2>2
  <2> HIDE DEF b1
  <2>6. DOMAIN b2 = MheFields /\ b2.primed = FALSE /\ b2.xbar = <<>>
    BY <2>4 DEF MheFields
  <2> HIDE DEF b2
  <2>7. MheAt(block', 0)
    BY <2>5, <2>6 DEF MheAt
  <2>8. <<>> \in Seq(Int) /\ Len(<<>>) = 0
    OBVIOUS
  <2> QED
    BY <2>1, <2>7, <2>8 DEF MheFollows
<1>5. CASE UNCHANGED path
  BY <1>2, <1>5 DEF path, MheFollows
<1> QED
  BY <1>1, <1>3, <1>4, <1>5 DEF PathNext, Tick, TickMonitor, TickSlew, TickPair

\* One pair of the tiling, from its two halves.
LEMMA PairIs ==
    ASSUME NEW j, NEW a, NEW b, a = MaxOf(1, j - Horizon), b = MaxOf(1, j - Horizon + 1)
    PROVE  <<a, b>> = PairAt(j)
BY DEF PairAt

\* Prior and window, side by side, are the whole history.
LEMMA WindowTiles ==
    ASSUME NEW ys, NEW us, NEW xbar, NEW k \in Nat, k > 0, MheWindow(ys, us, xbar, k)
    PROVE  xbar \o [i \in 1 .. Horizon |-> <<ys[i - 1], us[i - 1]>>] = Joined(k)
<1> DEFINE T == Int \X Int
           w == [i \in 1 .. Horizon |-> <<ys[i - 1], us[i - 1]>>]
           n == k - 1
           c == xbar \o w
<1>1. Horizon \in Nat /\ Horizon > 0 /\ n \in Nat
  BY WindowsAssumption
<1>2. xbar \in Seq(T) /\ Len(xbar) = n /\ \A j \in 1 .. n : xbar[j] = PairAt(j)
  BY DEF MheWindow
<1>3. ASSUME NEW i \in 1 .. Horizon PROVE w[i] = PairAt(n + i) /\ w[i] \in T
  <2>1. i - 1 \in 0 .. Horizon /\ i - 1 \in 0 .. Horizon - 1
    BY <1>1
  <2>2. ys[i - 1] = MaxOf(1, k - Horizon + (i - 1)) /\ us[i - 1] = MaxOf(1, k - Horizon + 1 + (i - 1))
    BY <2>1 DEF MheWindow
  <2>3. PICK j \in Int : j = n + i
    BY <1>1
  <2>4. k - Horizon + (i - 1) = j - Horizon /\ k - Horizon + 1 + (i - 1) = j - Horizon + 1
    BY <1>1, <2>3
  <2>5. ys[i - 1] = MaxOf(1, j - Horizon) /\ us[i - 1] = MaxOf(1, j - Horizon + 1)
    BY <2>2, <2>4
  <2>6. <<ys[i - 1], us[i - 1]>> = PairAt(j)
    BY <2>5, PairIs
  <2>7. w[i] = <<ys[i - 1], us[i - 1]>>
    OBVIOUS
  <2>8. ys[i - 1] \in Int /\ us[i - 1] \in Int
    BY <1>1, <2>3, <2>5 DEF MaxOf
  <2>9. w[i] \in T
    BY <2>7, <2>8
  <2> HIDE DEF w
  <2> QED
    BY <2>3, <2>6, <2>7, <2>9
<1>4. w \in [1 .. Horizon -> T]
  <2>1. w = [i \in 1 .. Horizon |-> w[i]]
    OBVIOUS
  <2> HIDE DEF w, T
  <2> QED
    BY <1>3, <2>1
<1> HIDE DEF T, w, n
<1>5. w \in Seq(T) /\ Len(w) = Horizon
  BY <1>1, <1>4
<1>6. /\ c \in Seq(T) /\ Len(c) = n + Horizon
      /\ \A j \in 1 .. n : c[j] = xbar[j]
      /\ \A j \in n + 1 .. n + Horizon : c[j] = w[j - n]
  BY <1>1, <1>2, <1>5
<1> HIDE DEF c
<1>7. \A j \in 1 .. n + Horizon : c[j] = PairAt(j)
  <2> SUFFICES ASSUME NEW j \in 1 .. n + Horizon PROVE c[j] = PairAt(j)
    OBVIOUS
  <2>1. CASE j <= n
    BY <2>1, <1>1, <1>2, <1>6
  <2>2. CASE j > n
    <3>1. j - n \in 1 .. Horizon /\ n + (j - n) = j /\ j \in n + 1 .. n + Horizon
      BY <2>2, <1>1
    <3> QED
      BY <3>1, <1>3, <1>6
  <2> QED
    BY <2>1, <2>2, <1>1
<1>8. Joined(k) = [j \in 1 .. n + Horizon |-> PairAt(j)]
  BY DEF Joined, PairAt, n
<1>9. c = [j \in 1 .. n + Horizon |-> c[j]]
  <2>1. n + Horizon \in Nat
    BY <1>1
  <2> DEFINE m == n + Horizon
  <2> HIDE DEF m
  <2>2. Len(c) = m
    BY <1>6 DEF m
  <2>3. c = [j \in 1 .. Len(c) |-> c[j]]
    BY <1>6
  <2> QED
    BY <2>2, <2>3 DEF m
<1> QED
  BY <1>7, <1>8, <1>9 DEF c, w

\* Prediction is exact: whatever the model's gain, a Smith predictor of any delay its
\* ring can hold adds the difference of the delay-free model and the one d samples
\* ago; and a moving-horizon estimator of any horizon carries each measurement into
\* its prior once, with the input that followed it, whatever its solver answers.
THEOREM PredictionIsExact == PathSpec => []PredictorsExact
<1> DEFINE I == HasKind /\ SmithFollows /\ MheFollows
<1>1. PathInit => I
  BY FirstBlock, SmithFirst, MheFirst
<1>2. I /\ [PathNext]_path => I'
  BY KindStays, SmithStep, MheStep
<1>3. I => PredictorsExact
  <2> SUFFICES ASSUME SmithFollows, MheFollows, heard # <<>>
               PROVE  /\ block.kind = "smith" /\ block.valid =>
                           out = DelayFree[Len(heard) - 1] - DelayFree[MaxOf(0, Len(heard) - 1 - block.d)]
                      /\ block.kind = "mhe" /\ block.valid =>
                           block.xbar \o [i \in 1 .. Horizon |-> <<block.ys[i - 1], block.us[i - 1]>>]
                              = Joined(Len(heard))
    BY DEF PredictorsExact
  <2>1. ASSUME block.kind = "smith", block.valid
        PROVE  out = DelayFree[Len(heard) - 1] - DelayFree[MaxOf(0, Len(heard) - 1 - block.d)]
    <3> DEFINE k == Len(heard) - 1
    <3>1. /\ block \in SmithBlocks /\ heard \in Seq(Int)
          /\ out = Free(PastOf(heard))[k] - Free(PastOf(heard))[k - block.d]
      BY <2>1 DEF SmithFollows
    <3>2. k \in Nat /\ block.d \in Int
      BY <3>1 DEF SmithBlocks
    <3> HIDE DEF k
    <3>3. k \in Int /\ k - block.d \in Int /\ MaxOf(0, k) = k
      BY <3>2 DEF MaxOf
    <3>4. Free(PastOf(heard))[k] = DelayFree[k]
      BY <3>3, DelayFreeIs
    <3>5. Free(PastOf(heard))[k - block.d] = DelayFree[MaxOf(0, k - block.d)]
      BY <3>3, DelayFreeIs
    <3> QED
      BY <3>1, <3>3, <3>4, <3>5 DEF k
  <2>2. ASSUME block.kind = "mhe", block.valid
        PROVE  block.xbar \o [i \in 1 .. Horizon |-> <<block.ys[i - 1], block.us[i - 1]>>]
                  = Joined(Len(heard))
    <3>1. heard \in Seq(Int) /\ MheAt(block, Len(heard))
      BY <2>2 DEF MheFollows
    <3>2. Len(heard) \in Nat /\ Len(heard) > 0
      BY <3>1
    <3>3. MheWindow(block.ys, block.us, block.xbar, Len(heard))
      BY <3>1, <3>2 DEF MheAt
    <3> QED
      BY <3>2, <3>3, WindowTiles
  <2> QED
    BY <2>1, <2>2
<1> QED
  BY <1>1, <1>2, <1>3, PTL DEF PathSpec

-----------------------------------------------------------------------------
(***************************************************************************)
(* The delay.                                                              *)
(***************************************************************************)

DelayBlocks == [kind : {"delay"}, d : 0 .. Capacity - 1, buffer : [0 .. Capacity - 1 -> Int],
                idx : 0 .. Capacity - 1]

\* A delay's ring holds its last Capacity samples, and out the one d before the last.
DelayAt(b, y, k, f) ==
    /\ b \in DelayBlocks
    /\ b.idx = k % Capacity
    /\ RingHolds(b.buffer, Capacity, k, f)
    /\ k > 0 => y = f[k - b.d]

LEMMA DelayFresh ==
    ASSUME NEW d \in 0 .. Capacity + 1, NEW y
    PROVE  DelayAt(Delay(d), y, 0, PastOf(<<>>))
<1> DEFINE b == Delay(d)
           f == PastOf(<<>>)
           e == IF d > Capacity - 1 THEN Capacity - 1 ELSE d
<1>1. Capacity \in Nat \ {0} /\ Capacity \in Nat /\ Capacity <= Capacity /\ e \in 0 .. Capacity - 1
  BY WindowsAssumption
<1>2. b = [kind |-> "delay", d |-> e, buffer |-> Zeros(Capacity), idx |-> 0]
  BY DEF Delay
<1> HIDE DEF e, f, b
<1>3. RingHolds(Zeros(Capacity), Capacity, 0, f) /\ Zeros(Capacity) \in [0 .. Capacity - 1 -> Int]
  BY <1>1, EmptyRing DEF f
<1>4. 0 % Capacity = 0 /\ 0 \in 0 .. Capacity - 1
  BY <1>1
<1>5. b \in DelayBlocks
  BY <1>1, <1>2, <1>3, <1>4 DEF DelayBlocks
<1>6. b.idx = 0 /\ b.buffer = Zeros(Capacity)
  BY <1>2
<1> QED
  BY <1>3, <1>4, <1>5, <1>6 DEF DelayAt, b, f

\* A ring of the block goes on with the signal it holds, and so does the place it stands at.
LEMMA RingGoesOn ==
    ASSUME NEW P, P \in Nat, P > 0, P <= Capacity, NEW k, NEW f, NEW g, NEW u, GoesOn(f, g, k, u),
           NEW ring, ring \in [0 .. Capacity - 1 -> Int], RingHolds(ring, P, k, f), NEW i, i = k % P
    PROVE  /\ [ring EXCEPT ![i] = u] \in [0 .. Capacity - 1 -> Int]
           /\ RingHolds([ring EXCEPT ![i] = u], P, k + 1, g)
           /\ (i + 1) % P = (k + 1) % P
           /\ (i + 1) % P \in 0 .. P - 1
<1> DEFINE new == [ring EXCEPT ![i] = u]
<1>1. /\ k \in Nat /\ k \in Int /\ 1 \in Int /\ u \in Int /\ Capacity \in Nat /\ P \in Nat \ {0}
      /\ g[k + 1] = u /\ \A j \in Int : j <= k => g[j] = f[j]
  BY WindowsAssumption DEF GoesOn
<1>2. ((k % P) + 1) % P = (k + 1) % P
  BY <1>1, SlotOf
<1>3. Writes(ring, Capacity, P, k, f, g, u, new)
  BY <1>1 DEF Writes
<1> HIDE DEF new
<1>4. new \in [0 .. Capacity - 1 -> Int] /\ RingHolds(new, P, k + 1, g)
  BY <1>3, RingTurns
<1>5. (k + 1) % P \in 0 .. P - 1
  <2> DEFINE j == k + 1
  <2>1. j \in Int
    BY <1>1
  <2> HIDE DEF j
  <2>2. j % P \in Int /\ 0 <= j % P /\ j % P < P
    BY <2>1, Remainder
  <2> QED
    BY <2>2 DEF j
<1> QED
  BY <1>2, <1>4, <1>5 DEF new

\* A ring is read d places before the one it wrote last.
Reads(ring, P, k, f, d, i) ==
    /\ P \in Nat /\ P > 0 /\ k \in Int /\ RingHolds(ring, P, k, f)
    /\ d \in Int /\ 0 <= d /\ d < P /\ i = (k - 1) % P

Answers(ring, P, k, f, d, i) == ring[(i + (P - d)) % P] = f[k - d]

LEMMA RingAnswers ==
    ASSUME NEW ring, NEW P, NEW k, NEW f, NEW d, NEW i, Reads(ring, P, k, f, d, i)
    PROVE  Answers(ring, P, k, f, d, i)
<1> DEFINE j == k - d
           m == k - 1
           e == P - d
<1>0. /\ P \in Nat /\ P > 0 /\ k \in Int /\ RingHolds(ring, P, k, f)
      /\ d \in Int /\ 0 <= d /\ d < P
  BY DEF Reads
<1>1. j \in k - P + 1 .. k /\ j - 1 \in Int /\ m \in Int /\ e \in Int /\ m + e = (j - 1) + P /\ P \in Nat \ {0}
  BY <1>0
<1>2. i = m % P
  BY DEF Reads
<1> HIDE DEF j, m, e
<1>3. (i + e) % P = (m + e) % P
  <2>1. ((m % P) + e) % P = (m + e) % P
    BY <1>1, SlotOf
  <2> QED
    BY <1>2, <2>1
<1>4. ((j - 1) + P) % P = (j - 1) % P
  BY <1>1, SlotOf
<1>5. ring[(j - 1) % P] = f[j]
  BY <1>0, <1>1 DEF RingHolds
<1> QED
  BY <1>1, <1>3, <1>4, <1>5 DEF j, e, Answers

LEMMA DelayTicks ==
    ASSUME NEW b, NEW y, NEW k, NEW f, DelayAt(b, y, k, f),
           NEW g, NEW u, GoesOn(f, g, k, u), NEW o, o \in DelayTick(b, u)
    PROVE  DelayAt(o.block, o.out, k + 1, g)
<1> DEFINE C    == Capacity
           old  == b.buffer
           ring == [old EXCEPT ![b.idx] = u]
           i    == (b.idx + 1) % C
           at   == (b.idx + C - b.d) % C
           d    == b.d
<1>1. /\ C \in Nat /\ C > 0 /\ C <= C /\ b \in DelayBlocks /\ b.idx \in Int /\ b.idx = k % C
      /\ RingHolds(old, C, k, f) /\ k \in Nat /\ old \in [0 .. C - 1 -> Int]
      /\ d \in Int /\ 0 <= d /\ d < C
  BY WindowsAssumption DEF DelayAt, GoesOn, DelayBlocks
<1>2. o.block = [b EXCEPT !.buffer = ring, !.idx = i] /\ o.out = ring[at]
  <2>1. DelayTick(b, u) = {[block |-> [b EXCEPT !.buffer = ring, !.idx = i], out |-> ring[at]]}
    BY DEF DelayTick
  <2> HIDE DEF ring, i, at
  <2> QED
    BY <2>1
<1>3. /\ ring \in [0 .. C - 1 -> Int] /\ RingHolds(ring, C, k + 1, g)
      /\ i = (k + 1) % C /\ i \in 0 .. C - 1
  <2> HIDE DEF old, d
  <2> QED
    BY <1>1, RingGoesOn
<1>4. ring[at] = g[(k + 1) - d]
  <2> DEFINE x == b.idx
             n == k + 1
  <2>1. x \in Int /\ x = k % C /\ at = (x + C - d) % C
    BY <1>1
  <2> HIDE DEF ring, at, x, d, C, old, i
  <2>2. n \in Int /\ n - 1 = k /\ n - d = (k + 1) - d
    BY <1>1
  <2>3. x + C - d = x + (C - d)
    BY <1>1, <2>1
  <2>4. RingHolds(ring, C, n, g)
    BY <1>3
  <2> HIDE DEF n
  <2>5. x = (n - 1) % C
    BY <2>1, <2>2
  <2>6. Reads(ring, C, n, g, d, x)
    BY <1>1, <2>2, <2>4, <2>5 DEF Reads
  <2>7. ring[(x + (C - d)) % C] = g[n - d]
    BY <2>6, RingAnswers DEF Answers
  <2> QED
    BY <2>1, <2>2, <2>3, <2>7
<1> HIDE DEF ring, i, at
<1>5. /\ o.block \in DelayBlocks /\ o.block.d = d /\ o.block.buffer = ring /\ o.block.idx = i
  <2> DEFINE b1 == [b EXCEPT !.buffer = ring]
             b2 == [b1 EXCEPT !.idx = i]
  <2>1. o.block = b2
    BY <1>2
  <2> HIDE DEF old
  <2>2. b1 \in DelayBlocks /\ b1.d = d /\ b1.buffer = ring
    BY <1>1, <1>3 DEF DelayBlocks
  <2> HIDE DEF b1
  <2>3. b2 \in DelayBlocks /\ b2.d = d /\ b2.buffer = ring /\ b2.idx = i
    BY <1>3, <2>2 DEF DelayBlocks
  <2> HIDE DEF b2
  <2> QED
    BY <2>1, <2>3
<1> DEFINE c == o.block
           y2 == o.out
<1>6. c \in DelayBlocks /\ c.idx = (k + 1) % C /\ RingHolds(c.buffer, C, k + 1, g) /\ y2 = g[(k + 1) - c.d]
  BY <1>2, <1>3, <1>4, <1>5
<1> HIDE DEF c, y2, d
<1>7. DelayAt(c, y2, k + 1, g)
  BY <1>6 DEF DelayAt
<1> QED
  BY <1>7 DEF c, y2

\* A delay of any length its ring can hold.
DelayFollows ==
    block.kind = "delay" => heard \in Seq(Int) /\ DelayAt(block, out, Len(heard), PastOf(heard))

LEMMA DelayFirst == PathInit => DelayFollows
<1> SUFFICES ASSUME PathInit, block.kind = "delay" PROVE DelayFollows
  BY DEF DelayFollows
<1>1. PICK d \in 0 .. Capacity + 1 : block = Delay(d)
  BY FirstBlock
<1>2. heard = <<>> /\ <<>> \in Seq(Int) /\ Len(<<>>) = 0
  BY DEF PathInit
<1> QED
  BY <1>1, <1>2, DelayFresh DEF DelayFollows

LEMMA DelayStep == HasKind /\ DelayFollows /\ [PathNext]_path => DelayFollows'
<1> SUFFICES ASSUME HasKind, DelayFollows, [PathNext]_path, block'.kind = "delay"
             PROVE  DelayFollows'
  BY DEF DelayFollows
<1>1. block.kind = "delay"
  BY KindStays
<1>2. heard \in Seq(Int) /\ DelayAt(block, out, Len(heard), PastOf(heard))
  BY <1>1 DEF DelayFollows
<1>3. CASE Tick
  <2>1. PICK u \in Samples : Hear(DelayTick(block, u), u)
    BY <1>1, <1>3 DEF Tick, TickOf
  <2>2. PICK o \in DelayTick(block, u) : block' = o.block /\ out' = o.out
    BY <2>1 DEF Hear
  <2>3. heard' = Append(heard, u) /\ u \in Int
    BY <2>1, SignalPathAssumption DEF Hear
  <2>4. PICK k \in Nat : k = Len(heard)
    BY <1>2
  <2>5. PICK f, g : f = PastOf(heard) /\ g = PastOf(heard')
    OBVIOUS
  <2>6. heard' \in Seq(Int) /\ Len(heard') = k + 1 /\ GoesOn(f, g, k, u)
    BY <1>2, <2>3, <2>4, <2>5, SignalGrows
  <2>7. DelayAt(o.block, o.out, k + 1, g)
    BY <1>2, <2>2, <2>4, <2>5, <2>6, DelayTicks
  <2> QED
    BY <2>2, <2>5, <2>6, <2>7 DEF DelayFollows
<1>4. CASE PathReset
  <2>1. heard' = <<>> /\ <<>> \in Seq(Int) /\ Len(<<>>) = 0
    BY <1>4 DEF PathReset
  <2>2. PICK d \in 0 .. Capacity + 1 : block' = Delay(d)
    BY <1>1, <1>4 DEF PathReset, Fresh
  <2> QED
    BY <2>1, <2>2, DelayFresh DEF DelayFollows
<1>5. CASE UNCHANGED path
  BY <1>5 DEF path, DelayFollows
<1> QED
  BY <1>1, <1>3, <1>4, <1>5 DEF PathNext, TickMonitor, TickMhe, TickSlew, TickPair

LEMMA FollowingIsDelayed == DelayFollows /\ heard # <<>> => DelayExact
<1> SUFFICES ASSUME DelayFollows, heard # <<>>, block.kind = "delay"
             PROVE  out = Past(Len(heard) - block.d)
  BY DEF DelayExact
<1>1. heard \in Seq(Int) /\ DelayAt(block, out, Len(heard), PastOf(heard))
  BY DEF DelayFollows
<1>2. Len(heard) \in Nat /\ Len(heard) > 0 /\ block.d \in Int
  BY <1>1 DEF DelayAt, DelayBlocks
<1>3. out = PastOf(heard)[Len(heard) - block.d]
  BY <1>1, <1>2 DEF DelayAt
<1>4. Len(heard) - block.d \in Int
  BY <1>2
<1> QED
  BY <1>3, <1>4 DEF PastOf, Past

-----------------------------------------------------------------------------
(***************************************************************************)
(* The moving average.                                                     *)
(***************************************************************************)

\* The n values of a signal after the c-th.
Stretch(f, c, n) == [i \in 1 .. n |-> f[c + i]]

StretchGrows(f, c, n) ==
    /\ Stretch(f, c, n) \in Seq(Int) /\ Len(Stretch(f, c, n)) = n
    /\ SeqSum(Stretch(f, c, n)) \in Int
    /\ SeqSum(Stretch(f, c, n + 1)) = SeqSum(Stretch(f, c, n)) + f[c + (n + 1)]

LEMMA StretchIs ==
    ASSUME NEW f, f \in [Int -> Int], NEW c, c \in Int, NEW n, n \in Nat
    PROVE  StretchGrows(f, c, n)
<1>1. ASSUME NEW m, m \in Nat
      PROVE  Stretch(f, c, m) \in Seq(Int) /\ Len(Stretch(f, c, m)) = m
  <2>1. \A i \in 1 .. m : c + i \in Int /\ f[c + i] \in Int
    BY <1>1
  <2>2. Stretch(f, c, m) \in [1 .. m -> Int]
    BY <2>1 DEF Stretch
  <2> QED
    BY <1>1, <2>2
<1> DEFINE q == Stretch(f, c, n)
           r == Stretch(f, c, n + 1)
<1>2. q \in Seq(Int) /\ Len(q) = n /\ r \in Seq(Int) /\ Len(r) = n + 1
  <2>1. n + 1 \in Nat
    OBVIOUS
  <2> QED
    BY <1>1, <2>1
<1>3. (\A i \in 1 .. n : r[i] = q[i]) /\ r[n + 1] = f[c + (n + 1)]
  BY DEF Stretch
<1> HIDE DEF q, r
<1>4. SeqSum(r) = SeqSum(q) + r[Len(r)]
  BY <1>2, <1>3, SeqSumGrows
<1>5. SeqSum(q) \in Int
  BY <1>2, SeqSumType
<1> QED
  BY <1>2, <1>3, <1>4, <1>5 DEF q, r, StretchGrows

\* A window that moves on by one gains a value and loses one.
Slides(f, c, n) ==
    SeqSum(Stretch(f, c + 1, n)) + f[c + 1] = SeqSum(Stretch(f, c, n)) + f[c + (n + 1)]

LEMMA StretchSlides ==
    ASSUME NEW f, f \in [Int -> Int], NEW c, c \in Int, NEW n, n \in Nat
    PROVE  Slides(f, c, n)
<1> DEFINE d == c + 1
           A(m) == SeqSum(Stretch(f, c, m))
           B(m) == SeqSum(Stretch(f, d, m))
           T == {m \in Nat : B(m) + f[c + 1] = A(m) + f[c + (m + 1)]}
<1>1. d \in Int /\ f[c + 1] \in Int
  OBVIOUS
<1>2. \A m \in Nat : /\ A(m) \in Int /\ B(m) \in Int
                     /\ A(m + 1) = A(m) + f[c + (m + 1)] /\ B(m + 1) = B(m) + f[d + (m + 1)]
  <2> SUFFICES ASSUME NEW m, m \in Nat
               PROVE  /\ A(m) \in Int /\ B(m) \in Int
                      /\ A(m + 1) = A(m) + f[c + (m + 1)] /\ B(m + 1) = B(m) + f[d + (m + 1)]
    OBVIOUS
  <2>1. ASSUME NEW e, e \in Int
        PROVE  /\ SeqSum(Stretch(f, e, m)) \in Int
               /\ SeqSum(Stretch(f, e, m + 1)) = SeqSum(Stretch(f, e, m)) + f[e + (m + 1)]
    <3>1. StretchGrows(f, e, m)
      BY <2>1, StretchIs
    <3> QED
      BY <3>1 DEF StretchGrows
  <2> HIDE DEF d
  <2> QED
    BY <1>1, <2>1
<1>3. \A m \in Nat : f[c + (m + 1)] \in Int /\ d + (m + 1) = c + ((m + 1) + 1) /\ f[d + (m + 1)] \in Int
  OBVIOUS
<1>4. 0 \in T
  <2>1. A(0) = 0 /\ B(0) = 0
    <3>1. 0 \in Nat
      OBVIOUS
    <3>2. ASSUME NEW e, e \in Int PROVE SeqSum(Stretch(f, e, 0)) = 0
      <4>1. Stretch(f, e, 0) \in Seq(Int) /\ Len(Stretch(f, e, 0)) = 0
        BY <3>1, <3>2, StretchIs DEF StretchGrows
      <4> QED
        BY <4>1, SeqSumType
    <3> HIDE DEF d
    <3> QED
      BY <1>1, <3>2
  <2>2. c + (0 + 1) = c + 1
    OBVIOUS
  <2> HIDE DEF A, B
  <2> QED
    BY <2>1, <2>2
<1> HIDE DEF A, B, d
<1>5. ASSUME NEW m \in T PROVE m + 1 \in T
  <2>1. m \in Nat /\ B(m) + f[c + 1] = A(m) + f[c + (m + 1)]
    OBVIOUS
  <2>2. B(m + 1) = B(m) + f[c + ((m + 1) + 1)] /\ A(m + 1) = A(m) + f[c + (m + 1)]
    BY <1>2, <1>3, <2>1
  <2>3. f[c + ((m + 1) + 1)] \in Int /\ f[c + (m + 1)] \in Int /\ A(m) \in Int /\ B(m) \in Int
    BY <1>2, <1>3, <2>1
  <2>4. B(m + 1) + f[c + 1] = A(m + 1) + f[c + ((m + 1) + 1)]
    BY <1>1, <2>1, <2>2, <2>3
  <2> QED
    BY <2>1, <2>4
<1>6. n \in T
  <2>1. T \in SUBSET Nat
    OBVIOUS
  <2> HIDE DEF T
  <2> QED
    BY <1>4, <1>5, <2>1, Inductive
<1> QED
  BY <1>6 DEF A, B, d, Slides

AverageBlocks ==
    [kind : {"average"}, n : 1 .. Capacity, buffer : [0 .. Capacity - 1 -> Int], sum : Int, idx : Int]

\* The sum of the last n values of a signal.
Rolling(f, k, n) == SeqSum(Stretch(f, k - n, n))

\* An average's ring holds its last n samples, and its sum is theirs, but for the
\* roundings since the ring last turned.
AverageAt(b, k, f) ==
    /\ b.idx = k % b.n
    /\ RingHolds(b.buffer, b.n, k, f)
    /\ Distance(b.sum, Rolling(f, k, b.n)) <= b.idx * Ulp

\* What an average that has heard k samples answers to the next.
AverageAnswers(o, k, g) == o.block \in AverageBlocks /\ AverageAt(o.block, k + 1, g) /\ o.out = o.block.sum

LEMMA AverageFresh ==
    ASSUME NEW w, w \in 0 .. Capacity + 1
    PROVE  Average(w) \in AverageBlocks /\ AverageAt(Average(w), 0, PastOf(<<>>))
<1> DEFINE b == Average(w)
           f == PastOf(<<>>)
           n == Window(w)
           C == Capacity
<1>1. n \in Nat \ {0} /\ n \in Nat /\ n > 0 /\ n \in 1 .. C /\ C \in Nat /\ n <= C
  BY WindowsAssumption DEF Window
<1>2. b = [kind |-> "average", n |-> n, buffer |-> Zeros(C), sum |-> 0, idx |-> 0]
  BY DEF Average
<1> HIDE DEF b, n, f
<1>3. RingHolds(Zeros(C), n, 0, f) /\ Zeros(C) \in [0 .. C - 1 -> Int]
  <2> HIDE DEF C
  <2> QED
    BY <1>1, EmptyRing DEF f
<1>4. b \in AverageBlocks /\ b.idx = 0 /\ b.n = n /\ b.buffer = Zeros(C) /\ b.sum = 0
  BY <1>1, <1>2, <1>3 DEF AverageBlocks
<1>5. 0 % n = 0 /\ 0 * Ulp = 0
  BY <1>1, WindowsAssumption
<1>6. Rolling(f, 0, n) = 0
  <2> DEFINE c == 0 - n
  <2>0. <<>> \in Seq(Int)
    OBVIOUS
  <2>a. f \in Signals
    BY <2>0, PastIsSignal DEF f
  <2>b. c \in Int /\ c + 1 \in Int
    BY <1>1
  <2>1. c \in Int /\ f \in [Int -> Int]
    BY <2>a, <2>b DEF Signals
  <2>2. \A i \in Int : f[i] = 0
    BY DEF f, PastOf
  <2> DEFINE T == {m \in Nat : SeqSum(Stretch(f, c, m)) = 0}
  <2>3. 0 \in T
    <3> HIDE DEF c
    <3>1. StretchGrows(f, c, 0)
      BY <2>1, StretchIs
    <3>2. Stretch(f, c, 0) \in Seq(Int) /\ Len(Stretch(f, c, 0)) = 0
      BY <3>1 DEF StretchGrows
    <3> QED
      BY <3>2, SeqSumType
  <2> HIDE DEF c
  <2>4. ASSUME NEW m \in T PROVE m + 1 \in T
    <3>1. m \in Nat /\ c + (m + 1) \in Int /\ SeqSum(Stretch(f, c, m)) = 0
      BY <2>1
    <3>2. StretchGrows(f, c, m)
      BY <2>1, <3>1, StretchIs
    <3>3. SeqSum(Stretch(f, c, m + 1)) = 0 + 0
      BY <2>2, <3>1, <3>2 DEF StretchGrows
    <3> QED
      BY <3>1, <3>3
  <2>5. n \in T
    <3>1. T \in SUBSET Nat
      OBVIOUS
    <3> HIDE DEF T
    <3> QED
      BY <1>1, <2>3, <2>4, <3>1, Inductive
  <2> QED
    BY <2>5 DEF Rolling, c
<1>7. Distance(0, 0) <= 0
  BY DEF Distance
<1> QED
  BY <1>3, <1>4, <1>5, <1>6, <1>7 DEF AverageAt, b, f

\* Where a ring of n slots turns, its slots are the last n values in their order.
LEMMA RingAtTurn ==
    ASSUME NEW ring, NEW n, n \in Nat, n > 0, NEW k, k \in Nat, k % n = 0,
           NEW g, RingHolds(ring, n, k, g)
    PROVE  [j \in 1 .. n |-> ring[j - 1]] = Stretch(g, k - n, n)
<1>1. ASSUME NEW j, j \in 1 .. n PROVE ring[j - 1] = g[(k - n) + j]
  <2> DEFINE m == (k - n) + j
             e == j - 1
             p == m - 1
  <2>1. /\ m \in k - n + 1 .. k /\ p \in Int /\ e \in Int /\ k \in Int /\ p + n = k + e
        /\ n \in Nat \ {0} /\ 0 + e = e /\ e \in 0 .. n - 1 /\ n * 0 + e = e
    BY <1>1
  <2>2. ring[p % n] = g[m]
    <3> HIDE DEF m
    <3> QED
      BY <2>1 DEF RingHolds
  <2> HIDE DEF m, e, p
  <2>3. (p + n) % n = p % n /\ ((k % n) + e) % n = (k + e) % n
    <3>1. (p + n) % n = p % n
      BY <2>1, SlotOf
    <3>2. ((k % n) + e) % n = (k + e) % n
      BY <2>1, SlotOf
    <3> QED
      BY <3>1, <3>2
  <2>4. e % n = e
    BY <2>1
  <2>5. p % n = e
    BY <2>1, <2>3, <2>4
  <2> QED
    BY <2>2, <2>5 DEF m, e
<1> QED
  BY <1>1 DEF Stretch

\* The place after x, in a ring of n slots.
LEMMA PlaceAfter ==
    ASSUME NEW n, n \in Nat, n > 0, NEW x, x \in 0 .. n - 1
    PROVE  (x + 1) % n = IF x + 1 < n THEN x + 1 ELSE 0
<1>1. CASE x + 1 < n
  <2>1. n * 0 + (x + 1) = x + 1 /\ x + 1 \in 0 .. n - 1
    BY <1>1
  <2> DEFINE y == x + 1
  <2>2. y \in 0 .. n - 1 /\ n * 0 + y = y
    BY <2>1
  <2> HIDE DEF y
  <2>3. y % n = y
    BY <2>2
  <2> QED
    BY <1>1, <2>3 DEF y
<1>2. CASE x + 1 = n
  <2>1. n % n = 0
    OBVIOUS
  <2> QED
    BY <1>2, <2>1
<1> QED
  BY <1>1, <1>2

\* A sum that takes one value for another and rounds is off by the rounding more.
LEMMA RoundingAdds ==
    ASSUME NEW v \in Int, NEW was \in Int, NEW r \in Int, NEW now \in Int, NEW z \in Int, NEW u \in Int,
           NEW e \in Int, -Ulp <= e, e <= Ulp, Distance(v, was) <= r, now + z = was + u,
           NEW s, s = v + u - z + e
    PROVE  Distance(s, now) <= r + Ulp
BY WindowsAssumption DEF Distance

LEMMA AverageTicks ==
    ASSUME NEW b, b \in AverageBlocks, NEW k, NEW f, AverageAt(b, k, f),
           NEW g, NEW u, GoesOn(f, g, k, u), NEW o, o \in AverageTick(b, u)
    PROVE  AverageAnswers(o, k, g)
<1> DEFINE n    == b.n
           C    == Capacity
           old  == b.buffer
           x    == b.idx
           ring == [old EXCEPT ![x] = u]
           i    == (x + 1) % n
           fresh == SeqSum([j \in 1 .. n |-> ring[j - 1]])
           sums == IF i = 0 THEN {fresh} ELSE {b.sum + u - old[x] + e : e \in -Ulp .. Ulp}
<1>1. /\ C \in Nat /\ n \in Nat \ {0} /\ n \in Nat /\ n > 0 /\ n <= C /\ n \in 1 .. C /\ Ulp \in Nat
      /\ old \in [0 .. C - 1 -> Int] /\ x \in Int /\ b.sum \in Int
  BY WindowsAssumption DEF AverageBlocks
<1>2. /\ x = k % n /\ RingHolds(old, n, k, f) /\ Distance(b.sum, Rolling(f, k, n)) <= x * Ulp
  BY DEF AverageAt
<1>3. /\ k \in Nat /\ k \in Int /\ u \in Int /\ f \in [Int -> Int] /\ g \in [Int -> Int]
      /\ g[k + 1] = u /\ \A j \in Int : j <= k => g[j] = f[j]
  BY DEF GoesOn, Signals
<1>a. o \in {[block |-> [b EXCEPT !.buffer = ring, !.idx = i, !.sum = s], out |-> s] : s \in sums}
  BY Zenon DEF AverageTick
<1> HIDE DEF n, old, x, C
<1>b. PICK s \in sums : o = [block |-> [b EXCEPT !.buffer = ring, !.idx = i, !.sum = s], out |-> s]
  <2> HIDE DEF ring, i, sums
  <2> QED
    BY <1>a, Zenon
<1>4. o.block = [b EXCEPT !.buffer = ring, !.idx = i, !.sum = s] /\ o.out = s
  <2> HIDE DEF ring, i, sums
  <2> QED
    BY <1>b
<1>5. /\ ring \in [0 .. C - 1 -> Int] /\ RingHolds(ring, n, k + 1, g)
      /\ i = (k + 1) % n /\ i \in 0 .. n - 1
  BY <1>1, <1>2, RingGoesOn DEF C
<1>6. x \in 0 .. n - 1
  <2>1. k % n \in Int /\ 0 <= k % n /\ k % n < n
    BY <1>1, <1>3, Remainder
  <2> QED
    BY <1>1, <1>2, <2>1
<1> DEFINE was == Rolling(f, k, n)
           now == Rolling(g, k + 1, n)
<1>7. was \in Int /\ now \in Int /\ old[x] \in Int /\ now + old[x] = was + u
  <2> DEFINE c == k - n
             d == (k + 1) - n
  <2>0. k \in Int /\ n \in Int /\ n > 0
    BY <1>1, <1>3
  <2>1. c \in Int /\ d \in Int /\ d = c + 1 /\ c + (n + 1) = k + 1
    BY <2>0
  <2>2. Stretch(f, c, n) = Stretch(g, c, n)
    <3>1. \A j \in 1 .. n : c + j \in Int /\ c + j <= k
      BY <1>1, <1>3
    <3> HIDE DEF c, n
    <3>2. \A j \in 1 .. n : f[c + j] = g[c + j]
      BY <1>3, <3>1
    <3> QED
      BY <3>2 DEF Stretch
  <2>3. old[x] = f[c + 1]
    <3> DEFINE m == c + 1
    <3>1. m \in k - n + 1 .. k /\ m - 1 = c /\ c + n = k
      BY <2>0
    <3> HIDE DEF m, c, n, old, x
    <3>2. old[(m - 1) % n] = f[m]
      BY <1>2, <3>1 DEF RingHolds
    <3>3. (c + n) % n = c % n
      BY <1>1, <2>1, SlotOf
    <3> QED
      BY <1>2, <3>1, <3>2, <3>3 DEF m
  <2>4. f[c + 1] = g[c + 1] /\ g[c + 1] \in Int
    <3>1. c + 1 \in Int /\ c + 1 <= k
      BY <1>1, <1>3
    <3> HIDE DEF c
    <3> QED
      BY <1>3, <3>1
  <2> HIDE DEF c, d, n, old, x
  <2>5. SeqSum(Stretch(g, c + 1, n)) + g[c + 1] = SeqSum(Stretch(g, c, n)) + g[c + (n + 1)]
    <3>1. Slides(g, c, n)
      BY <1>1, <1>3, <2>1, StretchSlides
    <3> QED
      BY <3>1 DEF Slides
  <2>6. StretchGrows(g, c, n) /\ StretchGrows(g, d, n)
    BY <1>1, <1>3, <2>1, StretchIs
  <2>7. was = SeqSum(Stretch(g, c, n)) /\ now = SeqSum(Stretch(g, d, n))
    BY <2>2 DEF Rolling, c, d
  <2>8. was \in Int /\ now \in Int
    BY <2>6, <2>7 DEF StretchGrows
  <2> QED
    BY <1>3, <2>1, <2>3, <2>4, <2>5, <2>7, <2>8
<1>8. s \in Int /\ Distance(s, now) <= i * Ulp
  <2>1. CASE i = 0
    <3>1. s = fresh
      BY <2>1
    <3>2. fresh = now
      <4>0. k + 1 \in Nat /\ (k + 1) % n = 0
        BY <1>3, <1>5, <2>1
      <4> DEFINE m == k + 1
      <4> HIDE DEF m, n, ring
      <4>1. [j \in 1 .. n |-> ring[j - 1]] = Stretch(g, m - n, n)
        BY <1>1, <1>5, <4>0, RingAtTurn DEF m
      <4> QED
        BY <4>1 DEF Rolling, m
    <3> HIDE DEF fresh, now, i
    <3> QED
      BY <1>1, <1>7, <2>1, <3>1, <3>2 DEF Distance
  <2>2. CASE i # 0
    <3>1. PICK e \in -Ulp .. Ulp : s = b.sum + u - old[x] + e
      BY <2>2
    <3>2. i = x + 1
      <4>1. i = IF x + 1 < n THEN x + 1 ELSE 0
        BY <1>1, <1>6, PlaceAfter
      <4> HIDE DEF i
      <4> QED
        BY <2>2, <4>1
    <3> DEFINE v == b.sum
               z == old[x]
    <3>3. v \in Int /\ z \in Int /\ e \in Int /\ -Ulp <= e /\ e <= Ulp /\ s = v + u - z + e
      BY <1>1, <1>7, <3>1
    <3>4. Distance(v, was) <= x * Ulp /\ now + z = was + u
      BY <1>2, <1>7
    <3>5. x * Ulp \in Int /\ (x + 1) * Ulp = x * Ulp + Ulp
      <4> HIDE DEF x
      <4> QED
        BY <1>1
    <3> DEFINE r == x * Ulp
    <3> HIDE DEF v, z, was, now, i, r
    <3>6. r \in Int /\ Distance(v, was) <= r
      BY <3>4, <3>5 DEF r
    <3>7. s \in Int /\ Distance(s, now) <= r + Ulp
      <4>1. s \in Int
        BY <1>3, <3>3
      <4> HIDE DEF r
      <4>2. Distance(s, now) <= r + Ulp
        BY <1>1, <1>3, <1>7, <3>3, <3>4, <3>6, RoundingAdds
      <4> QED
        BY <4>1, <4>2
    <3> QED
      BY <3>2, <3>5, <3>7 DEF r
  <2> QED
    BY <2>1, <2>2
<1> HIDE DEF ring, i, sums
<1>9. /\ o.block \in AverageBlocks /\ o.block.n = n /\ o.block.buffer = ring /\ o.block.idx = i
      /\ o.block.sum = s
  <2> DEFINE b1 == [b EXCEPT !.buffer = ring]
             b2 == [b1 EXCEPT !.idx = i]
             b3 == [b2 EXCEPT !.sum = s]
  <2>1. [b EXCEPT !.buffer = ring, !.idx = i, !.sum = s]
           = [[[b EXCEPT !.buffer = ring] EXCEPT !.idx = i] EXCEPT !.sum = s]
    OBVIOUS
  <2>2. b1 \in AverageBlocks /\ b1.n = n /\ b1.buffer = ring
    BY <1>1, <1>5 DEF AverageBlocks, n, C
  <2> HIDE DEF b1
  <2>3. b2 \in AverageBlocks /\ b2.n = n /\ b2.buffer = ring /\ b2.idx = i
    BY <1>5, <2>2 DEF AverageBlocks
  <2> HIDE DEF b2
  <2>4. b3 \in AverageBlocks /\ b3.n = n /\ b3.buffer = ring /\ b3.idx = i /\ b3.sum = s
    BY <1>8, <2>3 DEF AverageBlocks
  <2>5. o.block = b3
    BY <1>4, <2>1 DEF b1, b2
  <2> HIDE DEF b3
  <2> QED
    BY <2>4, <2>5
<1> DEFINE a == o.block
           y == o.out
<1>10. /\ a \in AverageBlocks /\ a.idx = (k + 1) % a.n /\ RingHolds(a.buffer, a.n, k + 1, g)
       /\ Distance(a.sum, Rolling(g, k + 1, a.n)) <= a.idx * Ulp /\ y = a.sum
  BY <1>4, <1>5, <1>8, <1>9
<1> HIDE DEF a, y
<1>11. AverageAt(a, k + 1, g)
  BY <1>10 DEF AverageAt
<1> QED
  BY <1>10, <1>11 DEF AverageAnswers, a, y

\* An average of any window, whatever its sum is rounded by.
AverageFollows ==
    block.kind = "average" =>
        /\ block \in AverageBlocks /\ heard \in Seq(Int)
        /\ AverageAt(block, Len(heard), PastOf(heard))
        /\ heard # <<>> => out = block.sum

LEMMA AverageFirst == PathInit => AverageFollows
<1> SUFFICES ASSUME PathInit, block.kind = "average" PROVE AverageFollows
  BY DEF AverageFollows
<1>1. PICK w \in 0 .. Capacity + 1 : block = Average(w)
  BY FirstBlock
<1>2. heard = <<>> /\ <<>> \in Seq(Int) /\ Len(<<>>) = 0
  BY DEF PathInit
<1> QED
  BY <1>1, <1>2, AverageFresh DEF AverageFollows

LEMMA AverageStep == HasKind /\ AverageFollows /\ [PathNext]_path => AverageFollows'
<1> SUFFICES ASSUME HasKind, AverageFollows, [PathNext]_path, block'.kind = "average"
             PROVE  AverageFollows'
  BY DEF AverageFollows
<1>1. block.kind = "average"
  BY KindStays
<1>2. block \in AverageBlocks /\ heard \in Seq(Int) /\ AverageAt(block, Len(heard), PastOf(heard))
  BY <1>1 DEF AverageFollows
<1>3. CASE Tick
  <2>1. PICK u \in Samples : Hear(AverageTick(block, u), u)
    BY <1>1, <1>3 DEF Tick, TickOf
  <2>2. PICK o \in AverageTick(block, u) : block' = o.block /\ out' = o.out
    BY <2>1 DEF Hear
  <2>3. heard' = Append(heard, u) /\ u \in Int
    BY <2>1, SignalPathAssumption DEF Hear
  <2>4. PICK k \in Nat : k = Len(heard)
    BY <1>2
  <2>5. PICK f, g : f = PastOf(heard) /\ g = PastOf(heard')
    OBVIOUS
  <2>6. heard' \in Seq(Int) /\ Len(heard') = k + 1 /\ heard' # <<>> /\ GoesOn(f, g, k, u)
    BY <1>2, <2>3, <2>4, <2>5, SignalGrows
  <2>7. AverageAnswers(o, k, g)
    BY <1>2, <2>2, <2>4, <2>5, <2>6, AverageTicks
  <2> QED
    BY <2>2, <2>5, <2>6, <2>7 DEF AverageFollows, AverageAnswers
<1>4. CASE PathReset
  <2>1. heard' = <<>> /\ <<>> \in Seq(Int) /\ Len(<<>>) = 0
    BY <1>4 DEF PathReset
  <2>2. PICK w \in {block.n} \cup 0 .. Capacity + 1 : block' = Average(w)
    BY <1>1, <1>4 DEF PathReset, Fresh
  <2>3. w \in 0 .. Capacity + 1
    BY <1>2, WindowsAssumption DEF AverageBlocks
  <2> QED
    BY <2>1, <2>2, <2>3, AverageFresh DEF AverageFollows
<1>5. CASE UNCHANGED path
  BY <1>5 DEF path, AverageFollows
<1> QED
  BY <1>1, <1>3, <1>4, <1>5 DEF PathNext, TickMonitor, TickMhe, TickSlew, TickPair

LEMMA FollowingIsAverage == AverageFollows /\ heard # <<>> => AverageExact
<1> DEFINE n == block.n
           first == Len(heard) - n
           f == PastOf(heard)
<1> SUFFICES ASSUME AverageFollows, heard # <<>>, block.kind = "average"
             PROVE  Distance(out, SeqSum([i \in 1 .. n |-> Past(first + i)])) <= block.idx * Ulp
  BY DEF AverageExact
<1>1. block \in AverageBlocks /\ heard \in Seq(Int) /\ AverageAt(block, Len(heard), f) /\ out = block.sum
  BY DEF AverageFollows
<1>2. n \in Nat /\ Len(heard) \in Nat
  BY <1>1, WindowsAssumption DEF AverageBlocks
<1>3. [i \in 1 .. n |-> Past(first + i)] = Stretch(f, first, n)
  <2>1. \A i \in 1 .. n : first + i \in Int
    BY <1>2
  <2>2. \A j \in Int : Past(j) = f[j]
    BY DEF Past, PastOf
  <2> HIDE DEF n, first, f
  <2>3. \A i \in 1 .. n : Past(first + i) = f[first + i]
    BY <2>1, <2>2
  <2> QED
    BY <2>3 DEF Stretch
<1>4. SeqSum(Stretch(f, first, n)) = Rolling(f, Len(heard), n)
  BY DEF Rolling
<1> QED
  BY <1>1, <1>3, <1>4 DEF AverageAt

-----------------------------------------------------------------------------
(***************************************************************************)
(* The repetitive controller.                                              *)
(***************************************************************************)

LEMMA FilterIs ==
    ASSUME NEW w, NEW c, c \in Int, \A j \in Around(c) : w[j] \in Int
    PROVE  ZeroPhase(w, c) \in Int
<1> DEFINE q == [i \in 1 .. QHalf |-> QTaps[i + 1] * (w[c - i] + w[c + i])]
<1>1. QHalf \in Nat /\ \A i \in 0 .. QHalf : QTaps[i + 1] \in Int
  BY WindowsAssumption DEF QHalf
<1>2. ASSUME NEW i, i \in 0 .. QHalf PROVE c - i \in Around(c) /\ c + i \in Around(c)
  BY <1>1, <1>2 DEF Around
<1>3. q \in Seq(Int)
  <2>1. ASSUME NEW i, i \in 1 .. QHalf PROVE QTaps[i + 1] * (w[c - i] + w[c + i]) \in Int
    <3>1. i \in 0 .. QHalf
      BY <1>1, <2>1
    <3>2. w[c - i] \in Int /\ w[c + i] \in Int /\ QTaps[i + 1] \in Int
      BY <1>1, <1>2, <3>1
    <3> QED
      BY <3>2
  <2>2. q \in [1 .. QHalf -> Int]
    BY <2>1
  <2> QED
    BY <1>1, <2>2
<1>4. QTaps[1] * w[c] \in Int
  <2>1. w[c] \in Int
    <3>1. 0 \in 0 .. QHalf /\ c + 0 = c
      BY <1>1
    <3> QED
      BY <1>2, <3>1
  <2>2. QTaps[1] \in Int
    <3>1. 0 \in 0 .. QHalf /\ 0 + 1 = 1
      BY <1>1
    <3> QED
      BY <1>1, <3>1
  <2> QED
    BY <2>1, <2>2
<1>5. ZeroPhase(w, c) = QTaps[1] * w[c] + SeqSum(q)
  BY DEF ZeroPhase
<1> HIDE DEF q
<1>6. SeqSum(q) \in Int
  BY <1>3, SeqSumType
<1> DEFINE t == QTaps[1] * w[c]
<1> HIDE DEF t
<1>7. t \in Int /\ ZeroPhase(w, c) = t + SeqSum(q)
  BY <1>4, <1>5 DEF t
<1> QED
  BY <1>6, <1>7

\* The filter depends on no other values, and on no others' places.
Alike(w, c, v, d) == \A o \in -QHalf .. QHalf : w[c + o] = v[d + o]

LEMMA FilterAgrees ==
    ASSUME NEW w, NEW c, c \in Int, NEW v, NEW d, d \in Int, Alike(w, c, v, d)
    PROVE  ZeroPhase(w, c) = ZeroPhase(v, d)
<1>1. QHalf \in Nat
  BY WindowsAssumption DEF QHalf
<1>2. \A o \in -QHalf .. QHalf : w[c + o] = v[d + o]
  BY DEF Alike
<1>3. w[c] = v[d]
  <2>1. 0 \in -QHalf .. QHalf /\ c + 0 = c /\ d + 0 = d
    BY <1>1
  <2> QED
    BY <1>2, <2>1
<1>4. ASSUME NEW i, i \in 1 .. QHalf PROVE w[c - i] = v[d - i] /\ w[c + i] = v[d + i]
  <2>1. -i \in -QHalf .. QHalf /\ c + (-i) = c - i /\ d + (-i) = d - i /\ i \in -QHalf .. QHalf
    BY <1>1, <1>4
  <2>2. w[c + (-i)] = v[d + (-i)]
    BY <1>2, <2>1
  <2>3. w[c + i] = v[d + i]
    BY <1>2, <2>1
  <2> QED
    BY <2>1, <2>2, <2>3
<1>5. [i \in 1 .. QHalf |-> QTaps[i + 1] * (w[c - i] + w[c + i])]
         = [i \in 1 .. QHalf |-> QTaps[i + 1] * (v[d - i] + v[d + i])]
  BY <1>4
<1> QED
  BY <1>3, <1>5 DEF ZeroPhase

\* The internal model after n samples of f.
ModelTurns(f, p) == [k \in Nat |-> [w \in Seq(Int) |->
                   LET c == k - p IN Append(w, f[k] + ZeroPhase(Since(w, c), c))]]

LearnedOf(f, p, n) == Iterated(<<>>, ModelTurns(f, p))[n]

LEMMA SinceIs ==
    ASSUME NEW w, w \in Seq(Int), NEW c, c \in Int
    PROVE  /\ \A j \in Around(c) : Since(w, c)[j] \in Int /\ Since(w, c)[j] = PastOf(w)[j]
           /\ ZeroPhase(Since(w, c), c) \in Int
<1>1. QHalf \in Nat /\ Around(c) \subseteq Int
  BY WindowsAssumption DEF QHalf, Around
<1>2. ASSUME NEW j, j \in Around(c) PROVE Since(w, c)[j] \in Int /\ Since(w, c)[j] = PastOf(w)[j]
  BY <1>1, <1>2 DEF Since, PastOf
<1>3. ZeroPhase(Since(w, c), c) \in Int
  BY <1>2, FilterIs
<1> QED
  BY <1>2, <1>3

\* The model with one sample more.
Learns(f, g, p, k, u) ==
    LET q == LearnedOf(f, p, k)  c == (k + 1) - p
    IN q \in Seq(Int) /\ LearnedOf(g, p, k + 1) = Append(q, u + ZeroPhase(Since(q, c), c))

LEMMA TurnsOf ==
    ASSUME NEW f, f \in Signals, NEW p, p \in Int
    PROVE  /\ ModelTurns(f, p) \in [Nat -> [Seq(Int) -> Seq(Int)]]
           /\ \A k \in Nat : ModelTurns(f, p)[k] = [w \in Seq(Int) |->
                 LET c == k - p IN Append(w, f[k] + ZeroPhase(Since(w, c), c))]
<1> DEFINE S == Seq(Int)
           A(k, w) == LET c == k - p IN Append(w, f[k] + ZeroPhase(Since(w, c), c))
<1>1. ASSUME NEW k, k \in Nat, NEW w, w \in S PROVE A(k, w) \in S
  <2> DEFINE c == k - p
             z == ZeroPhase(Since(w, c), c)
  <2>1. c \in Int /\ f[k] \in Int
    BY <1>1 DEF Signals
  <2> HIDE DEF c
  <2>2. z \in Int
    BY <1>1, <2>1, SinceIs
  <2> HIDE DEF z
  <2>3. f[k] + z \in Int
    BY <2>1, <2>2
  <2>4. A(k, w) = Append(w, f[k] + z)
    BY DEF c, z
  <2> QED
    BY <1>1, <2>3, <2>4
<1>2. ModelTurns(f, p) = [k \in Nat |-> [w \in S |-> A(k, w)]]
  BY DEF ModelTurns
<1>3. [k \in Nat |-> [w \in S |-> A(k, w)]] \in [Nat -> [S -> S]]
  <2> HIDE DEF A, S
  <2> QED
    BY <1>1
<1> QED
  BY <1>2, <1>3

LEMMA LearnsOn ==
    ASSUME NEW f, NEW g, NEW k, NEW u, GoesOn(f, g, k, u), NEW p, p \in Int
    PROVE  Learns(f, g, p, k, u)
<1> DEFINE S == Seq(Int)
           F == ModelTurns(f, p)
           G == ModelTurns(g, p)
           m == k + 1
           c == m - p
           q == LearnedOf(f, p, k)
           a == <<>>
<1>1. f \in Signals /\ g \in Signals /\ k \in Nat /\ m \in Nat /\ g[m] = u /\ \A i \in Int : i <= k => g[i] = f[i]
  BY DEF GoesOn
<1>2. F \in [Nat -> [S -> S]] /\ G \in [Nat -> [S -> S]] /\ a \in S
  BY <1>1, TurnsOf
<1>3. \A i \in 1 .. k : F[i] = G[i]
  <2>1. ASSUME NEW i, i \in 1 .. k PROVE f[i] = g[i] /\ i \in Nat
    BY <1>1, <2>1
  <2> QED
    BY <1>1, <2>1, TurnsOf DEF ModelTurns
<1> HIDE DEF m
<1>4. G[m] = [w \in S |-> Append(w, g[m] + ZeroPhase(Since(w, c), c))]
  BY <1>1, Zenon DEF ModelTurns
<1> HIDE DEF F, G, S, a
<1>5. Iterated(a, F)[k] = Iterated(a, G)[k]
  BY <1>1, <1>2, <1>3, IteratedAgree
<1>6. Iterated(a, F)[k] \in S
  BY <1>1, <1>2, IteratedUnfolds
<1>7. Iterated(a, G)[m] = G[m][Iterated(a, G)[k]]
  BY <1>1, <1>2, IteratedUnfolds DEF m
<1>8. q = Iterated(a, F)[k] /\ LearnedOf(g, p, m) = Iterated(a, G)[m]
  BY DEF LearnedOf, F, G, a
<1> HIDE DEF q, c
<1>9. q \in S /\ LearnedOf(g, p, m) = Append(q, u + ZeroPhase(Since(q, c), c))
  BY <1>1, <1>4, <1>5, <1>6, <1>7, <1>8
<1> QED
  BY <1>9 DEF Learns, S, q, c, m

RepetitiveBlocks ==
    [kind : {"repetitive"}, period : QHalf + Lead + 1 .. Capacity, mem : [0 .. Capacity - 1 -> Int],
     idx : Int, valid : BOOLEAN]

\* The memory of a controller that has heard k samples holds the last values of its model q.
RepetitiveAt(b, k, q) ==
    /\ b.period + QHalf <= Capacity
    /\ b.idx = k % Capacity
    /\ q \in Seq(Int) /\ Len(q) = k
    /\ RingHolds(b.mem, Capacity, k, PastOf(q))

\* The model, filtered, d samples before the next.
FilteredModel(q, k, d) == LET c == (k + 1) - d IN ZeroPhase(Since(q, c), c)

\* What it reads of its memory is what the filter makes of the model.
Reaches(b, k, q, d) ==
    /\ b \in RepetitiveBlocks /\ RepetitiveAt(b, k, q) /\ k \in Nat
    /\ d \in Int /\ QHalf < d /\ d + QHalf <= Capacity

LEMMA FilteredIs ==
    ASSUME NEW b, NEW k, NEW q, NEW d, Reaches(b, k, q, d)
    PROVE  Filtered(b, d) = FilteredModel(q, k, d) /\ Filtered(b, d) \in Int
<1> DEFINE C == Capacity
           H == QHalf
           x == b.idx
           e == x - d
           c == (k + 1) - d
           w == [j \in Around(e) |-> b.mem[(j + C) % C]]
           v == Since(q, c)
<1>1. /\ C \in Nat /\ C > 0 /\ C \in Nat \ {0} /\ H \in Nat /\ x \in Int /\ x = k % C
      /\ q \in Seq(Int) /\ RingHolds(b.mem, C, k, PastOf(q))
      /\ k \in Nat /\ d \in Int /\ H < d /\ d + H <= C
  BY WindowsAssumption DEF Reaches, RepetitiveAt, RepetitiveBlocks, QHalf
<1>2. Filtered(b, d) = ZeroPhase(w, e) /\ FilteredModel(q, k, d) = ZeroPhase(v, c)
  BY DEF Filtered, FilteredModel
<1> HIDE DEF C, H, x
<1>3. e \in Int /\ c \in Int
  BY <1>1
<1>4. ASSUME NEW o, o \in -H .. H PROVE w[e + o] = v[c + o]
  <2> DEFINE j == e + o
             m == c + o
             p == m - 1
             s == o - d
  <2>1. /\ o \in Int /\ s \in Int /\ j \in Int /\ j = x + s /\ p \in Int /\ p = k + s
        /\ m \in k - C + 1 .. k /\ m \in Int /\ m - 1 = p /\ k \in Int
    BY <1>1, <1>4
  <2>2. j \in Around(e) /\ m \in Around(c)
    BY <1>1, <1>3, <1>4 DEF Around, H
  <2> HIDE DEF e, c
  <2>3. w[j] = b.mem[(j + C) % C]
    <3> HIDE DEF j
    <3> QED
      BY <2>2
  <2>4. v[m] = PastOf(q)[m]
    <3> HIDE DEF m
    <3> QED
      BY <1>1, <1>3, <2>2, SinceIs
  <2> HIDE DEF j, m, p, s
  <2>5. b.mem[p % C] = PastOf(q)[m]
    BY <1>1, <2>1 DEF RingHolds
  <2>6. (j + C) % C = p % C
    <3>1. (j + C) % C = j % C
      BY <1>1, <2>1, SlotOf
    <3>2. ((k % C) + s) % C = (k + s) % C
      BY <1>1, <2>1, SlotOf
    <3> QED
      BY <1>1, <2>1, <3>1, <3>2
  <2> QED
    BY <2>3, <2>4, <2>5, <2>6 DEF j, m
<1> HIDE DEF e, c, w, v
<1>5. Alike(w, e, v, c)
  BY <1>4 DEF Alike, H
<1>6. ZeroPhase(w, e) = ZeroPhase(v, c)
  BY <1>3, <1>5, FilterAgrees
<1>7. ZeroPhase(v, c) \in Int
  BY <1>1, <1>3, SinceIs DEF v
<1> QED
  BY <1>2, <1>6, <1>7

RepetitiveAnswers(b, k, q, g, o) ==
    LET r == LearnedOf(g, b.period, k + 1)
    IN /\ o.block \in RepetitiveBlocks /\ o.block.period = b.period /\ o.block.valid = b.valid
       /\ RepetitiveAt(o.block, k + 1, r)
       /\ o.out = Gain * FilteredModel(r, k, b.period - Lead)

\* A later value does not reach back to what is filtered now.
LEMMA FilteredKeeps ==
    ASSUME NEW q, q \in Seq(Int), NEW v, v \in Int, NEW k, k = Len(q), NEW d, d \in Int, QHalf < d
    PROVE  FilteredModel(Append(q, v), k, d) = FilteredModel(q, k, d)
<1> DEFINE c == (k + 1) - d
           r == Append(q, v)
<1>1. k \in Nat /\ c \in Int /\ QHalf \in Nat /\ Len(r) = k + 1 /\ \A j \in 1 .. k : r[j] = q[j]
  BY WindowsAssumption DEF QHalf
<1>2. \A j \in Around(c) : j \in Int /\ j <= k
  BY <1>1 DEF Around
<1> HIDE DEF c, r
<1>3. \A j \in Around(c) : (IF j \in 1 .. Len(r) THEN r[j] ELSE 0) = (IF j \in 1 .. Len(q) THEN q[j] ELSE 0)
  BY <1>1, <1>2
<1>4. Since(r, c) = Since(q, c)
  BY <1>3 DEF Since
<1> QED
  BY <1>4 DEF FilteredModel, r, c

LEMMA RepetitiveTicks ==
    ASSUME NEW f, NEW g, NEW k, NEW u, GoesOn(f, g, k, u),
           NEW b, b \in RepetitiveBlocks, b.valid, NEW q, q = LearnedOf(f, b.period, k), RepetitiveAt(b, k, q),
           NEW o, o \in RepetitiveTick(b, u)
    PROVE  RepetitiveAnswers(b, k, q, g, o)
<1> DEFINE C    == Capacity
           p    == b.period
           x    == b.idx
           old  == b.mem
           v    == Filtered(b, p) + u
           mem  == [old EXCEPT ![x] = v]
           i    == (x + 1) % C
           y    == Gain * Filtered(b, p - Lead)
           r    == LearnedOf(g, p, k + 1)
           S    == RepetitiveBlocks
<1>1. /\ C \in Nat /\ C > 0 /\ C <= C /\ QHalf \in Nat /\ Lead \in Nat /\ k \in Nat /\ k \in Int /\ u \in Int
      /\ p \in Int /\ QHalf + Lead + 1 <= p /\ p + QHalf <= C /\ x = k % C /\ x \in Int
      /\ old \in [0 .. C - 1 -> Int] /\ q \in Seq(Int) /\ Len(q) = k /\ RingHolds(old, C, k, PastOf(q))
  BY WindowsAssumption DEF RepetitiveAt, RepetitiveBlocks, QHalf, GoesOn
<1>2. o.block = [b EXCEPT !.mem = mem, !.idx = i] /\ o.out = y
  <2>1. RepetitiveTick(b, u) = {[block |-> [b EXCEPT !.mem = mem, !.idx = i], out |-> y]}
    BY DEF RepetitiveTick
  <2> HIDE DEF mem, i, y
  <2> QED
    BY <2>1
<1>3. /\ Filtered(b, p) = FilteredModel(q, k, p) /\ Filtered(b, p) \in Int
      /\ Filtered(b, p - Lead) = FilteredModel(q, k, p - Lead)
  <2> DEFINE d == p - Lead
  <2>1. p \in Int /\ QHalf < p /\ p + QHalf <= C /\ d \in Int /\ QHalf < d /\ d + QHalf <= C
    BY <1>1
  <2> HIDE DEF p, d
  <2>2. Reaches(b, k, q, p) /\ Reaches(b, k, q, d)
    BY <1>1, <2>1 DEF Reaches
  <2>3. Filtered(b, p) = FilteredModel(q, k, p) /\ Filtered(b, p) \in Int
    BY <2>2, FilteredIs
  <2>4. Filtered(b, d) = FilteredModel(q, k, d)
    BY <2>2, FilteredIs
  <2> QED
    BY <2>3, <2>4 DEF d
<1>4. v \in Int
  BY <1>1, <1>3
<1>5. r = Append(q, v)
  <2>1. Learns(f, g, p, k, u)
    BY <1>1, LearnsOn
  <2>2. r = Append(q, u + FilteredModel(q, k, p))
    BY <2>1 DEF Learns, FilteredModel
  <2> DEFINE z == Filtered(b, p)
  <2>3. z \in Int /\ z = FilteredModel(q, k, p) /\ v = z + u /\ u + z = z + u
    BY <1>1, <1>3
  <2> HIDE DEF z, v, r
  <2> QED
    BY <2>2, <2>3
<1> HIDE DEF v, r, y, p, S
<1>6. r \in Seq(Int) /\ Len(r) = k + 1 /\ GoesOn(PastOf(q), PastOf(r), k, v)
  BY <1>1, <1>4, <1>5, SignalGrows
<1>7. /\ mem \in [0 .. C - 1 -> Int] /\ RingHolds(mem, C, k + 1, PastOf(r))
      /\ i = (k + 1) % C /\ i \in 0 .. C - 1
  <2> HIDE DEF old, x
  <2> QED
    BY <1>1, <1>6, RingGoesOn
<1>8. y = Gain * FilteredModel(r, k, p - Lead)
  <2> DEFINE d == p - Lead
  <2>1. d \in Int /\ QHalf < d /\ k = Len(q)
    BY <1>1
  <2> HIDE DEF d, mem, i, x, old, C
  <2>2. FilteredModel(Append(q, v), k, d) = FilteredModel(q, k, d)
    <3>1. q \in Seq(Int)
      BY <1>1
    <3> QED
      BY <1>4, <2>1, <3>1, FilteredKeeps
  <2>3. y = Gain * Filtered(b, d)
    BY DEF y, d
  <2>4. Filtered(b, d) = FilteredModel(q, k, d)
    BY <1>3 DEF d
  <2> QED
    BY <1>5, <2>2, <2>3, <2>4 DEF d
<1> HIDE DEF mem, i, x, old
<1>9. /\ o.block \in S /\ o.block.period = p /\ o.block.valid = b.valid
      /\ o.block.mem = mem /\ o.block.idx = i
  <2> DEFINE b1 == [b EXCEPT !.mem = mem]
             b2 == [b1 EXCEPT !.idx = i]
  <2>1. o.block = b2
    BY <1>2
  <2>2. b1 \in S /\ b1.period = p /\ b1.valid = b.valid /\ b1.mem = mem
    BY <1>7 DEF RepetitiveBlocks, S, p
  <2> HIDE DEF b1
  <2>a. i \in Int
    <3> HIDE DEF C
    <3> QED
      BY <1>1, <1>7
  <2>3. b2 \in S /\ b2.period = p /\ b2.valid = b.valid /\ b2.mem = mem /\ b2.idx = i
    BY <2>a, <2>2 DEF RepetitiveBlocks, S
  <2> HIDE DEF b2
  <2> QED
    BY <2>1, <2>3
<1> DEFINE a == o.block
<1>10. a.period + QHalf <= C /\ a.idx = (k + 1) % C /\ RingHolds(a.mem, C, k + 1, PastOf(r))
  BY <1>1, <1>7, <1>9
<1> HIDE DEF a
<1>11. RepetitiveAt(a, k + 1, r)
  BY <1>6, <1>10 DEF RepetitiveAt
<1> QED
  BY <1>2, <1>8, <1>9, <1>11 DEF RepetitiveAnswers, a, r, p, S

\* A controller of any period its memory can hold.
RepetitiveFollows ==
    block.kind = "repetitive" =>
        /\ block \in RepetitiveBlocks /\ heard \in Seq(Int)
        /\ block.valid =>
             LET q == LearnedOf(PastOf(heard), block.period, Len(heard))
             IN /\ RepetitiveAt(block, Len(heard), q)
                /\ heard # <<>> => out = Gain * FilteredModel(q, Len(heard) - 1, block.period - Lead)

LEMMA RepetitiveFresh ==
    ASSUME NEW p, p \in QHalf + Lead + 1 .. Capacity
    PROVE  /\ Repetitive(p) \in RepetitiveBlocks /\ Repetitive(p).period = p
           /\ Repetitive(p).valid => RepetitiveAt(Repetitive(p), 0, LearnedOf(PastOf(<<>>), p, 0))
<1> DEFINE b == Repetitive(p)
           f == PastOf(<<>>)
           q == <<>>
           C == Capacity
           valid == p + QHalf <= C
<1>1. /\ C \in Nat /\ C \in Nat \ {0} /\ C <= C /\ QHalf \in Nat /\ Lead \in Nat /\ p \in Int
      /\ q \in Seq(Int) /\ Len(q) = 0
  BY WindowsAssumption DEF QHalf
<1>2. valid \in BOOLEAN
  BY <1>1
<1>3. b = [kind |-> "repetitive", period |-> p, mem |-> Zeros(C), idx |-> 0, valid |-> valid]
  BY Zenon DEF Repetitive
<1>4. Zeros(C) \in [0 .. C - 1 -> Int] /\ RingHolds(Zeros(C), C, 0, f)
  <2> HIDE DEF C, f
  <2> QED
    BY <1>1, EmptyRing DEF f
<1>5. LearnedOf(f, p, 0) = q
  <2> DEFINE S == Seq(Int)
             F == ModelTurns(f, p)
  <2>1. f \in Signals
    BY <1>1, PastIsSignal
  <2>2. F \in [Nat -> [S -> S]] /\ q \in S
    BY <1>1, <2>1, TurnsOf
  <2> HIDE DEF F, S, q
  <2>3. Iterated(q, F)[0] = q
    BY <2>2, IteratedUnfolds
  <2> QED
    BY <2>3 DEF LearnedOf, F, q
<1>6. 0 % C = 0
  BY <1>1
<1> HIDE DEF valid, b
<1>7. b.period = p /\ b.mem = Zeros(C) /\ b.idx = 0 /\ b.valid = valid /\ b \in RepetitiveBlocks
  BY <1>1, <1>2, <1>3, <1>4 DEF RepetitiveBlocks
<1>8. ASSUME valid PROVE RepetitiveAt(b, 0, q)
  BY <1>1, <1>4, <1>6, <1>7, <1>8 DEF RepetitiveAt, valid
<1> QED
  BY <1>5, <1>7, <1>8 DEF b

LEMMA RepetitiveFirst == PathInit => RepetitiveFollows
<1> SUFFICES ASSUME PathInit, block.kind = "repetitive" PROVE RepetitiveFollows
  BY DEF RepetitiveFollows
<1>1. PICK p \in QHalf + Lead + 1 .. Capacity : block = Repetitive(p)
  BY FirstBlock
<1>2. heard = <<>> /\ <<>> \in Seq(Int) /\ Len(<<>>) = 0
  BY DEF PathInit
<1> QED
  BY <1>1, <1>2, RepetitiveFresh DEF RepetitiveFollows

LEMMA RepetitiveStep == HasKind /\ RepetitiveFollows /\ [PathNext]_path => RepetitiveFollows'
<1> SUFFICES ASSUME HasKind, RepetitiveFollows, [PathNext]_path, block'.kind = "repetitive"
             PROVE  RepetitiveFollows'
  BY DEF RepetitiveFollows
<1>1. block.kind = "repetitive"
  BY KindStays
<1>2. /\ block \in RepetitiveBlocks /\ heard \in Seq(Int)
      /\ block.valid => RepetitiveAt(block, Len(heard), LearnedOf(PastOf(heard), block.period, Len(heard)))
  BY <1>1 DEF RepetitiveFollows
<1>3. CASE Tick
  <2>1. PICK u \in Samples : Hear(RepetitiveTick(block, u), u)
    BY <1>1, <1>3 DEF Tick, TickOf
  <2>2. PICK o \in RepetitiveTick(block, u) : block' = o.block /\ out' = o.out
    BY <2>1 DEF Hear
  <2>3. heard' = Append(heard, u) /\ u \in Int
    BY <2>1, SignalPathAssumption DEF Hear
  <2>4. PICK k \in Nat : k = Len(heard)
    BY <1>2
  <2>5. PICK f, g : f = PastOf(heard) /\ g = PastOf(heard')
    OBVIOUS
  <2>6. heard' \in Seq(Int) /\ Len(heard') = k + 1 /\ GoesOn(f, g, k, u)
    BY <1>2, <2>3, <2>4, <2>5, SignalGrows
  <2>a. (k + 1) - 1 = k
    OBVIOUS
  <2>7. CASE block.valid
    <3>1. PICK q : q = LearnedOf(f, block.period, k)
      OBVIOUS
    <3>2. RepetitiveAt(block, k, q)
      BY <1>2, <2>4, <2>5, <2>7, <3>1
    <3>3. RepetitiveAnswers(block, k, q, g, o)
      BY <1>2, <2>2, <2>6, <2>7, <3>1, <3>2, RepetitiveTicks
    <3> QED
      BY <2>2, <2>5, <2>6, <2>a, <3>3 DEF RepetitiveAnswers, RepetitiveFollows
  <2>8. CASE ~block.valid
    <3>1. block' = block
      BY <2>2, <2>8 DEF RepetitiveTick
    <3> QED
      BY <1>2, <2>6, <2>8, <3>1 DEF RepetitiveFollows
  <2> QED
    BY <2>7, <2>8
<1>4. CASE PathReset
  <2>1. block' = Repetitive(block.period) /\ heard' = <<>> /\ <<>> \in Seq(Int) /\ Len(<<>>) = 0
    BY <1>1, <1>4 DEF PathReset, Fresh
  <2>2. block.period \in QHalf + Lead + 1 .. Capacity
    BY <1>2 DEF RepetitiveBlocks
  <2> QED
    BY <2>1, <2>2, RepetitiveFresh DEF RepetitiveFollows
<1>5. CASE UNCHANGED path
  BY <1>5 DEF path, RepetitiveFollows
<1> QED
  BY <1>1, <1>3, <1>4, <1>5 DEF PathNext, TickMonitor, TickMhe, TickSlew, TickPair

LEMMA FollowingIsRepetitive == RepetitiveFollows /\ heard # <<>> => RepetitiveExact
<1> DEFINE p == block.period
           d == p - Lead
           k == Len(heard)
           c == k - d
           q == LearnedOf(PastOf(heard), p, k)
<1> SUFFICES ASSUME RepetitiveFollows, heard # <<>>, block.kind = "repetitive", block.valid
             PROVE  out = Gain * ZeroPhase(Since(Learned, c), c)
  BY DEF RepetitiveExact
<1>1. heard \in Seq(Int) /\ block \in RepetitiveBlocks /\ out = Gain * FilteredModel(q, k - 1, d)
  BY DEF RepetitiveFollows
<1>2. k \in Nat /\ p \in Int /\ d \in Int /\ (k - 1) + 1 = k
  BY <1>1, WindowsAssumption DEF RepetitiveBlocks, QHalf
<1>3. Learned = q
  <2>1. \A j \in Nat : Past(j) = PastOf(heard)[j]
    BY DEF Past, PastOf
  <2>2. [j \in Nat |-> [w \in Seq(Int) |->
            LET e == j - p IN Append(w, Past(j) + ZeroPhase(Since(w, e), e))]]
           = ModelTurns(PastOf(heard), p)
    BY <2>1, Zenon DEF ModelTurns
  <2> QED
    BY <2>2, Zenon DEF Learned, LearnedOf
<1>4. FilteredModel(q, k - 1, d) = ZeroPhase(Since(q, c), c)
  <2> HIDE DEF q, d
  <2> QED
    BY <1>2 DEF FilteredModel
<1> QED
  BY <1>1, <1>3, <1>4

-----------------------------------------------------------------------------
(***************************************************************************)
(* The median.                                                             *)
(***************************************************************************)

\* The permutations that put the n numbers of q in ascending order.
Sortings(q, n) ==
    {p \in Bijection(1 .. n, 1 .. n) : \A i, j \in 1 .. n : i <= j => q[p[i]] <= q[p[j]]}

LEMMA BijectionIs ==
    ASSUME NEW S, NEW T, NEW p
    PROVE  p \in Bijection(S, T) <=> /\ p \in [S -> T] /\ \A i, j \in S : p[i] = p[j] => i = j
                                     /\ \A v \in T : \E i \in S : p[i] = v
BY DEF Bijection, Injection, Surjection, IsInjective

\* The greatest changes places with the last, and the others are put in order.
LEMMA SortingGrows ==
    ASSUME NEW n, n \in Nat, NEW q, q \in [1 .. n + 1 -> Int],
           NEW m, m \in 1 .. n + 1, \A i \in 1 .. n + 1 : q[i] <= q[m],
           NEW r, r = [i \in 1 .. n |-> IF i = m THEN q[n + 1] ELSE q[i]],
           NEW o, o \in Sortings(r, n)
    PROVE  Sortings(q, n + 1) # {}
<1> DEFINE D == 1 .. n
           E == 1 .. n + 1
           z == n + 1
           p == [i \in E |-> IF i = z THEN m ELSE IF o[i] = m THEN z ELSE o[i]]
<1>1. /\ z \in E /\ z \notin D /\ (\A i \in E : i \in D \/ i = z) /\ (\A i \in D : i \in E)
      /\ \A i, j \in E : i <= j /\ j # z => i \in D
  OBVIOUS
<1>2. /\ o \in [D -> D] /\ (\A i, j \in D : o[i] = o[j] => i = j)
      /\ (\A v \in D : \E i \in D : o[i] = v)
  <2>1. o \in Bijection(D, D)
    BY DEF Sortings
  <2> HIDE DEF D
  <2> QED
    BY <2>1, BijectionIs
<1>3. \A i, j \in D : i <= j => r[o[i]] <= r[o[j]]
  BY DEF Sortings
<1>4. q \in [E -> Int] /\ m \in E /\ (\A i \in E : q[i] <= q[m])
  OBVIOUS
<1>5. r = [i \in D |-> IF i = m THEN q[z] ELSE q[i]]
  OBVIOUS
<1> HIDE DEF z, D, E
<1>6. p[z] = m /\ \A i \in D : p[i] = IF o[i] = m THEN z ELSE o[i]
  BY <1>1
<1>7. p \in [E -> E]
  BY <1>1, <1>2, <1>4
<1> HIDE DEF p
<1>8. \A i, j \in E : p[i] = p[j] => i = j
  <2>1. \A i, j \in D : p[i] = p[j] => i = j
    <3> SUFFICES ASSUME NEW i \in D, NEW j \in D, p[i] = p[j] PROVE o[i] = o[j]
      BY <1>2
    <3>1. o[i] \in D /\ o[j] \in D /\ o[i] # z /\ o[j] # z
      BY <1>1, <1>2
    <3> QED
      BY <1>6, <3>1
  <2>2. \A i \in D : p[i] # m
    <3> SUFFICES ASSUME NEW i \in D, p[i] = m PROVE FALSE
      OBVIOUS
    <3>1. o[i] \in D /\ o[i] # z
      BY <1>1, <1>2
    <3>2. o[i] = m /\ z = m
      BY <1>6
    <3> QED
      BY <3>1, <3>2
  <2> QED
    BY <1>1, <1>6, <2>1, <2>2
<1>9. \A v \in E : \E i \in E : p[i] = v
  <2> SUFFICES ASSUME NEW v \in E PROVE \E i \in E : p[i] = v
    OBVIOUS
  <2>1. CASE v = m
    BY <1>1, <1>6, <2>1
  <2>2. CASE v # m /\ v = z
    <3>1. PICK i \in D : o[i] = m
      BY <1>1, <1>2, <1>4, <2>2
    <3> QED
      BY <1>1, <1>6, <2>2, <3>1
  <2>3. CASE v # m /\ v # z
    <3>1. PICK i \in D : o[i] = v
      BY <1>1, <1>2, <2>3
    <3> QED
      BY <1>1, <1>6, <2>3, <3>1
  <2> QED
    BY <2>1, <2>2, <2>3
<1>10. \A i, j \in E : i <= j => q[p[i]] <= q[p[j]]
  <2> SUFFICES ASSUME NEW i \in E, NEW j \in E, i <= j PROVE q[p[i]] <= q[p[j]]
    OBVIOUS
  <2>1. CASE j = z
    <3>1. p[i] \in E
      BY <1>7
    <3> QED
      BY <1>4, <1>6, <2>1, <3>1
  <2>2. CASE j # z
    <3>1. i \in D /\ j \in D
      BY <1>1, <2>2
    <3>2. ASSUME NEW a \in D PROVE q[p[a]] = r[o[a]]
      <4>1. o[a] \in D /\ p[a] = IF o[a] = m THEN z ELSE o[a]
        BY <1>2, <1>6
      <4> QED
        BY <1>5, <4>1
    <3> QED
      BY <1>3, <3>1, <3>2
  <2> QED
    BY <2>1, <2>2
<1>11. p \in Bijection(E, E)
  BY <1>7, <1>8, <1>9, BijectionIs
<1>12. p \in Sortings(q, z)
  BY <1>10, <1>11 DEF Sortings, E, z
<1> QED
  BY <1>12 DEF z

LEMMA SortingExists ==
    ASSUME NEW n, n \in Nat, NEW q, q \in [1 .. n -> Int]
    PROVE  Sortings(q, n) # {}
<1> DEFINE T == {k \in Nat : \A f \in [1 .. k -> Int] : Sortings(f, k) # {}}
<1>1. 0 \in T
  <2> SUFFICES ASSUME NEW f \in [1 .. 0 -> Int] PROVE Sortings(f, 0) # {}
    OBVIOUS
  <2>1. PICK S : S = 1 .. 0
    OBVIOUS
  <2>2. \A i \in S : FALSE
    BY <2>1
  <2> DEFINE p == [i \in S |-> i]
  <2>3. p \in Bijection(S, S)
    <3>1. p \in [S -> S] /\ (\A i, j \in S : p[i] = p[j] => i = j) /\ \A v \in S : \E i \in S : p[i] = v
      BY <2>2
    <3> HIDE DEF p
    <3> QED
      BY <3>1, BijectionIs
  <2>4. \A i, j \in S : i <= j => f[p[i]] <= f[p[j]]
    BY <2>2
  <2> HIDE DEF p
  <2> QED
    BY <2>1, <2>3, <2>4 DEF Sortings
<1>2. ASSUME NEW k \in T PROVE k + 1 \in T
  <2> SUFFICES ASSUME NEW f, f \in [1 .. k + 1 -> Int] PROVE Sortings(f, k + 1) # {}
    OBVIOUS
  <2>1. k \in Nat
    OBVIOUS
  <2>2. PICK m \in 1 .. k + 1 : \A i \in 1 .. k + 1 : f[i] <= f[m]
    BY <2>1, GreatestExists
  <2>3. PICK r : r = [i \in 1 .. k |-> IF i = m THEN f[k + 1] ELSE f[i]]
    OBVIOUS
  <2>4. r \in [1 .. k -> Int]
    BY <2>1, <2>3
  <2>5. PICK o : o \in Sortings(r, k)
    BY <2>4
  <2> HIDE DEF T
  <2> QED
    BY <2>1, <2>2, <2>3, <2>5, SortingGrows
<1>3. n \in T
  <2>1. T \in SUBSET Nat
    OBVIOUS
  <2> HIDE DEF T
  <2> QED
    BY <1>1, <1>2, <2>1, Inductive
<1> QED
  BY <1>3

\* The sorted copy of n numbers takes them in ascending order, each once.
LEMMA SortedIs ==
    ASSUME NEW n, n \in Nat, NEW q, q \in [1 .. n -> Int]
    PROVE  \E p \in Sortings(q, n) : Sorted(q) = [i \in 1 .. n |-> q[p[i]]]
<1> DEFINE p == CHOOSE p \in Bijection(1 .. n, 1 .. n) :
                   \A i, j \in 1 .. n : i <= j => q[p[i]] <= q[p[j]]
<1>1. \E o \in Bijection(1 .. n, 1 .. n) : \A i, j \in 1 .. n : i <= j => q[o[i]] <= q[o[j]]
  BY SortingExists DEF Sortings
<1>2. p \in Sortings(q, n)
  BY <1>1, Zenon DEF Sortings
<1>3. DOMAIN q = 1 .. n
  OBVIOUS
<1>4. Sorted(q) = [i \in 1 .. n |-> q[p[i]]]
  <2> DEFINE s(D) == LET o == CHOOSE o \in Bijection(D, D) : \A i, j \in D : i <= j => q[o[i]] <= q[o[j]]
                     IN [i \in D |-> q[o[i]]]
  <2>1. Sorted(q) = s(DOMAIN q)
    BY Zenon DEF Sorted
  <2>2. s(1 .. n) = [i \in 1 .. n |-> q[p[i]]]
    BY Zenon
  <2> HIDE DEF s, p
  <2> QED
    BY <1>3, <2>1, <2>2
<1> QED
  BY <1>2, <1>4

\* The places of the two middle ones among c numbers in order, or twice that of the one.
Middles(c, lo, hi) ==
    /\ c \in Nat /\ lo \in 1 .. c /\ hi \in 1 .. c /\ lo <= hi /\ hi <= lo + 1
    /\ 2 * lo >= c /\ 2 * ((c - hi) + 1) >= c /\ (lo = hi <=> c % 2 = 1)

\* g names the members of S in the order of their values.
Ranks(g, c, S, h) ==
    /\ g \in Bijection(1 .. c, S)
    /\ \A a, b \in 1 .. c : a <= b => h[g[a]] <= h[g[b]]

\* Of a set counted off in g, those counted from a to b are as many.
LEMMA CountedOff ==
    ASSUME NEW S, NEW c, c \in Nat, NEW g, g \in Bijection(1 .. c, S), IsFiniteSet(S),
           NEW a, a \in 1 .. c, NEW b, b \in 1 .. c, a <= b,
           NEW T, T \in SUBSET S, \A i \in a .. b : g[i] \in T
    PROVE  Cardinality(T) \in Nat /\ Cardinality(T) >= (b - a) + 1
<1> DEFINE D == 1 .. c
           R == a .. b
           e == [i \in R |-> g[i]]
<1>1. R \subseteq D /\ a \in Int /\ b \in Int
  OBVIOUS
<1>2. \A i, j \in D : g[i] = g[j] => i = j
  <2>1. g \in Bijection(D, S)
    OBVIOUS
  <2> HIDE DEF D
  <2> QED
    BY <2>1, BijectionIs
<1>3. IsFiniteSet(R) /\ Cardinality(R) = (b - a) + 1
  <2>1. IsFiniteSet(R) /\ Cardinality(R) = IF a > b THEN 0 ELSE b - a + 1
    BY <1>1, FS_Interval
  <2> HIDE DEF R
  <2>2. b - a + 1 = (b - a) + 1 /\ ~(a > b)
    BY <1>1
  <2> QED
    BY <2>1, <2>2
<1>4. \A i \in R : g[i] \in T
  OBVIOUS
<1> HIDE DEF R, D
<1>5. e \in Injection(R, T)
  BY <1>1, <1>2, <1>4 DEF Injection, IsInjective
<1>6. IsFiniteSet(T)
  BY FS_Subset
<1>7. Cardinality(R) <= Cardinality(T) /\ Cardinality(T) \in Nat
  BY <1>5, <1>6, FS_Injection, FS_CardinalityType
<1> QED
  BY <1>3, <1>7

LEMMA MiddleIs ==
    ASSUME NEW S, NEW c, NEW lo, NEW hi, Middles(c, lo, hi), \A k \in S : heard[k] \in Int,
           NEW g, Ranks(g, c, S, heard), IsFiniteSet(S), Cardinality(S) = c,
           NEW m, m = heard[g[lo]] + heard[g[hi]]
    PROVE  IsTwiceMedian(m, S)
<1> DEFINE D == 1 .. c
           i == g[lo]
           j == g[hi]
           L == {k \in S : heard[k] <= heard[i]}
           U == {k \in S : heard[k] >= heard[j]}
<1>1. /\ c \in Nat /\ lo \in D /\ hi \in D /\ lo <= hi /\ hi <= lo + 1
      /\ 2 * lo >= c /\ 2 * ((c - hi) + 1) >= c /\ (lo = hi <=> c % 2 = 1)
  BY DEF Middles
<1>2. g \in Bijection(D, S) /\ \A a, b \in D : a <= b => heard[g[a]] <= heard[g[b]]
  BY DEF Ranks
<1>a. /\ D \subseteq Int /\ 1 \in D /\ c \in D /\ (\A a \in 1 .. lo : a \in D /\ a <= lo)
      /\ (\A a \in hi .. c : a \in D /\ hi <= a) /\ (\A a \in D : a <= lo \/ a >= hi)
      /\ 1 <= lo /\ hi <= c /\ (lo - 1) + 1 = lo
  BY <1>1
<1> HIDE DEF D
<1>3. /\ g \in [D -> S] /\ (\A a, b \in D : g[a] = g[b] => a = b) /\ \A k \in S : \E a \in D : g[a] = k
  BY <1>2, BijectionIs
<1>4. i \in S /\ j \in S /\ heard[i] <= heard[j]
  BY <1>1, <1>2, <1>3
<1>5. \A k \in S : heard[k] <= heard[i] \/ heard[k] >= heard[j]
  <2> SUFFICES ASSUME NEW k \in S PROVE heard[k] <= heard[i] \/ heard[k] >= heard[j]
    OBVIOUS
  <2>1. PICK a \in D : g[a] = k
    BY <1>3
  <2>2. CASE a <= lo
    BY <1>1, <1>2, <2>1, <2>2
  <2>3. CASE a >= hi
    <3>1. heard[j] <= heard[k]
      <4>1. hi <= a
        BY <1>1, <1>a, <2>3
      <4> QED
        BY <1>1, <1>2, <2>1, <4>1
    <3> QED
      BY <1>4, <3>1
  <2> QED
    BY <1>a, <2>2, <2>3
<1>6. 2 * Cardinality(L) >= c
  <2>1. \A a \in 1 .. lo : g[a] \in L
    BY <1>1, <1>2, <1>3, <1>a
  <2>2. L \in SUBSET S
    OBVIOUS
  <2> HIDE DEF L, i, j
  <2>3. Cardinality(L) \in Nat /\ Cardinality(L) >= (lo - 1) + 1
    BY <1>1, <1>2, <1>a, <2>1, <2>2, CountedOff DEF D
  <2> QED
    BY <1>1, <1>a, <2>3
<1>7. 2 * Cardinality(U) >= c
  <2>1. \A a \in hi .. c : g[a] \in U
    <3> SUFFICES ASSUME NEW a \in hi .. c PROVE g[a] \in U
      OBVIOUS
    <3>1. g[a] \in S /\ heard[j] <= heard[g[a]]
      BY <1>1, <1>2, <1>3, <1>a
    <3>2. heard[g[a]] >= heard[j]
      BY <1>4, <3>1
    <3> QED
      BY <3>1, <3>2
  <2>2. U \in SUBSET S
    OBVIOUS
  <2> HIDE DEF U, i, j
  <2>3. Cardinality(U) \in Nat /\ Cardinality(U) >= (c - hi) + 1
    BY <1>1, <1>2, <1>a, <2>1, <2>2, CountedOff DEF D
  <2> QED
    BY <1>1, <1>a, <2>3 DEF D
<1>8. i = j <=> Cardinality(S) % 2 = 1
  BY <1>1, <1>3
<1>9. m = heard[i] + heard[j]
  OBVIOUS
<1> HIDE DEF i, j
<1> QED
  BY <1>4, <1>5, <1>6, <1>7, <1>8, <1>9, Zenon DEF IsTwiceMedian, L, U

TwiceMiddle(s, c) ==
    IF c % 2 = 0 THEN s[c \div 2] + s[(c \div 2) + 1] ELSE 2 * s[(c \div 2) + 1]

LEMMA MiddlesOf ==
    ASSUME NEW c, c \in Nat, c > 0
    PROVE  \E lo, hi \in 1 .. c : Middles(c, lo, hi) /\ \A s \in [1 .. c -> Int] : TwiceMiddle(s, c) = s[lo] + s[hi]
<1> DEFINE m == c \div 2
           r == c % 2
<1>1. m \in Nat /\ r \in {0, 1} /\ c = 2 * m + r
  OBVIOUS
<1>2. \A s : TwiceMiddle(s, c) = IF r = 0 THEN s[m] + s[m + 1] ELSE 2 * s[m + 1]
  BY DEF TwiceMiddle
<1>a. \A lo, hi \in 1 .. c : Middles(c, lo, hi) <=>
         /\ lo <= hi /\ hi <= lo + 1 /\ 2 * lo >= c /\ 2 * ((c - hi) + 1) >= c /\ (lo = hi <=> r = 1)
  BY DEF Middles
<1> HIDE DEF m, r
<1>3. CASE r = 0
  <2>1. m \in 1 .. c /\ m + 1 \in 1 .. c
    BY <1>1, <1>3
  <2> DEFINE z == m + 1
  <2>2. m <= z /\ z <= m + 1 /\ 2 * m >= c /\ 2 * ((c - z) + 1) >= c /\ m # z
    BY <1>1, <1>3
  <2> HIDE DEF z
  <2>3. Middles(c, m, z)
    BY <1>3, <1>a, <2>1, <2>2 DEF z
  <2>4. \A s \in [1 .. c -> Int] : TwiceMiddle(s, c) = s[m] + s[z]
    BY <1>2, <1>3 DEF z
  <2> QED
    BY <2>1, <2>3, <2>4 DEF z
<1>4. CASE r = 1
  <2> DEFINE z == m + 1
  <2>1. z \in 1 .. c
    BY <1>1, <1>4
  <2>2. z <= z /\ z <= z + 1 /\ 2 * z >= c /\ 2 * ((c - z) + 1) >= c
    BY <1>1, <1>4
  <2>3. \A s : TwiceMiddle(s, c) = 2 * s[z]
    BY <1>2, <1>4
  <2> HIDE DEF z
  <2>4. Middles(c, z, z)
    BY <1>4, <1>a, <2>1, <2>2
  <2>5. \A s \in [1 .. c -> Int] : 2 * s[z] = s[z] + s[z]
    BY <2>1
  <2> QED
    BY <2>1, <2>3, <2>4, <2>5
<1> QED
  BY <1>1, <1>3, <1>4

\* A sorted copy of the slots ranks the members of S they stand for.
LEMMA RanksExist ==
    ASSUME NEW c, c \in Nat, NEW S, NEW q, NEW h, NEW p, p \in Sortings(q, c),
           NEW s, s \in Bijection(S, 1 .. c), \A m \in S : q[s[m]] = h[m]
    PROVE  \E g : Ranks(g, c, S, h) /\ \A a \in 1 .. c : h[g[a]] = q[p[a]]
<1> DEFINE D == 1 .. c
           g == [a \in D |-> CHOOSE m \in S : s[m] = p[a]]
<1>1. p \in Bijection(D, D) /\ \A a, b \in D : a <= b => q[p[a]] <= q[p[b]]
  BY DEF Sortings
<1>a. s \in Bijection(S, D)
  OBVIOUS
<1> HIDE DEF D
<1>2. /\ p \in [D -> D] /\ (\A a, b \in D : p[a] = p[b] => a = b) /\ \A v \in D : \E a \in D : p[a] = v
  BY <1>1, BijectionIs
<1>3. /\ s \in [S -> D] /\ (\A a, b \in S : s[a] = s[b] => a = b) /\ \A v \in D : \E a \in S : s[a] = v
  BY <1>a, BijectionIs
<1>4. \A a \in D : g[a] \in S /\ s[g[a]] = p[a]
  <2> SUFFICES ASSUME NEW a \in D PROVE g[a] \in S /\ s[g[a]] = p[a]
    OBVIOUS
  <2>1. \E m \in S : s[m] = p[a]
    BY <1>2, <1>3
  <2>2. g[a] = CHOOSE m \in S : s[m] = p[a]
    OBVIOUS
  <2> QED
    BY <2>1, <2>2, Zenon
<1>5. g \in [D -> S]
  <2>1. \A a \in D : (CHOOSE m \in S : s[m] = p[a]) \in S
    BY <1>4
  <2> QED
    BY <2>1
<1> HIDE DEF g
<1>6. \A a, b \in D : g[a] = g[b] => a = b
  BY <1>2, <1>4
<1>7. \A m \in S : \E a \in D : g[a] = m
  <2> SUFFICES ASSUME NEW m \in S PROVE \E a \in D : g[a] = m
    OBVIOUS
  <2>1. s[m] \in D
    BY <1>3
  <2>2. PICK a \in D : p[a] = s[m]
    BY <1>2, <2>1
  <2> QED
    BY <1>3, <1>4, <2>2
<1>8. \A a \in D : h[g[a]] = q[p[a]]
  BY <1>4
<1>9. g \in Bijection(D, S)
  BY <1>5, <1>6, <1>7, BijectionIs
<1>10. \A a, b \in D : a <= b => h[g[a]] <= h[g[b]]
  BY <1>1, <1>8
<1> QED
  BY <1>8, <1>9, <1>10 DEF Ranks, D

\* The last indices up to k, as many as a ring of n slots has of them, and their slots.
Recents(k, n, c, S, s) ==
    /\ k \in Nat /\ n \in Nat /\ n > 0 /\ c = (IF k < n THEN k ELSE n)
    /\ S = (k - c) + 1 .. k
    /\ s = [m \in S |-> ((m - 1) % n) + 1]

\* Each of them has a slot of its own.
LEMMA SlotsOfRecent ==
    ASSUME NEW k, NEW n, NEW c, NEW S, NEW s, Recents(k, n, c, S, s)
    PROVE  IsFiniteSet(S) /\ Cardinality(S) = c /\ s \in Bijection(S, 1 .. c)
<1> DEFINE D == 1 .. c
           e == (k - c) + 1
<1>0. /\ k \in Nat /\ n \in Nat /\ n > 0 /\ c = (IF k < n THEN k ELSE n)
      /\ S = e .. k /\ s = [m \in S |-> ((m - 1) % n) + 1]
  BY DEF Recents
<1>1. c \in Nat /\ c <= n /\ c <= k /\ e \in Int /\ k \in Int
  BY <1>0
<1>2. IsFiniteSet(S) /\ Cardinality(S) = c
  <2>1. IsFiniteSet(e .. k) /\ Cardinality(e .. k) = IF e > k THEN 0 ELSE k - e + 1
    BY <1>0, <1>1, FS_Interval
  <2>2. c = IF e > k THEN 0 ELSE k - e + 1
    BY <1>0, <1>1
  <2> QED
    BY <1>0, <2>1, <2>2
<1>3. IsFiniteSet(D) /\ Cardinality(D) = c
  <2>1. 1 \in Int /\ c \in Int /\ c = IF 1 > c THEN 0 ELSE c - 1 + 1
    BY <1>0, <1>1
  <2>2. IsFiniteSet(1 .. c) /\ Cardinality(1 .. c) = IF 1 > c THEN 0 ELSE c - 1 + 1
    BY <2>1, FS_Interval
  <2> QED
    BY <2>1, <2>2
<1>4. ASSUME NEW m, m \in S PROVE s[m] = ((m - 1) % n) + 1 /\ s[m] \in D /\ m \in Int /\ m - 1 \in Int /\ (m - 1) % n \in Int
  <2> DEFINE i == m - 1
  <2>1. i \in Int /\ 0 <= i /\ i < k /\ m \in Int
    BY <1>0, <1>1, <1>4
  <2>2. s[m] = (i % n) + 1
    BY <1>0, <1>4
  <2> HIDE DEF i
  <2>3. i % n \in Int /\ 0 <= i % n /\ i % n < n
    BY <1>0, <2>1, Remainder
  <2>4. CASE k < n
    <3>1. i \in 0 .. n - 1 /\ n * 0 + i = i
      BY <1>0, <2>1, <2>4
    <3>2. (n * 0 + i) % n = i
      BY <1>0, <3>1, 0 \in Int, Unique
    <3> QED
      BY <1>0, <2>1, <2>2, <2>3, <2>4, <3>1, <3>2 DEF i
  <2>5. CASE ~(k < n)
    BY <1>0, <2>1, <2>2, <2>3, <2>5 DEF i
  <2> QED
    BY <2>4, <2>5
<1>5. ASSUME NEW a, a \in S, NEW b, b \in S, s[a] = s[b] PROVE a = b
  <2> DEFINE i == a - 1
             j == b - 1
  <2>1. i \in Int /\ j \in Int /\ i < j + n /\ j < i + n /\ (i = j => a = b)
    BY <1>0, <1>1, <1>4, <1>5
  <2>2. i % n = j % n
    <3> DEFINE x == i % n
               y == j % n
    <3>1. s[a] = x + 1 /\ s[b] = y + 1 /\ x \in Int /\ y \in Int /\ s[a] = s[b]
      BY <1>0, <1>4, <1>5
    <3> HIDE DEF x, y
    <3>2. x = y
      BY <3>1
    <3> QED
      BY <3>2 DEF x, y
  <2> HIDE DEF i, j
  <2>3. ~(i < j) /\ ~(j < i)
    BY <1>0, <2>1, <2>2, RemaindersDiffer
  <2> QED
    BY <2>1, <2>3
<1> HIDE DEF D
<1>6. s \in [S -> D]
  BY <1>0, <1>4
<1>7. s \in Injection(S, D)
  <2>1. DOMAIN s = S /\ \A a, b \in S : s[a] = s[b] => a = b
    BY <1>5, <1>6
  <2> QED
    BY <1>6, <2>1, Zenon DEF Injection, IsInjective
<1>8. s \in Surjection(S, D)
  BY <1>2, <1>3, <1>7, FS_Injection
<1> QED
  BY <1>2, <1>7, <1>8 DEF Bijection, D

MedianBlocks ==
    [kind : {"median"}, n : 1 .. Capacity, buffer : [0 .. Capacity - 1 -> Int], idx : Int, count : Nat]

\* What the filter copies to sort.
Copied(b) == [i \in 1 .. b.count |-> b.buffer[i - 1]]

\* A median's ring holds its last n samples, of which it sorts those it has seen.
MedianAt(b, y, k, f) ==
    /\ b.idx = k % b.n
    /\ b.count = IF k < b.n THEN k ELSE b.n
    /\ RingHolds(b.buffer, b.n, k, f)
    /\ k > 0 => y = TwiceMiddle(Sorted(Copied(b)), b.count)

MedianAnswers(o, k, g) == o.block \in MedianBlocks /\ MedianAt(o.block, o.out, k + 1, g)

LEMMA MedianFresh ==
    ASSUME NEW w, w \in 0 .. Capacity + 1, NEW y
    PROVE  Median(w) \in MedianBlocks /\ MedianAt(Median(w), y, 0, PastOf(<<>>))
<1> DEFINE b == Median(w)
           f == PastOf(<<>>)
           n == Window(w)
           C == Capacity
<1>1. n \in Nat \ {0} /\ n \in Nat /\ n > 0 /\ n \in 1 .. C /\ C \in Nat /\ n <= C
  BY WindowsAssumption DEF Window
<1>2. b = [kind |-> "median", n |-> n, buffer |-> Zeros(C), idx |-> 0, count |-> 0]
  BY DEF Median
<1> HIDE DEF b, n, f
<1>3. RingHolds(Zeros(C), n, 0, f) /\ Zeros(C) \in [0 .. C - 1 -> Int]
  <2> HIDE DEF C
  <2> QED
    BY <1>1, EmptyRing DEF f
<1>4. b \in MedianBlocks /\ b.idx = 0 /\ b.n = n /\ b.buffer = Zeros(C) /\ b.count = 0
  BY <1>1, <1>2, <1>3 DEF MedianBlocks
<1>5. 0 % n = 0 /\ 0 < n
  BY <1>1
<1> QED
  BY <1>3, <1>4, <1>5 DEF MedianAt, b, f

LEMMA MedianTicks ==
    ASSUME NEW b, b \in MedianBlocks, NEW y, NEW k, NEW f, MedianAt(b, y, k, f),
           NEW g, NEW u, GoesOn(f, g, k, u), NEW o, o \in MedianTick(b, u)
    PROVE  MedianAnswers(o, k, g)
<1> DEFINE n    == b.n
           C    == Capacity
           old  == b.buffer
           x    == b.idx
           was  == b.count
           ring == [old EXCEPT ![x] = u]
           i    == (x + 1) % n
           c    == IF was < n THEN was + 1 ELSE was
           q    == [j \in 1 .. c |-> ring[j - 1]]
           z    == TwiceMiddle(Sorted(q), c)
<1>1. /\ C \in Nat /\ n \in Nat /\ n > 0 /\ n <= C /\ n \in 1 .. C
      /\ old \in [0 .. C - 1 -> Int] /\ x \in Int /\ was \in Nat
  BY WindowsAssumption DEF MedianBlocks
<1>2. x = k % n /\ RingHolds(old, n, k, f) /\ was = IF k < n THEN k ELSE n
  BY DEF MedianAt
<1>3. k \in Nat
  BY DEF GoesOn
<1>4. o.block = [b EXCEPT !.buffer = ring, !.idx = i, !.count = c] /\ o.out = z
  <2>1. MedianTick(b, u) = {[block |-> [b EXCEPT !.buffer = ring, !.idx = i, !.count = c], out |-> z]}
    BY Zenon DEF MedianTick, TwiceMiddle
  <2> HIDE DEF ring, i, c, z
  <2> QED
    BY <2>1
<1> HIDE DEF n, old, x, was, C
<1>5. /\ ring \in [0 .. C - 1 -> Int] /\ RingHolds(ring, n, k + 1, g)
      /\ i = (k + 1) % n /\ i \in 0 .. n - 1
  BY <1>1, <1>2, RingGoesOn DEF C
<1>6. c \in Nat /\ c = IF k + 1 < n THEN k + 1 ELSE n
  BY <1>1, <1>2, <1>3
<1>7. i \in Int
  <2> HIDE DEF i
  <2> QED
    BY <1>1, <1>5
<1> HIDE DEF ring, i, c, z
<1>8. /\ o.block \in MedianBlocks /\ o.block.n = n /\ o.block.buffer = ring /\ o.block.idx = i
      /\ o.block.count = c
  <2> DEFINE b1 == [b EXCEPT !.buffer = ring]
             b2 == [b1 EXCEPT !.idx = i]
             b3 == [b2 EXCEPT !.count = c]
  <2>1. [b EXCEPT !.buffer = ring, !.idx = i, !.count = c]
           = [[[b EXCEPT !.buffer = ring] EXCEPT !.idx = i] EXCEPT !.count = c]
    OBVIOUS
  <2>2. b1 \in MedianBlocks /\ b1.n = n /\ b1.buffer = ring
    BY <1>5 DEF MedianBlocks, n, C
  <2> HIDE DEF b1
  <2>3. b2 \in MedianBlocks /\ b2.n = n /\ b2.buffer = ring /\ b2.idx = i
    BY <1>7, <2>2 DEF MedianBlocks
  <2> HIDE DEF b2
  <2>4. b3 \in MedianBlocks /\ b3.n = n /\ b3.buffer = ring /\ b3.idx = i /\ b3.count = c
    BY <1>6, <2>3 DEF MedianBlocks
  <2>5. o.block = b3
    BY <1>4, <2>1 DEF b1, b2
  <2> HIDE DEF b3
  <2> QED
    BY <2>4, <2>5
<1> DEFINE a == o.block
           v == o.out
<1>9. v = TwiceMiddle(Sorted([j \in 1 .. c |-> ring[j - 1]]), c)
  BY <1>4 DEF z
<1>10. /\ a \in MedianBlocks /\ a.idx = (k + 1) % a.n /\ RingHolds(a.buffer, a.n, k + 1, g)
       /\ a.count = (IF k + 1 < a.n THEN k + 1 ELSE a.n)
       /\ a.count = c /\ a.buffer = ring
  BY <1>5, <1>6, <1>8
<1> HIDE DEF a, v
<1>11. v = TwiceMiddle(Sorted(Copied(a)), a.count)
  BY <1>9, <1>10, Zenon DEF Copied
<1>12. MedianAt(a, v, k + 1, g)
  BY <1>10, <1>11, Zenon DEF MedianAt
<1> QED
  BY <1>10, <1>12 DEF MedianAnswers, a, v

\* A median of any window.
MedianFollows ==
    block.kind = "median" =>
        block \in MedianBlocks /\ heard \in Seq(Int) /\ MedianAt(block, out, Len(heard), PastOf(heard))

LEMMA MedianFirst == PathInit => MedianFollows
<1> SUFFICES ASSUME PathInit, block.kind = "median" PROVE MedianFollows
  BY DEF MedianFollows
<1>1. PICK w \in 0 .. Capacity + 1 : block = Median(w)
  BY FirstBlock
<1>2. heard = <<>> /\ <<>> \in Seq(Int) /\ Len(<<>>) = 0
  BY DEF PathInit
<1> QED
  BY <1>1, <1>2, MedianFresh DEF MedianFollows

LEMMA MedianStep == HasKind /\ MedianFollows /\ [PathNext]_path => MedianFollows'
<1> SUFFICES ASSUME HasKind, MedianFollows, [PathNext]_path, block'.kind = "median"
             PROVE  MedianFollows'
  BY DEF MedianFollows
<1>1. block.kind = "median"
  BY KindStays
<1>2. block \in MedianBlocks /\ heard \in Seq(Int) /\ MedianAt(block, out, Len(heard), PastOf(heard))
  BY <1>1 DEF MedianFollows
<1>3. CASE Tick
  <2>1. PICK u \in Samples : Hear(MedianTick(block, u), u)
    BY <1>1, <1>3 DEF Tick, TickOf
  <2>2. PICK o \in MedianTick(block, u) : block' = o.block /\ out' = o.out
    BY <2>1 DEF Hear
  <2>3. heard' = Append(heard, u) /\ u \in Int
    BY <2>1, SignalPathAssumption DEF Hear
  <2>4. PICK k \in Nat : k = Len(heard)
    BY <1>2
  <2>5. PICK f, g : f = PastOf(heard) /\ g = PastOf(heard')
    OBVIOUS
  <2>6. heard' \in Seq(Int) /\ Len(heard') = k + 1 /\ GoesOn(f, g, k, u)
    BY <1>2, <2>3, <2>4, <2>5, SignalGrows
  <2>7. MedianAnswers(o, k, g)
    BY <1>2, <2>2, <2>4, <2>5, <2>6, MedianTicks
  <2> QED
    BY <2>2, <2>5, <2>6, <2>7 DEF MedianFollows, MedianAnswers
<1>4. CASE PathReset
  <2>1. heard' = <<>> /\ <<>> \in Seq(Int) /\ Len(<<>>) = 0
    BY <1>4 DEF PathReset
  <2>2. PICK w \in {block.n} \cup 0 .. Capacity + 1 : block' = Median(w)
    BY <1>1, <1>4 DEF PathReset, Fresh
  <2>3. w \in 0 .. Capacity + 1
    BY <1>2, WindowsAssumption DEF MedianBlocks
  <2> QED
    BY <2>1, <2>2, <2>3, MedianFresh DEF MedianFollows
<1>5. CASE UNCHANGED path
  BY <1>5 DEF path, MedianFollows
<1> QED
  BY <1>1, <1>3, <1>4, <1>5 DEF PathNext, TickMonitor, TickMhe, TickSlew, TickPair

LEMMA FollowingIsMedian == MedianFollows /\ heard # <<>> => MedianExact
<1> DEFINE n == block.n
           c == block.count
           k == Len(heard)
           S == (k - c) + 1 .. k
           f == PastOf(heard)
           q == Copied(block)
           s == [m \in S |-> ((m - 1) % n) + 1]
<1> SUFFICES ASSUME MedianFollows, heard # <<>>, block.kind = "median"
             PROVE  IsTwiceMedian(out, Recent(n))
  BY DEF MedianExact
<1>1. /\ block \in MedianBlocks /\ heard \in Seq(Int) /\ c = (IF k < n THEN k ELSE n)
      /\ RingHolds(block.buffer, n, k, f) /\ (k > 0 => out = TwiceMiddle(Sorted(q), c))
  BY DEF MedianFollows, MedianAt
<1>2. /\ n \in Nat /\ n > 0 /\ n <= Capacity /\ Capacity \in Nat /\ k \in Nat /\ k > 0 /\ c \in Nat /\ c <= n
      /\ block.buffer \in [0 .. Capacity - 1 -> Int] /\ q = [i \in 1 .. c |-> block.buffer[i - 1]]
  BY <1>1, WindowsAssumption DEF MedianBlocks, Copied
<1> HIDE DEF n, c, q
<1>3. c > 0 /\ S = Recent(n)
  BY <1>1, <1>2 DEF Recent
<1>4. q \in [1 .. c -> Int]
  BY <1>2
<1>5. IsFiniteSet(S) /\ Cardinality(S) = c /\ s \in Bijection(S, 1 .. c)
  <2>1. k \in Nat /\ n \in Nat /\ n > 0 /\ c = (IF k < n THEN k ELSE n)
    BY <1>1, <1>2
  <2>2. S = (k - c) + 1 .. k /\ s = [m \in S |-> ((m - 1) % n) + 1]
    OBVIOUS
  <2> HIDE DEF k, S, s
  <2>3. Recents(k, n, c, S, s)
    BY <2>1, <2>2 DEF Recents
  <2> QED
    BY <2>3, SlotsOfRecent
<1>6. \A m \in S : heard[m] \in Int /\ q[s[m]] = heard[m]
  <2> SUFFICES ASSUME NEW m, m \in S PROVE heard[m] \in Int /\ q[s[m]] = heard[m]
    OBVIOUS
  <2>1. m \in 1 .. k /\ m \in (k - n) + 1 .. k /\ m - 1 \in Int
    BY <1>1, <1>2
  <2>2. heard[m] \in Int /\ f[m] = heard[m]
    BY <1>1, <2>1 DEF PastOf
  <2>3. block.buffer[(m - 1) % n] = f[m]
    BY <1>1, <2>1 DEF RingHolds
  <2>4. s[m] = ((m - 1) % n) + 1 /\ s[m] \in 1 .. c
    <3>1. s \in [S -> 1 .. c]
      <4> HIDE DEF s, S
      <4> QED
        BY <1>5, BijectionIs
    <3> QED
      BY <3>1
  <2>5. (m - 1) % n \in Int
    BY <1>2, <2>1, Remainder
  <2> DEFINE r == (m - 1) % n
  <2> HIDE DEF s, S, f, r
  <2>6. s[m] - 1 = r
    BY <2>4, <2>5 DEF r
  <2> QED
    BY <1>2, <2>2, <2>3, <2>4, <2>6 DEF r
<1> HIDE DEF S, s, f
<1> HIDE DEF k
<1>a. c \in Nat
  BY <1>2
<1>7. PICK p \in Sortings(q, c) : Sorted(q) = [i \in 1 .. c |-> q[p[i]]]
  BY <1>4, <1>a, SortedIs
<1>8. PICK g : Ranks(g, c, S, heard) /\ \A a \in 1 .. c : heard[g[a]] = q[p[a]]
  <2>1. \A m \in S : q[s[m]] = heard[m]
    BY <1>6
  <2>2. s \in Bijection(S, 1 .. c) /\ p \in Sortings(q, c)
    BY <1>5, <1>7
  <2> QED
    BY <1>a, <2>1, <2>2, RanksExist
<1>9. PICK lo, hi \in 1 .. c : Middles(c, lo, hi) /\ \A v \in [1 .. c -> Int] : TwiceMiddle(v, c) = v[lo] + v[hi]
  BY <1>2, <1>3, MiddlesOf
<1>10. Sorted(q) \in [1 .. c -> Int]
  <2>1. \A i \in 1 .. c : p[i] \in 1 .. c
    <3>1. p \in Bijection(1 .. c, 1 .. c)
      BY DEF Sortings
    <3> DEFINE D == 1 .. c
    <3> HIDE DEF D
    <3>2. p \in [D -> D]
      BY <3>1, BijectionIs DEF D
    <3>3. \A i \in D : p[i] \in D
      BY <3>2
    <3> QED
      BY <3>3 DEF D
  <2> QED
    BY <1>4, <1>7, <2>1
<1>11. out = heard[g[lo]] + heard[g[hi]]
  <2>1. out = Sorted(q)[lo] + Sorted(q)[hi]
    BY <1>1, <1>2, <1>9, <1>10
  <2>2. Sorted(q)[lo] = heard[g[lo]] /\ Sorted(q)[hi] = heard[g[hi]]
    BY <1>7, <1>8
  <2> QED
    BY <2>1, <2>2
<1>12. IsTwiceMedian(out, S)
  BY <1>5, <1>6, <1>8, <1>9, <1>11, MiddleIs
<1> QED
  BY <1>3, <1>12

-----------------------------------------------------------------------------
\* Whatever the capacity, the windows, delays and periods, the samples and the resets
\* between them: an average, a median, a delay and a repetitive correction are each what
\* their definitions on the whole history say (MovingAverage, MedianFilter, Delay and
\* RepetitiveController of filters/ and controllers/).
THEOREM WindowsAreExact == PathSpec => []WindowsExact
<1> DEFINE I == HasKind /\ DelayFollows /\ AverageFollows /\ RepetitiveFollows /\ MedianFollows
<1>1. PathInit => I
  BY FirstBlock, DelayFirst, AverageFirst, RepetitiveFirst, MedianFirst
<1>2. I /\ [PathNext]_path => I'
  BY KindStays, DelayStep, AverageStep, RepetitiveStep, MedianStep
<1>3. I => WindowsExact
  BY FollowingIsDelayed, FollowingIsAverage, FollowingIsRepetitive, FollowingIsMedian DEF WindowsExact
<1> QED
  BY <1>1, <1>2, <1>3, PTL DEF PathSpec
=============================================================================
