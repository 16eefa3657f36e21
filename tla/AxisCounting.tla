---------------------------- MODULE AxisCounting ----------------------------
(***************************************************************************)
(* Counting the position of an axis, src/inc/damp/encoder/: three          *)
(* QuadratureDecoders (X1, X2, X4) on one pair of A/B lines, a consumer    *)
(* that extends the X4 count with wrapped_delta(), combine_quadrature() of *)
(* that count and the fine sin/cos phase, a PhaseUnwrapper on the phase    *)
(* alone, and the circular distances of AxisPosition.                      *)
(*                                                                         *)
(* Positions are integers in sixteenths of a period, so a quarter (one     *)
(* edge of A or B) is 4.  The comparators that make the lines switch up to *)
(* Lags off the true position.                                             *)
(***************************************************************************)
EXTENDS Integers, Sequences

CONSTANTS
    Moves,     \* what the axis moves between two samples
    Lags,      \* comparator errors, early (> 0) or late (< 0)
    HalfRange, \* half the range of the position counter (2^31 in the code)
    Wraps,     \* periods of circular positions
    Span       \* bound on the travel from the origin, and on the count

Period == 16
PerQuarter == 4
Modes == {"X1", "X2", "X4"}

\* "up to +-3/8 period"; the unwrapper wants less than half a period a sample.
ASSUME AxisAssumption ==
    /\ Moves \subseteq -7 .. 7
    /\ Lags \subseteq -6 .. 5
    /\ HalfRange \in Nat \ {0}
    /\ Wraps \subseteq Nat \ {0}
    /\ Span \in Nat

VARIABLES
    axis,      \* the true position
    count,     \* of each decoder: its signed position
    prev,      \* of all three: the A/B lines they saw last, 2 * A + B
    read,      \* the X4 count the consumer read last
    total,     \* the consumer's extended count
    turns,     \* the unwrapper's position
    quarter,   \* history: the quarter the lines showed at the last sample
    missed     \* history: two edges in one sample, since the decoder's zero

vars == <<axis, count, prev, read, total, turns, quarter, missed>>

-----------------------------------------------------------------------------
(* Integers of the counter's width.                                        *)

Unsigned(i) == i % (2 * HalfRange)

Signed(i) == ((i + HalfRange) % (2 * HalfRange)) - HalfRange

\* wrapped_delta()
Delta(from, to) == Signed(Unsigned(to) - Unsigned(from))

-----------------------------------------------------------------------------
(* QuadratureDecoder::update(a, b)                                         *)

\* The lines in quarter q of a period: B leads A.
Lines(q) == <<0, 1, 3, 2>>[1 + (q % 4)]

\* kTransition
Transition ==
    << 0,  1, -1,  0,
      -1,  0,  0,  1,
       1,  0,  0, -1,
       0, -1,  1,  0>>

Direction(lines) == Transition[1 + 4 * prev + lines]

AChanged(lines) == prev \div 2 # lines \div 2

\* Mutant of Counts: X1 counts the rising edges of A, in either direction.
CountsRisingOnly(mode, lines) ==
    CASE mode = "X4" -> TRUE
      [] mode = "X2" -> AChanged(lines)
      [] mode = "X1" -> AChanged(lines) /\ lines \div 2 = 1

\* X1 counts one physical edge of A: forward on its rise, reverse on its fall.
Counts(mode, lines) ==
    CASE mode = "X4" -> TRUE
      [] mode = "X2" -> AChanged(lines)
      [] mode = "X1" -> AChanged(lines) /\ (Direction(lines) > 0 <=> lines \div 2 = 1)

Updated(lines) ==
    [m \in Modes |->
        IF Counts(m, lines) THEN Signed(count[m] + Direction(lines)) ELSE count[m]]

-----------------------------------------------------------------------------
(* The fine phase, and what is made of it.                                 *)

\* damp::wrap to -1/2 .. 1/2 of a period
Wrap(p) == ((p + Period \div 2) % Period) - Period \div 2

\* C++ integer division truncates: the remainder has the sign of the dividend.
Rem(a, b) == IF a >= 0 THEN a % b ELSE -((-a) % b)

\* A SplitReal, normalized: the fraction is in -1/2 .. 1/2.
Split(whole, frac) ==
    LET rest == Rem(frac, Period)
        fold == CASE 2 * rest >= Period -> 1
                  [] 2 * rest < -Period -> -1
                  [] OTHER              -> 0
    IN [whole |-> whole + (frac - rest) \div Period + fold, frac |-> rest - Period * fold]

Value(s) == Period * s.whole + s.frac

\* Mutant of Combine: no allowance for the lag of the count behind the position.
CombineHalf(q, frac) ==
    Split(q \div 4 + (PerQuarter * (q % 4) - frac + 8) \div Period, frac)

\* combine_quadrature(): 5/8 of a period is 10.
Combine(q, frac) ==
    Split(q \div 4 + (PerQuarter * (q % 4) - frac + 10) \div Period, frac)

\* PhaseUnwrapper::update(frac)
Unwrapped(frac) == Split(turns.whole, turns.frac + Wrap(frac - turns.frac))

\* Mutant of Circular: the whole wraps are removed, the fractions are not folded.
CircularWholeOnly(whole, frac, wrap) ==
    LET rem == Rem(whole, wrap)
        r == CASE rem > wrap \div 2    -> rem - wrap
               [] rem < -(wrap \div 2) -> rem + wrap
               [] OTHER                -> rem
    IN Period * r + frac

\* AxisPosition::wrapped(): whole + frac / Period, modulo wrap, in sixteenths.
Circular(whole, frac, wrap) ==
    LET rem == Rem(whole, wrap)
        r == CASE rem > wrap \div 2    -> rem - wrap
               [] rem < -(wrap \div 2) -> rem + wrap
               [] OTHER                -> rem
        x == Period * r + frac
        circle == Period * wrap
    IN x - circle * ((2 * x + circle) \div (2 * circle))

\* distance_to(target, wrap_counts)
CircularDistance(from, to, wrap) ==
    Circular(to.whole - from.whole, to.frac - from.frac, wrap)

-----------------------------------------------------------------------------
Init ==
    /\ axis = 0 /\ quarter = 0
    /\ count = [m \in Modes |-> 0] /\ prev = 0
    /\ read = 0 /\ total = 0 /\ turns = Split(0, 0)
    /\ missed = FALSE

\* The consumer keeps up: the lines move less than half the counter's range
\* between two of its readings.
KeepsUp(q) == q - total < HalfRange /\ total - q < HalfRange

\* One sample of the lines and of the phase, at a comparator error of lag.
Sample(move, lag) ==
    LET p == axis + move
        q == (p + lag) \div PerQuarter
    IN /\ p \in -Span .. Span
       /\ missed \/ KeepsUp(q)
       /\ axis' = p /\ quarter' = q
       /\ count' = Updated(Lines(q))
       /\ prev' = Lines(q)
       /\ turns' = Unwrapped(Wrap(p))
       /\ missed' = (missed \/ q - quarter \notin -1 .. 1)
       /\ UNCHANGED <<read, total>>

\* The consumer reads the X4 count.
Read ==
    /\ total' = total + Delta(read, count["X4"])
    /\ read' = count["X4"]
    /\ total' \in -Span .. Span
    /\ UNCHANGED <<axis, count, prev, turns, quarter, missed>>

\* index(TRUE), on a mark one quarter wide where the phase is 0: the origin moves to
\* this period, and the consumers start from it.
Index ==
    /\ quarter % 4 = 0
    /\ count' = [m \in Modes |-> 0]
    /\ axis' = axis - PerQuarter * quarter /\ turns' = Split(0, axis')
    /\ quarter' = 0 /\ missed' = FALSE
    /\ read' = 0 /\ total' = 0
    /\ UNCHANGED prev

\* reset(), wherever the axis is: the decoders take the lines for those of phase 0.
Reset ==
    /\ count' = [m \in Modes |-> 0] /\ prev' = 0
    /\ axis' = Wrap(axis) /\ turns' = Split(0, axis')
    /\ quarter' = 0 /\ missed' = FALSE
    /\ read' = 0 /\ total' = 0

Next ==
    \/ \E move \in Moves, lag \in Lags : Sample(move, lag)
    \/ Read \/ Index \/ Reset

Spec == Init /\ [][Next]_vars

-----------------------------------------------------------------------------
(***************************************************************************)
(* Properties                                                              *)
(***************************************************************************)

TypeOK ==
    /\ axis \in Int /\ total \in Int /\ quarter \in Int
    /\ turns.whole \in Int /\ 2 * turns.frac \in -Period .. Period - 1
    /\ count \in [Modes -> -HalfRange .. HalfRange - 1]
    /\ read \in -HalfRange .. HalfRange - 1
    /\ prev \in 0 .. 3 /\ missed \in BOOLEAN

\* The edges a decoder counts between the origin and quarter q.
Edges(mode, q) ==
    CASE mode = "X4" -> q [] mode = "X2" -> q \div 2 [] mode = "X1" -> (q + 2) \div 4

\* "Dithering across one edge cannot accumulate counts": as long as no edge was
\* missed, every decoder's count is a function of where the lines are, however the
\* axis got there.  A missed sample costs X4 an even number of edges.
CountsTruth ==
    /\ ~missed => \A m \in Modes : count[m] = Signed(Edges(m, quarter))
    /\ (count["X4"] - quarter) % 2 = 0

\* The decoders have seen the lines of this position (not so right after a reset()).
InStep == \E lag \in Lags : quarter = (axis + lag) \div PerQuarter

\* The positions made of the count are the true one: after a reading, the consumer's
\* count and the fine phase give the exact position over any number of rollovers of
\* the counter and with edges up to 3/8 period early or late; and so does the
\* unwrapped phase.
AbsoluteIsTruth ==
    /\ ~missed /\ InStep /\ read = count["X4"] => Value(Combine(total, Wrap(axis))) = axis
    /\ Value(turns) = axis

\* The circular distance to any position is the shortest way there, whatever the
\* sign of the counts.
ShortestWay ==
    \A wrap \in Wraps, to \in {0, -axis, 7 - PerQuarter * total} :
        LET d == CircularDistance(turns, Split(0, to), wrap)
        IN /\ 2 * d \in -(Period * wrap) .. Period * wrap
           /\ (axis + d - to) % (Period * wrap) = 0
=============================================================================
