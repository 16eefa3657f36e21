------------------------------ MODULE SignalPath ------------------------------
(***************************************************************************)
(* The sampled blocks of a signal path: a behaviour is the life of one     *)
(* block, a ring-buffer block of Windows or a conditioner of Conditioning, *)
(* constructed in any of its configurations, ticked with any samples and   *)
(* reset or reconfigured between any two of them.  Each is compared with   *)
(* its definition on the whole history of its samples, which knows of no   *)
(* ring, running sum or latch.                                             *)
(***************************************************************************)
EXTENDS Windows, Conditioning

CONSTANTS
    Samples,    \* what a window, Schmitt trigger or predictor may be fed
    Readings,   \* raw analog readings
    Intervals,  \* what dt a slew limiter may be called with
    MaxHeard    \* a block hears this many samples between two resets

ASSUME SignalPathAssumption ==
    Samples \cup Readings \cup Intervals \subseteq Int /\ MaxHeard \in Nat

VARIABLES
    block,   \* the block: a record of its kind and fields
    out,     \* what its last tick returned
    heard    \* history: its samples since it was last reset

path == <<block, out, heard>>

Blocks ==
    {Average(w) : w \in 0 .. Capacity + 1} \cup {Median(w) : w \in 0 .. Capacity + 1}
    \cup {Delay(d) : d \in 0 .. Capacity + 1}
    \cup {Repetitive(p) : p \in QHalf + Lead + 1 .. Capacity}
    \cup {Smith(d) : d \in 0 .. Capacity} \cup {Mhe(v) : v \in BOOLEAN}
    \cup {Slew, Schmitt} \cup {Monitor(m) : m \in Margins}
    \cup {Pair(m, o) : m \in Margins, o \in BOOLEAN}

PathInit == block \in Blocks /\ out = 0 /\ heard = <<>>

Hear(outcomes, sample) ==
    /\ Len(heard) < MaxHeard
    /\ \E o \in outcomes : block' = o.block /\ out' = o.out
    /\ heard' = Append(heard, sample)

TickOf(b, x) ==
    CASE b.kind = "average"    -> AverageTick(b, x)
      [] b.kind = "median"     -> MedianTick(b, x)
      [] b.kind = "delay"      -> DelayTick(b, x)
      [] b.kind = "repetitive" -> RepetitiveTick(b, x)
      [] b.kind = "smith"      -> SmithTick(b, x)
      [] b.kind = "schmitt"    -> SchmittTick(b, x)

Tick == block.kind \notin {"mhe", "slew", "monitor", "pair"} /\ \E x \in Samples : Hear(TickOf(block, x), x)

TickMhe == block.kind = "mhe" /\ Hear(MheTick(block, Len(heard) + 1), Len(heard) + 1)

\* The conditioners that need no history forget it.
TickSlew ==
    /\ block.kind = "slew"
    /\ \E target \in Readings, dt \in Intervals :
         /\ \E o \in SlewTick(block, target, dt) : block' = o.block /\ out' = o.out
         /\ heard' = <<[from |-> block, target |-> target, dt |-> dt]>>

TickMonitor ==
    /\ block.kind = "monitor"
    /\ \E x \in Readings : \E o \in MonitorTick(block, x) :
         Hear({o}, [x |-> x, status |-> o.out])

TickPair ==
    /\ block.kind = "pair"
    /\ \E a, b \in Readings :
         /\ \E o \in PairTick(block, a, b) : block' = o.block /\ out' = o.out
         /\ heard' = <<[a |-> a, b |-> b]>>

\* reset(), set_window() and init(): a pair has none of them.
Fresh(b) ==
    CASE b.kind = "average"    -> {Average(w) : w \in {b.n} \cup 0 .. Capacity + 1}
      [] b.kind = "median"     -> {Median(w) : w \in {b.n} \cup 0 .. Capacity + 1}
      [] b.kind = "delay"      -> {Delay(d) : d \in 0 .. Capacity + 1}
      [] b.kind = "repetitive" -> {Repetitive(b.period)}
      [] b.kind = "smith"      -> {Smith(b.d)}
      [] b.kind = "mhe"        -> {MheReset(b)}
      [] b.kind = "slew"       -> {Slew}
      [] b.kind = "schmitt"    -> {Schmitt, [Schmitt EXCEPT !.state = TRUE]}
      [] b.kind = "monitor"    -> {Monitor(b.margin)}
      [] OTHER                 -> {}

PathReset == block' \in Fresh(block) /\ out' = 0 /\ heard' = <<>>

PathNext == Tick \/ TickMhe \/ TickSlew \/ TickMonitor \/ TickPair \/ PathReset

PathSpec == PathInit /\ [][PathNext]_path

-----------------------------------------------------------------------------
(***************************************************************************)
(* Properties                                                              *)
(***************************************************************************)

MaxOf(a, b) == IF a < b THEN b ELSE a

\* A signal is 0 where there is no sample.
Past(j) == IF j \in 1 .. Len(heard) THEN heard[j] ELSE 0

\* The last n samples, or as many as there are.
Recent(n) == {i \in Len(heard) - n + 1 .. Len(heard) : i >= 1}

\* m is the sum of the two middle samples of S, or twice the middle one.
IsTwiceMedian(m, S) ==
    \E i, j \in S :
        /\ m = heard[i] + heard[j] /\ heard[i] <= heard[j]
        /\ \A k \in S : heard[k] <= heard[i] \/ heard[k] >= heard[j]
        /\ 2 * Cardinality({k \in S : heard[k] <= heard[i]}) >= Cardinality(S)
        /\ 2 * Cardinality({k \in S : heard[k] >= heard[j]}) >= Cardinality(S)
        /\ i = j <=> Cardinality(S) % 2 = 1

\* A signal around a place, 0 where it has no value.
Since(w, c) == [j \in Around(c) |-> IF j \in 1 .. Len(w) THEN w[j] ELSE 0]

\* The internal model: each value is the error and the filtered value one period before.
Learned ==
    LET Turn(k) == [w \in Seq(Int) |->
                      LET c == k - block.period IN Append(w, Past(k) + ZeroPhase(Since(w, c), c))]
    IN Iterated(<<>>, [k \in Nat |-> Turn(k)])[Len(heard)]

\* A moving average is off by no more than the roundings made since its ring last turned.
AverageExact ==
    block.kind = "average" =>
        LET first == Len(heard) - block.n
        IN Distance(out, SeqSum([i \in 1 .. block.n |-> Past(first + i)])) <= block.idx * Ulp

\* A median is over the samples seen, or the last n of them.
MedianExact == block.kind = "median" => IsTwiceMedian(out, Recent(block.n))

\* A delay is d samples long, at every d its ring can hold.
DelayExact == block.kind = "delay" => out = Past(Len(heard) - block.d)

\* A repetitive correction is the filtered internal model of one period less the lead
\* before, at every period whose filter fits the ring.
RepetitiveExact ==
    block.kind = "repetitive" /\ block.valid =>
        LET c == Len(heard) - (block.period - Lead)
        IN out = Gain * ZeroPhase(Since(Learned, c), c)

\* A window holds the last samples it should and no others, whatever was in the ring before
\* the last reset.
WindowsExact == heard # <<>> => AverageExact /\ MedianExact /\ DelayExact /\ RepetitiveExact

\* The model driven by the first k commands, without a delay.
DelayFree == Iterated(0, [k \in Nat |-> [x \in Int |-> Model(x, Past(k))]])

\* The window's pairs are joined to the prior's without gap or overlap: the first
\* sample stands for all before it.
Joined(k) == [j \in 1 .. k - 1 + Horizon |->
    <<MaxOf(1, j - Horizon), MaxOf(1, j - Horizon + 1)>>]

\* The Smith predictor adds to the measurement the difference of the delay-free model
\* and the same model d samples ago, at every d up to its capacity.  The moving-horizon
\* estimator carries each measurement into its prior exactly once, and always together
\* with the input that followed it, so that prior and window tile the history.
PredictorsExact ==
    heard # <<>> =>
    /\ block.kind = "smith" /\ block.valid =>
         LET k == Len(heard) - 1
         IN out = DelayFree[k] - DelayFree[MaxOf(0, k - block.d)]
    /\ block.kind = "mhe" /\ block.valid =>
         block.xbar \o [i \in 1 .. Horizon |-> <<block.ys[i - 1], block.us[i - 1]>>]
            = Joined(Len(heard))

StatusAfter(i) == IF i = 0 THEN "Valid" ELSE heard[i].status

\* The margin is no wider than the valid band or what lies between a valid and a
\* faulty reading.
NarrowMargin ==
    /\ block.margin <= Valid.upper - Valid.lower
    /\ block.margin <= Valid.lower - Fault.lower /\ block.margin <= Fault.upper - Valid.upper

\* "A signal hovering on an edge must move hysteresis past it": a monitor that left a
\* status comes back to it only after the reading has moved by the margin.  A wider
\* margin promises it to a reading that comes back the way it went; one that goes
\* across the bands may come back nearer.
NoChatter ==
    block.kind = "monitor" =>
        \A i, j \in 1 .. Len(heard) :
            /\ i < j
            /\ StatusAfter(i) # StatusAfter(i - 1)
            /\ StatusAfter(j) = StatusAfter(i - 1) /\ StatusAfter(j - 1) # StatusAfter(j)
            /\ NarrowMargin \/ StatusAfter(j - 1) = StatusAfter(i)
            => Distance(heard[i].x, heard[j].x) >= block.margin

\* Is a raw reading a wire fault, with the margin or without?
Broken(raw) == raw < Fault.lower - block.margin \/ raw > Fault.upper + block.margin

HasValue == "twice" \in DOMAIN out

\* A redundant pair's value is never taken from a broken wire, and never lies further
\* than half the tolerance from a channel it is the average of.
VoteSound ==
    block.kind = "pair" /\ HasValue =>
        LET a == Calibrated(heard[1].a)
            b == IF block.opposite THEN PairSpan - Calibrated(heard[1].b) ELSE Calibrated(heard[1].b)
        IN /\ out.status \in {"Agree", "ChannelAOnly"} =>
                 ~Broken(heard[1].a) /\ Distance(out.twice, 2 * a) <= Tol
           /\ out.status \in {"Agree", "ChannelBOnly"} => ~Broken(heard[1].b)
           /\ out.status = "Agree" => Distance(out.twice, 2 * b) <= Tol

Clear(x) == x < TripLow \/ x > TripHigh

\* A Schmitt trigger is where the last reading outside its band put it.
TriggerSound ==
    block.kind = "schmitt" =>
        LET clear == {i \in 1 .. Len(heard) : Clear(heard[i])}
        IN clear # {} => (out <=> heard[Max(clear)] > TripHigh)

\* A slew limiter gets as near its target as its rates allow, never beyond.
SlewSound ==
    block.kind = "slew" /\ heard[1].from.init =>
        LET y == heard[1].from.y  dt == MaxOf(0, heard[1].dt)
            reach == y - RateDown * dt .. y + RateUp * dt
        IN /\ out \in reach
           /\ \A v \in reach : Distance(v, heard[1].target) >= Distance(out, heard[1].target)

\* What leaves the front end is fit for use.
FrontEndSound == heard # <<>> => VoteSound /\ TriggerSound /\ SlewSound
=============================================================================
