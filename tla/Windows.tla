------------------------------- MODULE Windows -------------------------------
(***************************************************************************)
(* The ring buffers of the sampled blocks: MovingAverage, MedianFilter and *)
(* Delay (src/inc/damp/filters/), RepetitiveController and SmithPredictor  *)
(* (src/inc/damp/controllers/) and the window of the moving-horizon        *)
(* estimator MHE (src/inc/damp/estimation/mhe.hpp).                        *)
(*                                                                         *)
(* A block is a record of its kind and fields; a tick is an operator from  *)
(* a block and a sample to the set of [block, out] it may produce.         *)
(* Samples are integers.                                                   *)
(***************************************************************************)
EXTENDS Integers, Sequences, FiniteSetsExt, Functions, Iteration

CONSTANTS
    Capacity,       \* of every ring: MaxN, MaxDelay, MaxPeriod
    Ulp,            \* what an update of the running sum may round it by
    Gain, QTaps,    \* RepetitiveConfig: gain, and q_filter followed by q_side
    Lead,
    Scale,          \* the predictor's gain b; its pole a is 1/2
    Horizon         \* NH

ASSUME WindowsAssumption ==
    /\ Capacity \in Nat \ {0, 1} /\ Horizon \in Nat \ {0}
    /\ Ulp \in Nat
    /\ QTaps \in Seq(Int) \ {<<>>} /\ Gain \in Int /\ Lead \in Nat /\ Scale \in Nat \ {0}

Zeros(n) == [i \in 0 .. n - 1 |-> 0]

\* damp::clamp(window, 1, MaxN)
Window(w) == IF w < 1 THEN 1 ELSE IF w > Capacity THEN Capacity ELSE w

-----------------------------------------------------------------------------
\* MovingAverage(window) and set_window()
Average(w) == [kind |-> "average", n |-> Window(w), buffer |-> Zeros(Capacity), sum |-> 0, idx |-> 0]

\* Mutant of AverageTick: the sum is never made afresh.
AverageTickNoResum(b, x) ==
    LET sums == {b.sum + x - b.buffer[b.idx] + e : e \in -Ulp .. Ulp}
    IN {[block |-> [b EXCEPT !.buffer[b.idx] = x, !.idx = (@ + 1) % b.n, !.sum = s], out |-> s] :
            s \in sums}

\* The running sum takes the new sample for the old, and rounds; where the ring turns
\* it is summed afresh.  out stands for sum / n.
AverageTick(b, x) ==
    LET buffer == [b.buffer EXCEPT ![b.idx] = x]
        idx    == (b.idx + 1) % b.n
        sums   == IF idx = 0 THEN {SeqSum([i \in 1 .. b.n |-> buffer[i - 1]])}
                  ELSE {b.sum + x - b.buffer[b.idx] + e : e \in -Ulp .. Ulp}
    IN {[block |-> [b EXCEPT !.buffer = buffer, !.idx = idx, !.sum = s], out |-> s] : s \in sums}

\* MedianFilter(window) and set_window()
Median(w) == [kind |-> "median", n |-> Window(w), buffer |-> Zeros(Capacity), idx |-> 0, count |-> 0]

\* A sequence in ascending order.
Sorted(q) ==
    LET p == CHOOSE p \in Bijection(DOMAIN q, DOMAIN q) :
                \A i, j \in DOMAIN q : i <= j => q[p[i]] <= q[p[j]]
    IN [i \in DOMAIN q |-> q[p[i]]]

\* Twice the median; the warm-up takes the samples seen so far.
MedianTick(b, x) ==
    LET buffer == [b.buffer EXCEPT ![b.idx] = x]
        count  == IF b.count < b.n THEN b.count + 1 ELSE b.count
        s      == Sorted([i \in 1 .. count |-> buffer[i - 1]])
        mid    == count \div 2
    IN {[block |-> [b EXCEPT !.buffer = buffer, !.idx = (@ + 1) % b.n, !.count = count],
         out |-> IF count % 2 = 0 THEN s[mid] + s[mid + 1] ELSE 2 * s[mid + 1]]}

\* Delay::init(): a delay of Capacity would read the slot it has just written.
Delay(d) == [kind |-> "delay", d |-> IF d > Capacity - 1 THEN Capacity - 1 ELSE d, buffer |-> Zeros(Capacity), idx |-> 0]

DelayTick(b, x) ==
    LET buffer == [b.buffer EXCEPT ![b.idx] = x]
    IN {[block |-> [b EXCEPT !.buffer = buffer, !.idx = (@ + 1) % Capacity],
         out |-> buffer[(b.idx + Capacity - b.d) % Capacity]]}

-----------------------------------------------------------------------------
QHalf == Len(QTaps) - 1

\* RepetitiveController: a period the memory cannot hold leaves it invalid.
Repetitive(period) ==
    [kind |-> "repetitive", period |-> period, mem |-> Zeros(Capacity), idx |-> 0,
     valid |-> period + QHalf <= Capacity]

\* Q on the signal w around index c: the zero-phase FIR.
ZeroPhase(w, c) ==
    QTaps[1] * w[c] + SeqSum([i \in 1 .. QHalf |-> QTaps[i + 1] * (w[c - i] + w[c + i])])

\* The indices under the filter.
Around(c) == c - QHalf .. c + QHalf

Filtered(b, d) ==
    ZeroPhase([j \in Around(b.idx - d) |-> b.mem[(j + Capacity) % Capacity]], b.idx - d)

\* control(e)
RepetitiveTick(b, x) ==
    IF b.valid
    THEN {[block |-> [b EXCEPT !.mem[b.idx] = Filtered(b, b.period) + x, !.idx = (@ + 1) % Capacity],
           out |-> Gain * Filtered(b, b.period - Lead)]}
    ELSE {[block |-> b, out |-> 0]}

-----------------------------------------------------------------------------
\* SmithPredictor, of capacity MaxDelay = Capacity - 1: d + 1 slots of the ring are in use.
Smith(d) ==
    [kind |-> "smith", d |-> d, ring |-> Zeros(Capacity), head |-> 0, x |-> 0, valid |-> d <= Capacity - 1]

Model(x, u) == x \div 2 + Scale * u

\* Mutant of NextSlot: the ring turns over its whole capacity.
NextSlotOfCapacity(b, i) == (i + 1) % Capacity

NextSlot(b, i) == (i + 1) % (b.d + 1)

\* model_output(): x carried over the commands in flight.
Predicted(b) ==
    LET Turn == [s \in Nat \X Int |->
                   LET slot == NextSlot(b, s[1]) IN <<slot, Model(s[2], b.ring[slot])>>]
    IN Iterated(<<b.head, b.x>>, [j \in Nat |-> Turn])[b.d][2]

\* control(r, y), whose primary answers u; out is what is added to y before the
\* primary sees it.
SmithTick(b, u) ==
    LET ring == [b.ring EXCEPT ![b.head] = u]
        head == NextSlot(b, b.head)
    IN IF b.valid
       THEN {[block |-> [b EXCEPT !.ring = ring, !.head = head, !.x = Model(@, ring[head])],
              out |-> Predicted(b) - b.x]}
       ELSE {[block |-> b, out |-> 0]}

-----------------------------------------------------------------------------
\* MHE.  A sample is the number of the call that brought it; xbar, the arrival prior,
\* is the sequence of the <<y, u>> carried through it; z is the number of the call
\* whose quadratic program the estimate comes from, and whether it was projected.
Mhe(valid) ==
    [kind |-> "mhe", valid |-> valid, primed |-> FALSE, ys |-> [k \in 0 .. Horizon |-> 0],
     us |-> [k \in 0 .. Horizon - 1 |-> 0], xbar |-> <<>>, z |-> <<0, FALSE>>]

QPStatus == {"Success", "MaxIterations", "Failed"}

Slid(b, y, u) ==
    [b EXCEPT
        !.xbar = Append(@, <<b.ys[0], b.us[0]>>),
        !.ys = [k \in 0 .. Horizon |-> IF k = Horizon THEN y ELSE @[k + 1]],
        !.us = [k \in 0 .. Horizon - 1 |-> IF k = Horizon - 1 THEN u ELSE @[k + 1]]]

\* The first call fills the whole window.
Primed(b, y, u) ==
    [b EXCEPT !.primed = TRUE, !.ys = [k \in 0 .. Horizon |-> y],
              !.us = [k \in 0 .. Horizon - 1 |-> u]]

\* step(): an exhausted solver's iterate is projected, a failed one leaves z alone.
MheTick(b, call) ==
    IF ~b.valid THEN {[block |-> b, out |-> b.z[1]]} ELSE
    LET moved == IF b.primed THEN Slid(b, call, call) ELSE Primed(b, call, call)
    IN {LET z == CASE status = "Success" -> <<call, FALSE>>
                   [] status = "MaxIterations" -> <<call, TRUE>>
                   [] OTHER -> b.z
        IN [block |-> [moved EXCEPT !.z = z], out |-> z[1]] : status \in QPStatus}

\* reset(): the samples stay in the window, to be overwritten by the next priming.
MheReset(b) == [Mhe(b.valid) EXCEPT !.ys = b.ys, !.us = b.us]
=============================================================================
