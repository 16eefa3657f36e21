--------------------------- MODULE SimulationProofs ---------------------------
(***************************************************************************)
(* Proofs about the simulation drivers and the ODE solvers: for every      *)
(* span, sampling period, divisor, stride and limit, every schedule of     *)
(* events, and whatever the integrator and the callbacks answer.           *)
(***************************************************************************)
EXTENDS Simulation, Solver, CommonLemmas, SequenceTheorems, FiniteSetTheorems, TLAPS

-----------------------------------------------------------------------------
(* The grids of the drivers and of the fixed solver.                       *)

\* A span of positive length has a positive number of steps, the last no longer than
\* the others.
LEMMA StepCountIs ==
    ASSUME NEW from \in Int, NEW to \in Int, from < to, NEW d \in Nat \ {0}
    PROVE  /\ StepCount(from, to, d) \in Nat \ {0}
           /\ (StepCount(from, to, d) - 1) * d < to - from
           /\ to - from <= StepCount(from, to, d) * d
<1> DEFINE a == to - from + d - 1
           n == a \div d
<1>1. a \in Int /\ a >= d /\ to - from = a - d + 1
  OBVIOUS
<1>2. n \in Int /\ n * d <= a /\ a < n * d + d
  BY <1>1, Quotient
<1>3. StepCount(from, to, d) = n
  BY DEF StepCount
<1> HIDE DEF a, n
<1>4. n > 0
  <2>1. CASE n < 1
    <3>1. n * d + d <= 1 * d
      BY <1>2, <2>1, Spaced
    <3> QED
      BY <1>1, <1>2, <3>1
  <2> QED
    BY <1>2, <2>1
<1>5. n * d \in Int /\ (n - 1) * d = n * d - d
  BY <1>2
<1> QED
  BY <1>1, <1>2, <1>3, <1>4, <1>5

\* The grid's points increase from the start to the end of the span, a step apart at
\* most.
LEMMA GridIs ==
    ASSUME NEW from \in Int, NEW to \in Int, from < to, NEW d \in Nat \ {0},
           NEW i \in Nat, i < StepCount(from, to, d)
    PROVE  /\ GridTime(from, to, d, i) = from + i * d /\ i * d \in Nat
           /\ GridTime(from, to, d, i) < to
           /\ GridTime(from, to, d, i + 1) \in Int
           /\ GridTime(from, to, d, i) < GridTime(from, to, d, i + 1)
           /\ GridTime(from, to, d, i + 1) <= GridTime(from, to, d, i) + d
           /\ GridTime(from, to, d, i + 1) <= to
           /\ i + 1 = StepCount(from, to, d) <=> GridTime(from, to, d, i + 1) = to
<1> DEFINE n == StepCount(from, to, d)
<1>1. n \in Nat \ {0} /\ (n - 1) * d < to - from /\ to - from <= n * d
  BY StepCountIs
<1>2. /\ GridTime(from, to, d, i) = from + i * d
      /\ GridTime(from, to, d, i + 1) = IF i + 1 >= n THEN to ELSE from + (i + 1) * d
  BY <1>1 DEF GridTime
<1> HIDE DEF n
<1>3. i < n
  BY DEF n
<1>4. i * d \in Nat /\ (i + 1) * d = i * d + d
  OBVIOUS
<1>5. CASE i + 1 >= n
  <2>1. i = n - 1
    BY <1>1, <1>3, <1>5
  <2>2. i * d < to - from
    BY <1>1, <2>1
  <2>3. n * d = i * d + d
    BY <1>1, <2>1
  <2> QED
    BY <1>1, <1>2, <1>4, <1>5, <2>1, <2>2, <2>3 DEF n
<1>6. CASE i + 1 < n
  <2>1. (i + 1) * d <= (n - 1) * d
    <3>1. CASE i + 1 = n - 1
      BY <3>1, <1>4
    <3>2. CASE i + 1 < n - 1
      <4>1. i + 1 \in Int /\ n - 1 \in Int
        BY <1>1
      <4>2. (i + 1) * d + d <= (n - 1) * d /\ (n - 1) * d \in Int
        BY <3>2, <4>1, Spaced
      <4> QED
        BY <4>2, <1>4
    <3> QED
      BY <1>1, <1>6, <3>1, <3>2
  <2> QED
    BY <1>1, <1>2, <1>4, <1>6, <2>1 DEF n
<1> QED
  BY <1>1, <1>5, <1>6

\* From the last step on, the end of the span.
LEMMA GridEnds ==
    ASSUME NEW from, NEW to, NEW d, NEW i, i >= StepCount(from, to, d)
    PROVE  GridTime(from, to, d, i) = to
BY DEF GridTime

\* A later point of the grid lies later.
LEMMA GridIncreases ==
    ASSUME NEW from \in Int, NEW to \in Int, from < to, NEW d \in Nat \ {0},
           NEW i \in Nat, NEW j \in Nat, i < j, j <= StepCount(from, to, d)
    PROVE  /\ GridTime(from, to, d, i) < GridTime(from, to, d, j)
           /\ GridTime(from, to, d, j) \in from .. to
<1> DEFINE n == StepCount(from, to, d)
           g(l) == GridTime(from, to, d, l)
<1>1. n \in Nat \ {0}
  BY StepCountIs
<1>2. PICK l \in Nat : j = l + 1 /\ l < n /\ i <= l
  <2>1. j - 1 \in Nat /\ j = (j - 1) + 1 /\ j - 1 < n /\ i <= j - 1
    BY <1>1
  <2> QED
    BY <2>1
<1>3. g(i) = from + i * d /\ i * d \in Nat /\ g(l) = from + l * d /\ l * d \in Nat
  <2>1. i \in Nat /\ i < n
    BY <1>1, <1>2
  <2>2. g(i) = from + i * d /\ i * d \in Nat
    BY <2>1, GridIs
  <2>3. g(l) = from + l * d /\ l * d \in Nat
    BY <1>2, GridIs
  <2> QED
    BY <2>2, <2>3
<1>4. g(j) \in Int /\ g(l) < g(j) /\ g(j) <= to
  BY <1>2, GridIs
<1>5. i * d <= l * d
  <2>1. CASE i = l
    BY <2>1, <1>3
  <2>2. CASE i < l
    BY <2>2, <1>2, <1>3, Spaced
  <2> QED
    BY <1>2, <2>1, <2>2
<1> HIDE DEF g
<1>6. g(i) < g(j) /\ g(j) \in from .. to
  BY <1>3, <1>4, <1>5
<1> QED
  BY <1>6 DEF g

-----------------------------------------------------------------------------
(* SwitchedController.                                                     *)

\* The owner's memory is fresh; the rest of the controller is of its type.
SwitchedInv ==
    /\ calls \in Nat /\ since \in 0 .. calls
    /\ mode \in SwitchMode /\ memory \in [SwitchMode -> SUBSET Nat]
    /\ OwnerIsFresh

LEMMA SwitchedStarts ==
    SwitchedInit => SwitchedInv
<1> SUFFICES ASSUME SwitchedInit PROVE SwitchedInv
  OBVIOUS
<1>1. mode \in SwitchMode /\ memory \in [SwitchMode -> SUBSET Nat] /\ memory[mode] = {}
  BY DEF SwitchedInit, SwitchMode
<1>2. calls \in Nat /\ since \in 0 .. calls /\ since .. calls - 1 = {}
  BY DEF SwitchedInit
<1> QED
  BY <1>1, <1>2 DEF SwitchedInv, OwnerIsFresh

\* A call of control() adds itself to the owner's memory.
LEMMA ControlKeeps ==
    ASSUME SwitchedInv, Control
    PROVE  SwitchedInv'
<1> USE DEF SwitchedInv, Control, OwnerIsFresh
<1>1. calls' \in Nat /\ since' \in 0 .. calls' /\ mode' \in SwitchMode
  OBVIOUS
<1>2. memory' \in [SwitchMode -> SUBSET Nat]
  OBVIOUS
<1>3. memory'[mode'] = (since .. calls - 1) \cup {calls}
  OBVIOUS
<1>4. memory'[mode'] = since' .. calls' - 1
  BY <1>3
<1>5. lastU' \in {mode'}
  OBVIOUS
<1> QED
  BY <1>1, <1>2, <1>4, <1>5

\* A law that takes over, and every law at a reset, has forgotten.
LEMMA ScriptKeeps ==
    ASSUME SwitchedInv, (\E new \in SwitchMode : SetMode(new)) \/ Inject \/ SwitchedReset
    PROVE  SwitchedInv'
<1> USE DEF SwitchedInv, OwnerIsFresh
<1>1. since \in Nat /\ calls .. calls - 1 = {}
  OBVIOUS
<1>2. ASSUME NEW new \in SwitchMode, SetMode(new) PROVE SwitchedInv'
  <2> USE DEF SetMode
  <2>1. memory' \in [SwitchMode -> SUBSET Nat] /\ memory'[mode'] = {}
    BY <1>2
  <2> QED
    BY <1>1, <1>2, <2>1
<1>3. CASE Inject
  BY <1>3 DEF Inject
<1>4. CASE SwitchedReset
  <2>1. memory' \in [SwitchMode -> SUBSET Nat] /\ memory'[mode'] = {}
    BY <1>4 DEF SwitchedReset
  <2> QED
    BY <1>1, <1>4, <2>1 DEF SwitchedReset
<1> QED
  BY <1>2, <1>3, <1>4

\* In a two-rate run the inner law answers at the ticks it is due and the script acts
\* between them; nothing else touches the controller.
LEMMA SwitchedStepKeeps ==
    ASSUME SwitchedInv, [Next]_vars
    PROVE  SwitchedInv'
<1>1. CASE Control
  BY <1>1, ControlKeeps
<1>2. CASE UNCHANGED switched
  BY <1>2 DEF switched, SwitchedInv, OwnerIsFresh
<1>3. CASE Script
  BY <1>3, ScriptKeeps DEF Script
<1>4. BaseTick => Control \/ UNCHANGED switched
  <2>1. BaseTick => (IF FiresAt(k, run.inner) THEN Control ELSE UNCHANGED switched)
    BY DEF BaseTick
  <2> QED
    BY <2>1
<1>5. TickLimit \/ TwoRateEnd \/ EventLimit \/ StandStill \/ Segment \/ UNCHANGED vars
        => UNCHANGED switched
  BY DEF TickLimit, TwoRateEnd, EventLimit, StandStill, Segment, vars, switched
<1> QED
  BY <1>1, <1>2, <1>3, <1>4, <1>5 DEF Next, Loop

\* SwitchedController (composition.hpp): "the newly active controller is reset so
\* integrators do not inherit foreign state", at whichever base tick the script of a
\* two-rate run switches, injects or resets.
THEOREM OwnerStaysFresh == Spec => []OwnerIsFresh
<1>1. Init => SwitchedInv
  BY SwitchedStarts DEF Init
<1>2. SwitchedInv /\ [Next]_vars => SwitchedInv'
  BY SwitchedStepKeeps
<1>3. SwitchedInv => OwnerIsFresh
  BY DEF SwitchedInv
<1> QED
  BY <1>1, <1>2, <1>3, PTL DEF Spec

-----------------------------------------------------------------------------
(* What a run logs.                                                        *)

States == [at : Int, event : Int]
Commands == [tick : Int, from : Int]

SampleSet ==
    {Sample(at, state, command, reference, plantMode) :
       at \in Int, state \in States, command \in Commands, reference \in Int, plantMode \in Int}

\* A sample is what it was made of.
LEMMA SampleIs ==
    ASSUME NEW at \in Int, NEW state \in States, NEW command \in Commands,
           NEW reference \in Int, NEW plantMode \in Int
    PROVE  LET s == Sample(at, state, command, reference, plantMode) IN
           /\ s \in SampleSet
           /\ s.t = at /\ s.x = state /\ s.u = command /\ s.r = reference /\ s.mode = plantMode
<1>1. Sample(at, state, command, reference, plantMode) \in SampleSet
  BY DEF SampleSet
<1> QED
  BY <1>1 DEF Sample

\* What every sample is.
LEMMA SampleHas ==
    ASSUME NEW s \in SampleSet
    PROVE  /\ s.t \in Int /\ s.x \in States /\ s.u \in Commands /\ s.r \in Int /\ s.mode \in Int
           /\ s.y = <<s.x, s.u, s.mode>>
<1>1. PICK at \in Int, state \in States, command \in Commands, reference \in Int, plantMode \in Int :
           s = Sample(at, state, command, reference, plantMode)
  BY DEF SampleSet
<1> QED
  BY <1>1 DEF Sample

\* The times of a log start at 0 and strictly increase.
Ordered(l) == \A i \in DOMAIN l : IF i = 1 THEN l[i].t = 0 ELSE l[i].t > l[i - 1].t

\* Samples that go on where a log ends, later and later.
GoesOn(l, samples) ==
    \A j \in 1 .. Len(samples) :
        samples[j].t > (IF j = 1 THEN l[Len(l)].t ELSE samples[j - 1].t)

\* A log that goes on stays ordered.
LEMMA OrderedGoesOn ==
    ASSUME NEW l \in Seq(SampleSet), NEW samples \in Seq(SampleSet), l # <<>>,
           Ordered(l), GoesOn(l, samples)
    PROVE  /\ Ordered(l \o samples)
           /\ l \o samples \in Seq(SampleSet) /\ l \o samples # <<>>
           /\ (l \o samples)[Len(l \o samples)] =
                IF samples = <<>> THEN l[Len(l)] ELSE samples[Len(samples)]
<1> DEFINE all == l \o samples
<1>1. /\ all \in Seq(SampleSet) /\ Len(all) = Len(l) + Len(samples)
      /\ \A i \in 1 .. Len(l) + Len(samples) :
           all[i] = IF i <= Len(l) THEN l[i] ELSE samples[i - Len(l)]
  BY ConcatProperties
<1>2. Len(l) \in Nat /\ Len(samples) \in Nat /\ Len(l) >= 1 /\ DOMAIN all = 1 .. Len(all)
      /\ DOMAIN l = 1 .. Len(l) /\ (samples = <<>> <=> Len(samples) = 0)
  BY <1>1, LenProperties, EmptySeq
<1> HIDE DEF all
<1>3. ASSUME NEW i \in 1 .. Len(all)
      PROVE  IF i = 1 THEN all[i].t = 0 ELSE all[i].t > all[i - 1].t
  <2>1. CASE i <= Len(l)
    <3>1. all[i] = l[i] /\ i \in DOMAIN l /\ (i # 1 => all[i - 1] = l[i - 1])
      BY <1>1, <1>2, <2>1
    <3> QED
      BY <3>1 DEF Ordered
  <2>2. CASE i = Len(l) + 1
    <3>1. all[i] = samples[1] /\ all[i - 1] = l[Len(l)] /\ i # 1 /\ 1 \in 1 .. Len(samples)
      BY <1>1, <1>2, <2>2
    <3> QED
      BY <3>1 DEF GoesOn
  <2>3. CASE i > Len(l) + 1
    <3> DEFINE j == i - Len(l)
    <3>1. j \in 1 .. Len(samples) /\ j # 1 /\ i # 1 /\ i - 1 \in 1 .. Len(all)
          /\ ~(i <= Len(l)) /\ ~(i - 1 <= Len(l)) /\ (i - 1) - Len(l) = j - 1
      BY <1>1, <1>2, <2>3
    <3>2. all[i] = samples[j] /\ all[i - 1] = samples[j - 1]
      BY <1>1, <3>1
    <3> HIDE DEF j
    <3> QED
      BY <3>1, <3>2 DEF GoesOn
  <2> QED
    BY <1>1, <1>2, <2>1, <2>2, <2>3
<1>4. Ordered(all)
  BY <1>2, <1>3 DEF Ordered
<1>5. all[Len(all)] = IF samples = <<>> THEN l[Len(l)] ELSE samples[Len(samples)]
  <2>1. Len(all) \in 1 .. Len(l) + Len(samples) /\ Len(all) - Len(l) = Len(samples)
    BY <1>1, <1>2
  <2> QED
    BY <1>1, <1>2, <2>1
<1>6. all # <<>>
  BY <1>1, <1>2, EmptySeq
<1> QED
  BY <1>1, <1>4, <1>5, <1>6 DEF all

\* A property of all samples that both have, the whole has.
LEMMA EachGoesOn ==
    ASSUME NEW l \in Seq(SampleSet), NEW samples \in Seq(SampleSet), NEW T,
           \A i \in 1 .. Len(l) : l[i] \in T, \A i \in 1 .. Len(samples) : samples[i] \in T
    PROVE  \A i \in 1 .. Len(l \o samples) : (l \o samples)[i] \in T
<1>1. /\ Len(l \o samples) = Len(l) + Len(samples) /\ Len(l) \in Nat /\ Len(samples) \in Nat
      /\ \A i \in 1 .. Len(l) + Len(samples) :
           (l \o samples)[i] = IF i <= Len(l) THEN l[i] ELSE samples[i - Len(l)]
  BY ConcatProperties, LenProperties
<1> SUFFICES ASSUME NEW i \in 1 .. Len(l) + Len(samples) PROVE (l \o samples)[i] \in T
  BY <1>1
<1>2. CASE i <= Len(l)
  BY <1>1, <1>2
<1>3. CASE i > Len(l)
  <2>1. i - Len(l) \in 1 .. Len(samples) /\ ~(i <= Len(l))
    BY <1>1, <1>3
  <2> QED
    BY <1>1, <2>1
<1> QED
  BY <1>1, <1>2, <1>3

\* The fine steps of a segment that are logged: later and later, and the last of all if
\* there is one.
LEMMA KeptIs ==
    ASSUME NEW from \in Int, NEW to \in Int, NEW seg \in Segments(from, to), Stride \in Nat \ {0}
    PROVE  LET n == StepCount(0, Len(seg), Stride) IN
           /\ Len(seg) \in Nat /\ seg \in Seq(from + 1 .. to) /\ DOMAIN Kept(seg) = 1 .. n
           /\ seg = <<>> => n = 0
           /\ seg # <<>> => /\ n \in Nat \ {0} /\ Len(seg) >= 1
                            /\ Kept(seg)[n] = seg[Len(seg)] /\ seg[Len(seg)] \in from + 1 .. to
           /\ \A j \in 1 .. n : Kept(seg)[j] \in from + 1 .. to
           /\ \A j \in 1 .. n : j # 1 => Kept(seg)[j - 1] < Kept(seg)[j]
<1> DEFINE n == StepCount(0, Len(seg), Stride)
           g(j) == GridTime(0, Len(seg), Stride, j)
<1>1. PICK len \in 0 .. to - from :
           seg \in {s \in [1 .. len -> from + 1 .. to] : \A i, j \in 1 .. len : i < j => s[i] < s[j]}
  BY DEF Segments
<1>2. len \in Nat /\ seg \in [1 .. len -> from + 1 .. to]
      /\ \A i, j \in 1 .. len : i < j => seg[i] < seg[j]
  BY <1>1
<1>3. seg \in Seq(from + 1 .. to)
  BY <1>2, SeqDef
<1>4. Len(seg) = len /\ (seg = <<>> <=> len = 0)
  <2>1. Len(seg) \in Nat /\ DOMAIN seg = 1 .. Len(seg) /\ DOMAIN seg = 1 .. len
    BY <1>2, <1>3, LenProperties
  <2>2. Len(seg) = len
    BY <1>2, <2>1
  <2> QED
    BY <1>3, <2>2, EmptySeq
<1>5. Kept(seg) = [j \in 1 .. n |-> seg[g(j)]]
  BY DEF Kept
<1> HIDE DEF g, n
<1>6. CASE seg = <<>>
  <2>1. n = 0
    <3>1. len = 0 /\ 0 * Stride <= 0 - 0 + Stride - 1 /\ 0 - 0 + Stride - 1 < 0 * Stride + Stride
          /\ 0 - 0 + Stride - 1 \in Int
      BY <1>4, <1>6
    <3>2. (0 - 0 + Stride - 1) \div Stride = 0
      BY <3>1, QuotientIs
    <3> QED
      BY <1>4, <3>1, <3>2 DEF n, StepCount
  <2> QED
    BY <1>2, <1>3, <1>4, <1>5, <1>6, <2>1 DEF n
<1>7. CASE seg # <<>>
  <2>1. 0 < len /\ len \in Int /\ 0 \in Int
    BY <1>2, <1>4, <1>7
  <2>2. n \in Nat \ {0}
    BY <1>4, <2>1, StepCountIs DEF n
  <2>3. g(n) = len
    BY <1>4, <2>2, GridEnds DEF n, g
  <2>4. ASSUME NEW j \in 1 .. n PROVE g(j) \in 1 .. len /\ (j # 1 => g(j - 1) < g(j))
    <3>1. j \in Nat /\ 0 \in Nat /\ 0 < j /\ j <= n
      BY <2>2
    <3>2. g(0) < g(j) /\ g(j) \in 0 .. len
      BY <1>4, <2>1, <3>1, GridIncreases DEF n, g
    <3>3. g(0) = 0
      <4>1. 0 < StepCount(0, len, Stride)
        BY <1>4, <2>2 DEF n
      <4>2. GridTime(0, len, Stride, 0) = 0 + 0 * Stride
        BY <2>1, <3>1, <4>1, GridIs
      <4> QED
        BY <1>4, <4>2 DEF g
    <3>4. j # 1 => j - 1 \in Nat /\ j - 1 < j
      BY <3>1
    <3>5. j # 1 => g(j - 1) < g(j)
      BY <1>4, <2>1, <3>1, <3>4, GridIncreases DEF n, g
    <3> QED
      BY <2>1, <3>2, <3>3, <3>5
  <2>5. \A j \in 1 .. n : Kept(seg)[j] = seg[g(j)] /\ seg[g(j)] \in from + 1 .. to
    BY <1>2, <1>5, <2>4
  <2>6. ASSUME NEW j \in 1 .. n, j # 1 PROVE Kept(seg)[j - 1] < Kept(seg)[j]
    <3>1. j - 1 \in 1 .. n
      BY <2>2, <2>6
    <3>2. g(j) \in 1 .. len /\ g(j - 1) \in 1 .. len /\ g(j - 1) < g(j)
      BY <2>4, <2>6, <3>1
    <3> QED
      BY <1>2, <2>5, <3>1, <3>2
  <2>7. Kept(seg)[n] = seg[len] /\ seg[len] \in from + 1 .. to
    <3>1. n \in 1 .. n
      BY <2>2
    <3> QED
      BY <2>3, <2>5, <3>1
  <2>8. DOMAIN Kept(seg) = 1 .. n
    BY <1>5
  <2> QED
    BY <1>2, <1>3, <1>4, <1>7, <2>2, <2>5, <2>6, <2>7, <2>8 DEF n
<1> QED
  BY <1>6, <1>7

-----------------------------------------------------------------------------
(* The drivers' inductive invariant.                                       *)

SimTypes ==
    /\ run \in TwoRateRuns \cup PiecewiseRuns
    /\ running \in BOOLEAN /\ success \in BOOLEAN
    /\ log \in Seq(SampleSet) /\ k \in Nat /\ t \in Int
    /\ x \in States /\ u \in Commands /\ r \in Int /\ m \in Int

\* The state of a sample was integrated to its time.
Integrated(s) == s.x.at = s.t

\* The held command and reference are those of the latest firings up to a base tick.
Held(s, tick) ==
    /\ s.u.tick = LatestFiring(tick, run.inner)
    /\ s.r = LatestFiring(tick, run.outer)
    /\ s.u.from = LatestFiring(s.u.tick, run.outer)

Ticks == StepCount(0, run.tf, TsBase)

\* Between two ticks of a run: the plant is at the start of tick k, and so is the log if
\* a tick has been completed.
AtTick ==
    /\ success = TRUE /\ run.tf > 0 /\ run.outer # 0 /\ run.inner # 0
    /\ k <= Ticks
    /\ x.at = GridTime(0, run.tf, TsBase, k)
    /\ log = <<>> <=> k = 0
    /\ log # <<>> => log[Len(log)].t = x.at
    /\ k > 0 => Held([u |-> u, r |-> r], k - 1)

TwoRateInv ==
    run.driver = "two_rate" =>
        /\ Ordered(log)
        /\ \A i \in 1 .. Len(log) : Integrated(log[i]) /\ Held(log[i], TickOf(log[i].t))
        /\ running => AtTick

\* A sample of a piecewise run shows the mode and the events of the one before it,
\* unless an event has just replaced the command.
Follows(s, before) ==
    IF s.u = before.u THEN s.mode = before.mode /\ s.x.event = before.x.event
    ELSE s.u.tick = s.t /\ s.x.event = before.x.event + 1

Events(l) == {u0.tick : u0 \in {l[i].u : i \in DOMAIN l}} \ {-1}

\* Between two segments: the log ends with what is.
AtEvent ==
    /\ success = TRUE
    /\ log # <<>> /\ log[Len(log)].t = t /\ log[Len(log)].x = x
    /\ log[Len(log)].u = u /\ log[Len(log)].mode = m
    /\ x.at = t /\ x.event = k /\ 0 <= t /\ t < run.tf /\ u.tick <= t
    /\ \A e \in Events(log) : e <= t

PiecewiseInv ==
    run.driver = "piecewise" =>
        /\ Ordered(log)
        /\ \A i \in 1 .. Len(log) : Integrated(log[i])
        /\ \A i \in 2 .. Len(log) : Follows(log[i], log[i - 1])
        /\ log # <<>> => IsFiniteSet(Events(log)) /\ k = Cardinality(Events(log))
        /\ running => AtEvent

SimInv == SimTypes /\ TwoRateInv /\ PiecewiseInv /\ ShortMeansFailed

LEMMA RunIs ==
    ASSUME SimTypes
    PROVE  /\ run.tf \in Int /\ TsBase \in Nat \ {0} /\ NModes \in Nat \ {0}
           /\ run.driver \in {"two_rate", "piecewise"}
           /\ run.driver = "two_rate" =>
                run.outer \in Nat /\ run.inner \in Nat /\ run.stride \in Nat /\ run.limit \in Nat
           /\ run.driver = "piecewise" =>
                run.h \in Nat /\ run.limit \in Nat /\ run.mode0 \in 0 .. NModes
<1>1. Spans \subseteq Int /\ Divs \subseteq Nat /\ Strides \subseteq Nat /\ MaxTicks \subseteq Nat
      /\ MaxEvents \subseteq Nat /\ HFine \subseteq Nat /\ TsBase \in Nat \ {0} /\ NModes \in Nat \ {0}
  BY SimulationAssumption
<1> QED
  BY <1>1 DEF SimTypes, TwoRateRuns, PiecewiseRuns

\* A state that has been integrated on.
LEMMA MovedOn ==
    ASSUME NEW state \in States, NEW d \in Int
    PROVE  LET moved == [state EXCEPT !.at = @ + d] IN
           moved \in States /\ moved.at = state.at + d /\ moved.event = state.event
BY DEF States

-----------------------------------------------------------------------------
(* A tick of simulate_two_rate().                                          *)

\* The latest firing of a law is now or at the tick before.
LEMMA FiringStep ==
    ASSUME NEW tick \in Nat, NEW d \in Nat \ {0}
    PROVE  /\ LatestFiring(0, d) = 0
           /\ LatestFiring(tick, d) \in Int
           /\ FiresAt(tick, d) => LatestFiring(tick, d) = tick
           /\ ~FiresAt(tick, d) => tick > 0 /\ LatestFiring(tick, d) = LatestFiring(tick - 1, d)
<1>1. 0 * d <= 0 /\ 0 < 0 * d + d
  OBVIOUS
<1>2. 0 \div d = 0
  BY <1>1, QuotientIs
<1> DEFINE q == tick \div d
<1>3. q \in Int /\ q * d <= tick /\ tick < q * d + d /\ q * d \in Int
  BY Quotient
<1>4. tick % d = tick - q * d
  <2>1. tick % d = tick - d * (tick \div d)
    OBVIOUS
  <2> QED
    BY <2>1, <1>3
<1>5. LatestFiring(tick, d) = q * d
  BY DEF LatestFiring
<1> HIDE DEF q
<1>6. ASSUME tick % d # 0 PROVE tick > 0 /\ (tick - 1) \div d = q
  <2>1. q * d <= tick - 1
    BY <1>3, <1>4, <1>6
  <2>2. tick # 0
    <3>1. tick = 0 => q = 0
      BY <1>2 DEF q
    <3> QED
      BY <1>3, <1>4, <1>6, <3>1
  <2>3. tick - 1 \in Int /\ tick - 1 < q * d + d
    BY <1>3
  <2> QED
    BY <1>3, <2>1, <2>2, <2>3, QuotientIs
<1>7. LatestFiring(tick - 1, d) = ((tick - 1) \div d) * d /\ LatestFiring(0, d) = 0
  BY <1>2 DEF LatestFiring
<1> QED
  BY <1>3, <1>4, <1>5, <1>6, <1>7 DEF FiresAt

\* The laws that are due fire, the outer one first.
LEMMA LawsFire ==
    ASSUME SimTypes, running, run.driver = "two_rate", AtTick, BaseTick
    PROVE  u' \in Commands /\ r' \in Int /\ Held([u |-> u', r |-> r'], k)
<1>1. k \in Nat /\ run.outer \in Nat \ {0} /\ run.inner \in Nat \ {0}
  BY RunIs DEF SimTypes, AtTick
<1>2. /\ r' = IF FiresAt(k, run.outer) THEN k ELSE r
      /\ u' = IF FiresAt(k, run.inner) THEN [tick |-> k, from |-> r'] ELSE u
  BY DEF BaseTick, InnerReference
<1>3. /\ FiresAt(k, run.outer) => LatestFiring(k, run.outer) = k
      /\ FiresAt(k, run.inner) => LatestFiring(k, run.inner) = k
      /\ ~FiresAt(k, run.outer) => k > 0 /\ LatestFiring(k, run.outer) = LatestFiring(k - 1, run.outer)
      /\ ~FiresAt(k, run.inner) => k > 0 /\ LatestFiring(k, run.inner) = LatestFiring(k - 1, run.inner)
  BY <1>1, FiringStep
<1>4. k > 0 => /\ u.tick = LatestFiring(k - 1, run.inner)
               /\ r = LatestFiring(k - 1, run.outer)
               /\ u.from = LatestFiring(u.tick, run.outer)
  BY DEF AtTick, Held
<1>5. r' = LatestFiring(k, run.outer) /\ r' \in Int
  BY <1>1, <1>2, <1>3, <1>4 DEF SimTypes
<1>6. u' \in Commands
  BY <1>1, <1>2, <1>5 DEF SimTypes, Commands
<1>7. u'.tick = LatestFiring(k, run.inner) /\ u'.from = LatestFiring(u'.tick, run.outer)
  <2>1. CASE FiresAt(k, run.inner)
    <3>1. u'.tick = k /\ u'.from = r'
      BY <1>2, <2>1
    <3> QED
      BY <1>3, <1>5, <2>1, <3>1
  <2>2. CASE ~FiresAt(k, run.inner)
    BY <1>2, <1>3, <1>4, <2>2
  <2> QED
    BY <2>1, <2>2
<1> QED
  BY <1>5, <1>6, <1>7 DEF Held

\* The plant's segment of tick k.
TickFrom == GridTime(0, run.tf, TsBase, k)
TickTo == GridTime(0, run.tf, TsBase, k + 1)

LEMMA TickIs ==
    ASSUME SimTypes, run.driver = "two_rate", run.tf > 0, k < Ticks
    PROVE  /\ TickFrom = k * TsBase /\ TickFrom \in Nat /\ TickTo \in Int
           /\ TickFrom < TickTo /\ TickTo <= TickFrom + TsBase /\ TickTo <= run.tf
           /\ k + 1 = Ticks <=> TickTo = run.tf
           /\ \A time \in TickFrom + 1 .. TickTo : TickOf(time) = k
           /\ TickFrom = 0 <=> k = 0
<1>1. 0 \in Int /\ run.tf \in Int /\ TsBase \in Nat \ {0} /\ k \in Nat /\ 0 < run.tf
  BY RunIs DEF SimTypes
<1>2. k < StepCount(0, run.tf, TsBase)
  BY DEF Ticks
<1>3. /\ TickFrom = 0 + k * TsBase /\ k * TsBase \in Nat
      /\ TickFrom < TickTo /\ TickTo \in Int
      /\ TickTo <= TickFrom + TsBase /\ TickTo <= run.tf
      /\ k + 1 = Ticks <=> TickTo = run.tf
  BY <1>1, <1>2, GridIs DEF TickFrom, TickTo, Ticks
<1>4. ASSUME NEW time \in TickFrom + 1 .. TickTo PROVE TickOf(time) = k
  <2>1. time - 1 \in Int /\ k * TsBase <= time - 1 /\ time - 1 < k * TsBase + TsBase /\ time # 0
    BY <1>1, <1>3
  <2> DEFINE before == time - 1
  <2>2. before \div TsBase = k
    <3>1. before \in Int /\ k * TsBase <= before /\ before < k * TsBase + TsBase /\ k \in Int
      BY <1>1, <2>1
    <3> HIDE DEF before
    <3> QED
      BY <1>1, <3>1, QuotientIs
  <2> QED
    BY <2>1, <2>2 DEF TickOf
<1>5. k * TsBase = 0 <=> k = 0
  BY <1>1
<1> QED
  BY <1>1, <1>3, <1>4, <1>5

\* What a tick appends, under a command and a reference: the first sample of the log,
\* and the fine steps that are kept.
FirstOf(cmd, ref) == IF log = <<>> THEN <<Sample(TickFrom, x, cmd, ref, m)>> ELSE <<>>

TailOf(seg, cmd, ref) ==
    [j \in DOMAIN Kept(seg) |->
       Sample(Kept(seg)[j], [x EXCEPT !.at = @ + (Kept(seg)[j] - TickFrom)], cmd, ref, m)]

\* Sound samples of a two-rate run.
Sound == {s \in SampleSet : Integrated(s) /\ Held(s, TickOf(s.t))}

LEMMA TickLogs ==
    ASSUME SimTypes, TwoRateInv, running, run.driver = "two_rate", k < Ticks,
           NEW cmd \in Commands, NEW ref \in Int, Held([u |-> cmd, r |-> ref], k),
           NEW seg \in Segments(TickFrom, TickTo)
    PROVE  LET whole == log \o FirstOf(cmd, ref) \o TailOf(seg, cmd, ref) IN
           /\ whole \in Seq(SampleSet) /\ whole # <<>> /\ Ordered(whole)
           /\ \A i \in 1 .. Len(whole) : whole[i] \in Sound
           /\ whole[Len(whole)].t = IF seg = <<>> THEN TickFrom ELSE seg[Len(seg)]
<1> DEFINE base  == log \o FirstOf(cmd, ref)
           tail  == TailOf(seg, cmd, ref)
           n     == StepCount(0, Len(seg), Stride)
           first == Sample(TickFrom, x, cmd, ref, m)
<1>1. /\ run.tf > 0 /\ AtTick /\ Stride \in Nat \ {0} /\ x \in States /\ m \in Int
      /\ x.at = TickFrom /\ log \in Seq(SampleSet) /\ Ordered(log)
      /\ \A i \in 1 .. Len(log) : log[i] \in Sound
  <2>1. Len(log) \in Nat /\ \A i \in 1 .. Len(log) : log[i] \in SampleSet
    BY LenProperties, ElementOfSeq DEF SimTypes
  <2> QED
    BY <2>1, RunIs DEF SimTypes, TwoRateInv, AtTick, Stride, Sound, TickFrom
<1>2. /\ TickFrom \in Nat /\ TickTo \in Int /\ TickFrom < TickTo
      /\ \A time \in TickFrom + 1 .. TickTo : TickOf(time) = k
      /\ TickFrom = 0 <=> k = 0
  BY <1>1, TickIs
<1>3. Held(first, k) /\ first \in SampleSet /\ first.t = TickFrom /\ first.x = x
  BY <1>1, <1>2, SampleIs DEF Held
<1>4. /\ base \in Seq(SampleSet) /\ base # <<>> /\ Ordered(base)
      /\ \A i \in 1 .. Len(base) : base[i] \in Sound
      /\ base[Len(base)].t = TickFrom
  <2>1. CASE log = <<>>
    <3>1. k = 0 /\ TickFrom = 0
      BY <1>1, <1>2, <2>1 DEF AtTick
    <3>2. base = <<first>>
      BY <1>3, <2>1 DEF FirstOf
    <3>3. TickOf(first.t) = k
      BY <1>3, <3>1 DEF TickOf
    <3>4. first \in Sound
      BY <1>1, <1>3, <3>3 DEF Sound, Integrated
    <3> HIDE DEF base, first
    <3>5. base \in Seq(SampleSet) /\ Len(base) = 1 /\ base[1] = first /\ base # <<>>
      BY <1>3, <3>2
    <3>6. DOMAIN base = 1 .. 1
      BY <3>5, LenProperties
    <3> QED
      BY <1>3, <3>1, <3>4, <3>5, <3>6 DEF Ordered
  <2>2. CASE log # <<>>
    <3>1. base = log
      BY <1>1, <2>2, ConcatEmptySeq DEF FirstOf
    <3> QED
      BY <1>1, <2>2, <3>1 DEF AtTick
  <2> QED
    BY <2>1, <2>2
<1> HIDE DEF base, first
<1>5. /\ Len(seg) \in Nat /\ DOMAIN Kept(seg) = 1 .. n
      /\ seg = <<>> => n = 0
      /\ seg # <<>> => /\ n \in Nat \ {0} /\ Kept(seg)[n] = seg[Len(seg)]
      /\ \A j \in 1 .. n : Kept(seg)[j] \in TickFrom + 1 .. TickTo
      /\ \A j \in 1 .. n : j # 1 => Kept(seg)[j - 1] < Kept(seg)[j]
  <2>1. TickFrom \in Int
    BY <1>2
  <2> QED
    BY <1>1, <1>2, <2>1, KeptIs
<1>6. n \in Nat /\ (seg = <<>> <=> n = 0)
  BY <1>5
<1> HIDE DEF n
<1>7. ASSUME NEW j \in 1 .. n
      PROVE  tail[j] \in Sound /\ tail[j].t = Kept(seg)[j]
  <2> DEFINE at    == Kept(seg)[j]
             moved == [x EXCEPT !.at = @ + (at - TickFrom)]
  <2>1. at \in Int /\ TickOf(at) = k /\ at - TickFrom \in Int
    BY <1>2, <1>5
  <2>2. tail[j] = Sample(at, moved, cmd, ref, m)
    BY <1>5 DEF TailOf
  <2>3. moved \in States /\ moved.at = x.at + (at - TickFrom)
    <3> HIDE DEF at
    <3> QED
      BY <1>1, <2>1, MovedOn
  <2>4. moved.at = at
    BY <1>1, <1>2, <2>1, <2>3
  <2> HIDE DEF moved, at, tail
  <2>5. tail[j] \in SampleSet /\ tail[j].t = at /\ tail[j].x = moved /\ tail[j].u = cmd /\ tail[j].r = ref
    BY <1>1, <2>1, <2>2, <2>3, SampleIs
  <2>6. Held(tail[j], k)
    BY <2>5 DEF Held
  <2>7. tail[j] \in Sound
    BY <2>1, <2>4, <2>5, <2>6 DEF Sound, Integrated
  <2> QED
    BY <2>5, <2>7 DEF at
<1>8. tail \in Seq(SampleSet) /\ Len(tail) = n
  <2>1. tail \in [1 .. n -> SampleSet]
    <3>1. tail = [j \in 1 .. n |-> tail[j]]
      BY <1>5 DEF TailOf
    <3> HIDE DEF tail
    <3> QED
      BY <1>7, <3>1 DEF Sound
  <2> HIDE DEF tail
  <2>2. tail \in Seq(SampleSet)
    BY <1>6, <2>1, SeqDef
  <2>3. Len(tail) \in Nat /\ 1 .. Len(tail) = 1 .. n
    BY <2>1, <2>2, LenProperties
  <2> QED
    BY <1>6, <2>2, <2>3, LengthIs
<1> HIDE DEF tail
<1>9. GoesOn(base, tail)
  <2> SUFFICES ASSUME NEW j \in 1 .. n
               PROVE  tail[j].t > (IF j = 1 THEN base[Len(base)].t ELSE tail[j - 1].t)
    BY <1>8 DEF GoesOn
  <2>1. tail[j].t = Kept(seg)[j] /\ Kept(seg)[j] \in TickFrom + 1 .. TickTo
    BY <1>5, <1>7
  <2>2. ASSUME j # 1 PROVE tail[j - 1].t < tail[j].t
    <3>1. j - 1 \in 1 .. n
      BY <1>6, <2>2
    <3>2. tail[j - 1].t = Kept(seg)[j - 1] /\ Kept(seg)[j - 1] < Kept(seg)[j]
          /\ Kept(seg)[j - 1] \in TickFrom + 1 .. TickTo
      BY <1>5, <1>7, <2>2, <3>1
    <3> QED
      BY <1>2, <2>1, <3>2
  <2>3. tail[j].t > base[Len(base)].t
    BY <1>2, <1>4, <2>1
  <2>4. j # 1 => tail[j - 1].t \in Int /\ tail[j].t \in Int
    <3>1. j # 1 => j - 1 \in 1 .. n
      BY <1>6
    <3> QED
      BY <1>7, <3>1, SampleHas DEF Sound
  <2> QED
    BY <2>2, <2>3, <2>4
<1> DEFINE whole == base \o tail
<1>10. /\ whole \in Seq(SampleSet) /\ whole # <<>> /\ Ordered(whole)
       /\ whole[Len(whole)] = IF tail = <<>> THEN base[Len(base)] ELSE tail[Len(tail)]
  BY <1>4, <1>8, <1>9, OrderedGoesOn
<1>11. \A i \in 1 .. Len(whole) : whole[i] \in Sound
  BY <1>4, <1>7, <1>8, EachGoesOn
<1>12. whole[Len(whole)].t = IF seg = <<>> THEN TickFrom ELSE seg[Len(seg)]
  <2>1. CASE seg = <<>>
    BY <1>4, <1>6, <1>8, <1>10, <2>1, EmptySeq
  <2>2. CASE seg # <<>>
    <3>1. n \in 1 .. n /\ tail # <<>>
      BY <1>6, <1>8, <2>2, EmptySeq
    <3>2. whole[Len(whole)] = tail[n] /\ tail[n].t = Kept(seg)[n]
      BY <1>7, <1>8, <1>10, <3>1
    <3> QED
      BY <1>5, <2>2, <3>2
  <2> QED
    BY <2>1, <2>2
<1> HIDE DEF whole
<1>13. log \o FirstOf(cmd, ref) \o TailOf(seg, cmd, ref) = whole
  BY DEF base, tail, whole
<1> QED
  BY <1>10, <1>11, <1>12, <1>13

\* A tick keeps the invariant, and when the plant's solver stops short of its end the
\* run fails, with a log that ends before tf.
LEMMA BaseTickKeeps ==
    ASSUME SimTypes, TwoRateInv, BaseTick
    PROVE  SimTypes' /\ TwoRateInv' /\ PiecewiseInv' /\ ShortMeansFailed'
<1>1. /\ running /\ run.driver = "two_rate" /\ k < Ticks /\ AtTick
      /\ UNCHANGED <<run, t, m>>
  BY DEF BaseTick, Ticks, TwoRateInv
<1>2. u' \in Commands /\ r' \in Int /\ Held([u |-> u', r |-> r'], k)
  BY <1>1, LawsFire
<1>3. /\ TickFrom \in Nat /\ TickTo \in Int /\ TickFrom < TickTo /\ TickTo <= run.tf
      /\ k + 1 = Ticks <=> TickTo = run.tf
      /\ x.at = TickFrom /\ run.tf \in Int /\ Ticks \in Nat /\ k \in Nat
  <2>1. Ticks \in Nat
    BY <1>1, RunIs, StepCountIs DEF AtTick, Ticks
  <2> QED
    BY <1>1, <2>1, TickIs, RunIs DEF AtTick, TickFrom, SimTypes
<1>4. PICK seg \in Segments(TickFrom, TickTo) :
        /\ log' = log \o FirstOf(u', r') \o TailOf(seg, u', r')
        /\ x' = IF seg = <<>> THEN x ELSE [x EXCEPT !.at = @ + (seg[Len(seg)] - TickFrom)]
        /\ IF seg # <<>> /\ seg[Len(seg)] = TickTo
           THEN k' = k + 1 /\ UNCHANGED <<running, success>>
           ELSE Stop /\ UNCHANGED k
  BY DEF BaseTick, TickFrom, TickTo, FirstOf, TailOf, Last
<1> DEFINE last == IF seg = <<>> THEN TickFrom ELSE seg[Len(seg)]
<1>5. /\ log' \in Seq(SampleSet) /\ log' # <<>> /\ Ordered(log')
      /\ \A i \in 1 .. Len(log') : log'[i] \in Sound
      /\ log'[Len(log')].t = last
  BY <1>1, <1>2, <1>4, TickLogs
<1>6. last \in TickFrom .. TickTo /\ (seg = <<>> => last # TickTo)
      /\ (seg # <<>> => seg[Len(seg)] \in Int)
  <2>1. Stride \in Nat \ {0} /\ TickFrom \in Int
    BY <1>1, <1>3, RunIs DEF Stride
  <2>2. seg # <<>> => seg[Len(seg)] \in TickFrom + 1 .. TickTo
    BY <1>3, <2>1, KeptIs
  <2> QED
    BY <1>3, <2>2
<1>7. x' \in States /\ x'.at = last
  <2>1. CASE seg = <<>>
    BY <1>3, <1>4, <2>1 DEF SimTypes
  <2>2. CASE seg # <<>>
    <3> DEFINE d == seg[Len(seg)] - TickFrom
    <3>1. x' = [x EXCEPT !.at = @ + d] /\ d \in Int /\ x \in States
      BY <1>3, <1>4, <1>6, <2>2 DEF SimTypes
    <3> HIDE DEF d
    <3>2. x' \in States /\ x'.at = x.at + d
      BY <3>1, MovedOn
    <3> QED
      BY <1>3, <1>6, <2>2, <3>2 DEF d
  <2> QED
    BY <2>1, <2>2
<1>8. /\ Ordered(log)' /\ Ticks' = Ticks
      /\ \A i \in 1 .. Len(log') : (Integrated(log[i]) /\ Held(log[i], TickOf(log[i].t)))'
  <2>1. ASSUME NEW s PROVE Held(s, TickOf(s.t)) <=> Held(s, TickOf(s.t))'
    BY <1>1 DEF Held
  <2>2. Ordered(log)'
    BY <1>5 DEF Ordered
  <2>3. ASSUME NEW i \in 1 .. Len(log') PROVE (Integrated(log[i]) /\ Held(log[i], TickOf(log[i].t)))'
    <3>1. Integrated(log'[i]) /\ Held(log'[i], TickOf(log'[i].t))
      BY <1>5 DEF Sound
    <3> QED
      BY <1>1, <3>1 DEF Held, Integrated
  <2>4. Ticks' = Ticks
    BY <1>1 DEF Ticks
  <2> QED
    BY <2>2, <2>3, <2>4
<1>9. CASE seg # <<>> /\ seg[Len(seg)] = TickTo
  <2>1. k' = k + 1 /\ running' = running /\ success' = success /\ last = TickTo
    BY <1>4, <1>9
  <2>2. Held([u |-> u, r |-> r], k - 1)'
    <3>1. k' - 1 = k
      BY <1>3, <2>1
    <3> QED
      BY <1>1, <1>2, <3>1 DEF Held
  <2>3. x'.at = GridTime(0, run.tf, TsBase, k')
    BY <1>7, <2>1 DEF TickTo
  <2>4. AtTick'
    BY <1>1, <1>3, <1>5, <1>7, <1>8, <2>1, <2>2, <2>3 DEF AtTick
  <2>5. SimTypes'
    BY <1>1, <1>2, <1>3, <1>5, <1>7, <2>1 DEF SimTypes
  <2> QED
    BY <1>1, <1>8, <2>1, <2>4, <2>5 DEF TwoRateInv, PiecewiseInv, ShortMeansFailed
<1>10. CASE ~(seg # <<>> /\ seg[Len(seg)] = TickTo)
  <2>1. k' = k /\ running' = FALSE /\ success' = FALSE /\ last # TickTo
    BY <1>4, <1>6, <1>10 DEF Stop
  <2>2. SimTypes'
    BY <1>1, <1>2, <1>3, <1>5, <1>7, <2>1 DEF SimTypes
  <2>3. log'[Len(log')].t # run'.tf
    BY <1>1, <1>3, <1>5, <1>6, <2>1
  <2>4. ShortMeansFailed'
    BY <1>1, <2>1, <2>3 DEF ShortMeansFailed, Last
  <2> QED
    BY <1>1, <1>8, <2>1, <2>2, <2>4 DEF TwoRateInv, PiecewiseInv
<1> QED
  BY <1>9, <1>10

\* The other ways a two-rate run goes on or ends.
LEMMA TwoRateStopsKeep ==
    ASSUME SimTypes, TwoRateInv, TickLimit \/ TwoRateEnd
    PROVE  SimTypes' /\ TwoRateInv' /\ PiecewiseInv' /\ ShortMeansFailed'
<1>1. /\ running /\ run.driver = "two_rate" /\ AtTick /\ running' = FALSE
      /\ UNCHANGED <<run, log, k, t, x, u, r, m>>
  BY DEF TickLimit, TwoRateEnd, TwoRateInv, Stop
<1>2. success' \in BOOLEAN
  BY DEF TickLimit, TwoRateEnd, Stop, SimTypes
<1>3. SimTypes' /\ TwoRateInv' /\ PiecewiseInv'
  BY <1>1, <1>2 DEF SimTypes, TwoRateInv, PiecewiseInv, Held, Ordered, Integrated
<1>4. run.tf \in Int /\ run.tf > 0 /\ k \in Nat /\ Ticks \in Nat \ {0} /\ Ticks' = Ticks
  <2>1. run.tf \in Int /\ 0 < run.tf /\ k \in Nat /\ TsBase \in Nat \ {0} /\ 0 \in Int
    BY <1>1, RunIs DEF AtTick, SimTypes
  <2>2. StepCount(0, run.tf, TsBase) \in Nat \ {0}
    BY <2>1, StepCountIs
  <2> QED
    BY <1>1, <2>1, <2>2 DEF Ticks
<1>5. CASE TickLimit
  <2>1. success' = FALSE /\ k < Ticks
    BY <1>5 DEF TickLimit, Stop, Ticks
  <2>2. log # <<>> => log[Len(log)].t < run.tf
    <3>1. 0 \in Int /\ 0 < run.tf
      BY <1>4
    <3>2. GridTime(0, run.tf, TsBase, k) < run.tf
      BY <1>4, <2>1, <3>1, GridIs, RunIs DEF Ticks
    <3> QED
      BY <1>1, <3>2 DEF AtTick
  <2>3. ~(log # <<>> /\ log[Len(log)].t = run.tf)
    <3>1. log # <<>> => log[Len(log)].t \in Int
      BY <1>1, <1>4, RunIs, LenProperties, EmptySeq, ElementOfSeq, SampleHas DEF SimTypes
    <3> QED
      BY <1>4, <2>2, <3>1
  <2> QED
    BY <1>1, <1>3, <2>1, <2>3 DEF ShortMeansFailed, Last
<1>6. CASE TwoRateEnd
  <2>1. success' = TRUE /\ k = Ticks
    BY <1>1, <1>4, <1>6 DEF TwoRateEnd, Ticks, AtTick
  <2>2. x.at = run.tf
    BY <1>1, <1>4, <2>1, GridEnds DEF AtTick, Ticks
  <2>3. log # <<>> /\ log[Len(log)].t = run.tf
    BY <1>1, <1>4, <2>1, <2>2 DEF AtTick
  <2> QED
    BY <1>1, <1>3, <1>4, <2>1, <2>3 DEF ShortMeansFailed, Last, Ticks
<1> QED
  BY <1>5, <1>6

-----------------------------------------------------------------------------
(* A segment of simulate_piecewise_lti().                                  *)

\* A log of a piecewise run.
PieceLog(l) ==
    /\ l \in Seq(SampleSet) /\ l # <<>> /\ Ordered(l)
    /\ \A i \in 1 .. Len(l) : Integrated(l[i])
    /\ \A i \in 2 .. Len(l) : Follows(l[i], l[i - 1])

\* The command, the mode and the events of two samples are the same.
Same(s, z) == s.u = z.u /\ s.mode = z.mode /\ s.x.event = z.x.event

\* The tick of every event in a log is the tick of a command in it.
LEMMA EventsAre ==
    ASSUME NEW l \in Seq(SampleSet)
    PROVE  \A e : e \in Events(l) <=> e # -1 /\ \E i \in 1 .. Len(l) : e = l[i].u.tick
<1>1. DOMAIN l = 1 .. Len(l)
  BY LenProperties
<1> QED
  BY <1>1 DEF Events

\* A log goes on with samples of what is.
LEMMA PieceGoesOn ==
    ASSUME NEW l, PieceLog(l), NEW samples \in Seq(SampleSet), GoesOn(l, samples),
           \A j \in 1 .. Len(samples) : Integrated(samples[j]) /\ Same(samples[j], l[Len(l)])
    PROVE  LET whole == l \o samples IN
           /\ PieceLog(whole) /\ Same(whole[Len(whole)], l[Len(l)])
           /\ whole[Len(whole)] = IF samples = <<>> THEN l[Len(l)] ELSE samples[Len(samples)]
           /\ Events(whole) = Events(l)
<1> DEFINE whole == l \o samples
<1>1. /\ l \in Seq(SampleSet) /\ l # <<>> /\ Ordered(l) /\ Len(l) \in Nat \ {0}
      /\ Len(samples) \in Nat /\ (samples = <<>> <=> Len(samples) = 0)
  BY LenProperties, EmptySeq DEF PieceLog
<1>2. /\ whole \in Seq(SampleSet) /\ whole # <<>> /\ Ordered(whole)
      /\ whole[Len(whole)] = IF samples = <<>> THEN l[Len(l)] ELSE samples[Len(samples)]
  BY <1>1, OrderedGoesOn
<1>3. /\ Len(whole) = Len(l) + Len(samples)
      /\ \A i \in 1 .. Len(l) + Len(samples) :
           whole[i] = IF i <= Len(l) THEN l[i] ELSE samples[i - Len(l)]
  BY <1>1, ConcatProperties
<1> HIDE DEF whole
<1>4. \A i \in 1 .. Len(whole) : i > Len(l) => i - Len(l) \in 1 .. Len(samples) /\ ~(i <= Len(l))
  BY <1>1, <1>3
<1>5. \A i \in 1 .. Len(whole) :
        IF i <= Len(l) THEN whole[i] = l[i]
        ELSE Integrated(whole[i]) /\ Same(whole[i], l[Len(l)])
  BY <1>1, <1>3, <1>4
<1>6. \A i \in 1 .. Len(whole) : Integrated(whole[i])
  <2>1. \A i \in 1 .. Len(whole) : i <= Len(l) => i \in 1 .. Len(l)
    BY <1>1
  <2> QED
    BY <1>5, <2>1 DEF PieceLog
<1>7. ASSUME NEW i \in 2 .. Len(whole) PROVE Follows(whole[i], whole[i - 1])
  <2>1. i \in 1 .. Len(whole) /\ i - 1 \in 1 .. Len(whole)
    BY <1>1, <1>3
  <2>2. CASE i <= Len(l)
    <3>1. whole[i] = l[i] /\ whole[i - 1] = l[i - 1] /\ i \in 2 .. Len(l)
      <4>1. i - 1 <= Len(l) /\ i \in 2 .. Len(l)
        BY <1>1, <2>1, <2>2
      <4> QED
        BY <1>5, <2>1, <2>2, <4>1
    <3> QED
      BY <3>1 DEF PieceLog
  <2>3. CASE i > Len(l)
    <3>1. Same(whole[i], l[Len(l)])
      BY <1>1, <1>5, <2>1, <2>3
    <3>2. Same(whole[i - 1], l[Len(l)])
      <4>1. CASE i - 1 = Len(l)
        BY <1>1, <1>5, <2>1, <4>1 DEF Same
      <4>2. CASE i - 1 > Len(l)
        BY <1>1, <1>5, <2>1, <4>2
      <4> QED
        BY <1>1, <2>1, <2>3, <4>1, <4>2
    <3> QED
      BY <3>1, <3>2 DEF Same, Follows
  <2> QED
    BY <1>1, <2>1, <2>2, <2>3
<1>8. Same(whole[Len(whole)], l[Len(l)])
  <2>1. Len(whole) \in 1 .. Len(whole)
    BY <1>1, <1>3
  <2> QED
    BY <1>1, <1>2, <1>5, <2>1 DEF Same
<1>9. Events(whole) = Events(l)
  <2>1. ASSUME NEW e, e \in Events(whole) PROVE e \in Events(l)
    <3>1. PICK i \in 1 .. Len(whole) : e = whole[i].u.tick
      BY <1>2, <2>1, EventsAre
    <3>2. e # -1
      BY <1>2, <2>1, EventsAre
    <3>3. CASE i <= Len(l)
      <4>1. i \in 1 .. Len(l) /\ e = l[i].u.tick
        BY <1>1, <1>5, <3>1, <3>3
      <4> QED
        BY <1>1, <3>2, <4>1, EventsAre
    <3>4. CASE ~(i <= Len(l))
      <4>1. e = l[Len(l)].u.tick /\ Len(l) \in 1 .. Len(l)
        BY <1>1, <1>5, <3>1, <3>4 DEF Same
      <4> QED
        BY <1>1, <3>2, <4>1, EventsAre
    <3> QED
      BY <3>3, <3>4
  <2>2. ASSUME NEW e, e \in Events(l) PROVE e \in Events(whole)
    <3>1. PICK i \in 1 .. Len(l) : e = l[i].u.tick
      BY <1>1, <2>2, EventsAre
    <3>2. e # -1
      BY <1>1, <2>2, EventsAre
    <3>3. i \in 1 .. Len(whole) /\ i <= Len(l)
      BY <1>1, <1>3
    <3>4. e = whole[i].u.tick
      BY <1>5, <3>1, <3>3
    <3> QED
      BY <1>2, <3>2, <3>3, <3>4, EventsAre
  <2> QED
    BY <2>1, <2>2
<1> QED
  BY <1>2, <1>6, <1>7, <1>8, <1>9 DEF PieceLog, whole

\* A log goes on with one sample, whatever it shows.
LEMMA PieceAppended ==
    ASSUME NEW l, PieceLog(l), NEW s \in SampleSet, Integrated(s), s.t > l[Len(l)].t,
           Follows(s, l[Len(l)])
    PROVE  LET whole == l \o <<s>> IN
           /\ PieceLog(whole) /\ Len(whole) = Len(l) + 1 /\ whole[Len(whole)] = s
           /\ \A i \in 1 .. Len(l) : whole[i] = l[i]
           /\ Events(whole) = Events(l) \cup ({s.u.tick} \ {-1})
<1> DEFINE whole == l \o <<s>>
           one   == <<s>>
<1>1. /\ l \in Seq(SampleSet) /\ l # <<>> /\ Ordered(l) /\ Len(l) \in Nat \ {0}
      /\ one \in Seq(SampleSet) /\ Len(one) = 1 /\ one[1] = s /\ one # <<>>
  BY LenProperties, EmptySeq DEF PieceLog
<1>2. GoesOn(l, one)
  BY <1>1 DEF GoesOn
<1> HIDE DEF one
<1>3. /\ l \o one \in Seq(SampleSet) /\ l \o one # <<>> /\ Ordered(l \o one)
      /\ (l \o one)[Len(l \o one)] = s
  BY <1>1, <1>2, OrderedGoesOn
<1>4. /\ Len(l \o one) = Len(l) + 1
      /\ \A i \in 1 .. Len(l) + 1 : (l \o one)[i] = IF i <= Len(l) THEN l[i] ELSE one[i - Len(l)]
  <2>1. /\ Len(l \o one) = Len(l) + Len(one)
        /\ \A i \in 1 .. Len(l) + Len(one) :
             (l \o one)[i] = IF i <= Len(l) THEN l[i] ELSE one[i - Len(l)]
    BY <1>1, ConcatProperties
  <2> QED
    BY <1>1, <2>1
<1>5. whole = l \o one
  BY DEF one
<1> HIDE DEF whole
<1>6. /\ \A i \in 1 .. Len(l) : whole[i] = l[i] /\ i \in 1 .. Len(whole)
      /\ Len(whole) = Len(l) + 1 /\ whole[Len(whole)] = s
  BY <1>1, <1>3, <1>4, <1>5
<1>7. \A i \in 1 .. Len(whole) : i \in 1 .. Len(l) \/ i = Len(whole)
  BY <1>1, <1>6
<1>8. \A i \in 1 .. Len(whole) : Integrated(whole[i])
  BY <1>6, <1>7 DEF PieceLog
<1>9. ASSUME NEW i \in 2 .. Len(whole) PROVE Follows(whole[i], whole[i - 1])
  <2>1. i - 1 \in 1 .. Len(l) /\ (i \in 2 .. Len(l) \/ i = Len(whole))
    BY <1>1, <1>6
  <2>2. CASE i = Len(whole)
    BY <1>1, <1>6, <2>1, <2>2
  <2>3. CASE i \in 2 .. Len(l)
    <3>1. i \in 1 .. Len(l)
      BY <2>3
    <3> QED
      BY <1>6, <2>1, <2>3, <3>1 DEF PieceLog
  <2> QED
    BY <2>1, <2>2, <2>3
<1>10. ASSUME NEW e PROVE e \in Events(whole) <=> e \in Events(l) \cup ({s.u.tick} \ {-1})
  <2>1. (\E i \in 1 .. Len(whole) : e = whole[i].u.tick)
          <=> (\E i \in 1 .. Len(l) : e = l[i].u.tick) \/ e = s.u.tick
    <3>1. Len(whole) \in 1 .. Len(whole)
      BY <1>1, <1>6
    <3> QED
      BY <1>6, <1>7, <3>1
  <2>2. e \in Events(whole) <=> e # -1 /\ \E i \in 1 .. Len(whole) : e = whole[i].u.tick
    <3>1. whole \in Seq(SampleSet)
      BY <1>3, <1>5
    <3> QED
      BY <3>1, EventsAre
  <2>3. e \in Events(l) <=> e # -1 /\ \E i \in 1 .. Len(l) : e = l[i].u.tick
    BY <1>1, EventsAre
  <2> QED
    BY <2>1, <2>2, <2>3
<1>11. Events(whole) = Events(l) \cup ({s.u.tick} \ {-1})
  BY <1>10
<1>12. PieceLog(whole)
  BY <1>3, <1>5, <1>8, <1>9 DEF PieceLog
<1> QED
  BY <1>6, <1>11, <1>12 DEF whole

\* The fine samples lie between the segment's ends, on the way of the held command.
LEMMA FineIs ==
    ASSUME SimTypes, PiecewiseInv, running, run.driver = "piecewise", NEW to \in Int, t < to
    PROVE  /\ Fine(to) \in Seq(SampleSet) /\ GoesOn(log, Fine(to))
           /\ \A j \in 1 .. Len(Fine(to)) :
                Integrated(Fine(to)[j]) /\ Same(Fine(to)[j], log[Len(log)]) /\ Fine(to)[j].t < to
<1> DEFINE c == IF run.h = 0 THEN 0 ELSE StepCount(t, to, run.h) - 1
           fine == Fine(to)
<1>1. /\ AtEvent /\ run.h \in Nat /\ t \in Int /\ x \in States /\ u \in Commands
      /\ r \in Int /\ m \in Int /\ x.at = t
  BY RunIs DEF PiecewiseInv, AtEvent, SimTypes
<1>2. c \in Nat /\ (c > 0 => run.h \in Nat \ {0} /\ c < StepCount(t, to, run.h) /\ StepCount(t, to, run.h) \in Nat)
  <2>1. run.h # 0 => StepCount(t, to, run.h) \in Nat \ {0}
    BY <1>1, StepCountIs
  <2> QED
    BY <1>1, <2>1
<1> HIDE DEF c
<1>3. ASSUME NEW j \in 1 .. c
      PROVE  /\ fine[j] \in SampleSet /\ fine[j].t = GridTime(t, to, run.h, j) /\ fine[j].t \in Int
             /\ t < fine[j].t /\ fine[j].t < to
             /\ (j # 1 => GridTime(t, to, run.h, j - 1) < GridTime(t, to, run.h, j))
             /\ Integrated(fine[j]) /\ Same(fine[j], log[Len(log)])
  <2> DEFINE at    == GridTime(t, to, run.h, j)
             moved == [x EXCEPT !.at = @ + (at - t)]
             n     == StepCount(t, to, run.h)
  <2>1. fine[j] = Sample(at, moved, u, r, m)
    BY <1>1 DEF Fine, c
  <2>2. n \in Nat /\ j \in Nat /\ 0 \in Nat /\ 0 < j /\ j < n /\ run.h \in Nat \ {0} /\ n \in Nat
    BY <1>2
  <2>3. /\ GridTime(t, to, run.h, 0) < at /\ at \in t .. to /\ at < GridTime(t, to, run.h, n)
        /\ GridTime(t, to, run.h, n) = to
    <3>1. j <= n /\ n <= n /\ n >= n
      BY <2>2
    <3>2. GridTime(t, to, run.h, 0) < at /\ at \in t .. to
      BY <1>1, <2>2, <3>1, GridIncreases
    <3>3. GridTime(t, to, run.h, j) < GridTime(t, to, run.h, n)
      <4> HIDE DEF n
      <4>1. n <= StepCount(t, to, run.h)
        BY <3>1 DEF n
      <4> QED
        BY <1>1, <2>2, <4>1, GridIncreases
    <3>4. GridTime(t, to, run.h, n) = to
      BY <3>1, GridEnds
    <3> QED
      BY <3>2, <3>3, <3>4
  <2>4. t <= GridTime(t, to, run.h, 0)
    <3>1. GridTime(t, to, run.h, 0) = t + 0 * run.h
      <4>1. 0 < n
        BY <2>2
      <4> QED
        BY <1>1, <2>2, <4>1, GridIs
    <3> QED
      BY <1>1, <2>2, <3>1
  <2>5. j # 1 => GridTime(t, to, run.h, j - 1) < GridTime(t, to, run.h, j)
    <3> DEFINE i == j - 1
    <3>1. ASSUME j # 1 PROVE GridTime(t, to, run.h, i) < GridTime(t, to, run.h, j)
      <4>1. i \in Nat /\ i < j /\ j <= StepCount(t, to, run.h)
        BY <2>2, <3>1
      <4> HIDE DEF i
      <4> QED
        BY <1>1, <2>2, <4>1, GridIncreases
    <3> QED
      BY <3>1
  <2> HIDE DEF at, n
  <2>6. at \in Int /\ at - t \in Int /\ t < at /\ at < to
    <3>1. t <= GridTime(t, to, run.h, 0) /\ GridTime(t, to, run.h, 0) < at
      BY <2>3, <2>4
    <3>2. 0 < n /\ GridTime(t, to, run.h, 0) \in Int
      <4>1. 0 < StepCount(t, to, run.h)
        BY <2>2 DEF n
      <4>2. GridTime(t, to, run.h, 0) = t + 0 * run.h
        BY <1>1, <2>2, <4>1, GridIs
      <4> QED
        BY <1>1, <2>2, <4>2
    <3> QED
      BY <1>1, <2>3, <3>1, <3>2
  <2>7. moved \in States /\ moved.at = at /\ moved.event = x.event
    <3> DEFINE d == at - t
    <3>1. [x EXCEPT !.at = @ + d] \in States /\ [x EXCEPT !.at = @ + d].at = x.at + d
          /\ [x EXCEPT !.at = @ + d].event = x.event
      <4> HIDE DEF d
      <4>1. d \in Int
        BY <2>6 DEF d
      <4> QED
        BY <1>1, <4>1, MovedOn
    <3> QED
      BY <1>1, <2>6, <3>1
  <2> HIDE DEF moved, fine
  <2>8. fine[j] \in SampleSet /\ fine[j].t = at /\ fine[j].x = moved /\ fine[j].u = u /\ fine[j].mode = m
    BY <1>1, <2>1, <2>6, <2>7, SampleIs
  <2>9. Integrated(fine[j]) /\ Same(fine[j], log[Len(log)])
    BY <1>1, <2>7, <2>8 DEF Integrated, Same, AtEvent
  <2> QED
    BY <2>5, <2>6, <2>8, <2>9 DEF at
<1>4. fine \in Seq(SampleSet) /\ Len(fine) = c
  <2>1. fine = [j \in 1 .. c |-> fine[j]]
    BY DEF Fine, c
  <2> HIDE DEF fine
  <2>2. fine \in [1 .. c -> SampleSet]
    BY <1>3, <2>1
  <2>3. fine \in Seq(SampleSet)
    BY <1>2, <2>2, SeqDef
  <2>4. Len(fine) \in Nat /\ 1 .. Len(fine) = 1 .. c
    BY <2>2, <2>3, LenProperties
  <2> QED
    BY <1>2, <2>3, <2>4, LengthIs
<1> HIDE DEF fine
<1>5. GoesOn(log, fine)
  <2> SUFFICES ASSUME NEW j \in 1 .. c
               PROVE  fine[j].t > (IF j = 1 THEN log[Len(log)].t ELSE fine[j - 1].t)
    BY <1>4 DEF GoesOn
  <2>1. j # 1 => j - 1 \in 1 .. c
    BY <1>2
  <2>2. fine[j].t \in Int /\ fine[j].t > log[Len(log)].t
    BY <1>1, <1>3 DEF AtEvent
  <2>3. j # 1 => fine[j - 1].t < fine[j].t /\ fine[j - 1].t \in Int
    BY <1>3, <2>1
  <2> QED
    BY <2>2, <2>3
<1> QED
  BY <1>3, <1>4, <1>5 DEF fine

\* What a segment logs, up to its end and with the event there.
Logged(to) == log \o Fine(to)
EndSample(to) == Sample(to, [x EXCEPT !.at = @ + (to - t)], u, r, m)
EventState(to) == [at |-> to, event |-> k + 1]
EventCommand(to) == [tick |-> to, from |-> -1]
EventSample(to, newMode) == Sample(to, EventState(to), EventCommand(to), r, newMode)

LEMMA SegmentLogs ==
    ASSUME SimTypes, PiecewiseInv, running, run.driver = "piecewise", NEW to \in Int, t < to,
           NEW newMode \in Int
    PROVE  LET upTo  == Logged(to) \o <<EndSample(to)>>
               whole == Relogged(upTo, EventSample(to, newMode)) IN
           /\ PieceLog(upTo) /\ upTo[Len(upTo)] = EndSample(to) /\ Events(upTo) = Events(log)
           /\ EndSample(to).t = to /\ EndSample(to).x \in States /\ EndSample(to).x.at = to
           /\ EndSample(to).x = [x EXCEPT !.at = @ + (to - t)]
           /\ PieceLog(whole) /\ whole[Len(whole)] = EventSample(to, newMode)
           /\ Events(whole) = Events(log) \cup {to} /\ to \notin Events(log)
           /\ EventSample(to, newMode).t = to /\ EventSample(to, newMode).x = EventState(to)
           /\ EventSample(to, newMode).u = EventCommand(to)
           /\ EventSample(to, newMode).mode = newMode
           /\ EventState(to) \in States /\ EventCommand(to) \in Commands
<1> DEFINE A     == Logged(to)
           S     == EndSample(to)
           E     == EventSample(to, newMode)
           upTo  == A \o <<S>>
           whole == Relogged(upTo, E)
           last  == log[Len(log)]
<1>1. /\ AtEvent /\ t \in Int /\ x \in States /\ u \in Commands /\ r \in Int /\ m \in Int
      /\ k \in Nat /\ PieceLog(log)
  BY LenProperties DEF PiecewiseInv, AtEvent, SimTypes, PieceLog
<1>2. last.u = u /\ last.mode = m /\ last.x = x /\ last.t = t /\ x.at = t /\ x.event = k
      /\ u.tick <= t /\ 0 <= t
  BY <1>1 DEF AtEvent
<1> HIDE DEF last
<1>3. /\ PieceLog(A) /\ Same(A[Len(A)], last) /\ Events(A) = Events(log) /\ A[Len(A)].t < to
      /\ A[Len(A)] \in SampleSet
  <2>1. /\ Fine(to) \in Seq(SampleSet) /\ GoesOn(log, Fine(to))
        /\ \A j \in 1 .. Len(Fine(to)) :
             Integrated(Fine(to)[j]) /\ Same(Fine(to)[j], log[Len(log)]) /\ Fine(to)[j].t < to
    BY FineIs
  <2> DEFINE fine == Fine(to)
  <2> HIDE DEF fine
  <2>2. /\ PieceLog(log \o fine) /\ Same((log \o fine)[Len(log \o fine)], log[Len(log)])
        /\ (log \o fine)[Len(log \o fine)] = IF fine = <<>> THEN log[Len(log)] ELSE fine[Len(fine)]
        /\ Events(log \o fine) = Events(log)
    BY <1>1, <2>1, PieceGoesOn DEF fine
  <2>3. A = log \o fine
    BY DEF Logged, fine
  <2> HIDE DEF A
  <2>4. A[Len(A)].t < to
    <3>1. CASE fine = <<>>
      BY <1>2, <2>2, <2>3, <3>1 DEF last
    <3>2. CASE fine # <<>>
      <4>1. Len(fine) \in 1 .. Len(fine)
        BY <2>1, <3>2, LenProperties, EmptySeq DEF fine
      <4> QED
        BY <2>1, <2>2, <2>3, <3>2, <4>1 DEF fine
    <3> QED
      BY <3>1, <3>2
  <2>5. A[Len(A)] \in SampleSet
    <3>1. A \in Seq(SampleSet) /\ Len(A) \in 1 .. Len(A)
      BY <2>2, <2>3, LenProperties, EmptySeq DEF PieceLog
    <3> QED
      BY <3>1, ElementOfSeq
  <2> QED
    BY <2>2, <2>3, <2>4, <2>5 DEF last
<1>4. /\ S \in SampleSet /\ S.t = to /\ S.u = u /\ S.mode = m /\ S.x \in States
      /\ S.x = [x EXCEPT !.at = @ + (to - t)] /\ S.x.at = to /\ S.x.event = x.event
  <2> DEFINE d == to - t
             moved == [x EXCEPT !.at = @ + d]
  <2>1. d \in Int /\ x.at + d = to
    BY <1>1, <1>2
  <2> HIDE DEF d
  <2>2. moved \in States /\ moved.at = x.at + d /\ moved.event = x.event
    BY <1>1, <2>1, MovedOn
  <2>3. S = Sample(to, moved, u, r, m)
    BY DEF EndSample, d
  <2>4. moved = [x EXCEPT !.at = @ + (to - t)]
    BY DEF d
  <2> HIDE DEF moved, S
  <2>5. S \in SampleSet /\ S.t = to /\ S.x = moved /\ S.u = u /\ S.mode = m
    BY <1>1, <2>2, <2>3, SampleIs
  <2> QED
    BY <2>1, <2>2, <2>4, <2>5
<1>5. /\ E \in SampleSet /\ E.t = to /\ E.x = EventState(to) /\ E.u = EventCommand(to)
      /\ E.mode = newMode /\ EventState(to) \in States /\ EventCommand(to) \in Commands
      /\ EventState(to).at = to /\ EventState(to).event = k + 1 /\ EventCommand(to).tick = to
  <2>1. /\ EventState(to) \in States /\ EventCommand(to) \in Commands
        /\ EventState(to).at = to /\ EventState(to).event = k + 1 /\ EventCommand(to).tick = to
    BY <1>1 DEF EventState, EventCommand, States, Commands
  <2> QED
    BY <1>1, <2>1, SampleIs DEF EventSample
<1> HIDE DEF A, S, E
<1>6. to > A[Len(A)].t /\ A[Len(A)].t \in Int
  BY <1>3, SampleHas
<1>7. Integrated(S) /\ Follows(S, A[Len(A)])
  BY <1>2, <1>3, <1>4 DEF Integrated, Follows, Same
<1>8. Integrated(E) /\ Follows(E, A[Len(A)])
  <2>1. E.u # A[Len(A)].u
    <3>1. A[Len(A)].u.tick <= t /\ E.u.tick = to
      BY <1>2, <1>3, <1>5 DEF Same
    <3>2. A[Len(A)].u.tick \in Int
      BY <1>3, SampleHas DEF Commands
    <3> QED
      BY <1>1, <3>1, <3>2
  <2> QED
    BY <1>2, <1>3, <1>5, <2>1 DEF Integrated, Follows, Same
<1>9. /\ PieceLog(upTo) /\ Len(upTo) = Len(A) + 1 /\ upTo[Len(upTo)] = S
      /\ \A i \in 1 .. Len(A) : upTo[i] = A[i]
      /\ Events(upTo) = Events(A) \cup ({S.u.tick} \ {-1})
  BY <1>3, <1>4, <1>6, <1>7, PieceAppended
<1> DEFINE other == A \o <<E>>
<1>10. /\ PieceLog(other) /\ Len(other) = Len(A) + 1 /\ other[Len(other)] = E
       /\ \A i \in 1 .. Len(A) : other[i] = A[i]
       /\ Events(other) = Events(A) \cup ({E.u.tick} \ {-1})
  BY <1>3, <1>5, <1>6, <1>8, PieceAppended
<1> HIDE DEF upTo, other
<1>11. Events(upTo) = Events(log)
  <2>1. u.tick # -1 => u.tick \in Events(log)
    <3>1. log \in Seq(SampleSet) /\ Len(log) \in 1 .. Len(log)
      BY <1>1, LenProperties, EmptySeq DEF PieceLog
    <3> QED
      BY <1>2, <3>1, EventsAre DEF last
  <2> QED
    BY <1>3, <1>4, <1>9, <2>1
<1>12. to # -1 /\ to \notin Events(log)
  <2>1. \A e \in Events(log) : e <= t
    BY <1>1 DEF AtEvent
  <2> QED
    BY <1>1, <1>2, <2>1
<1>13. whole = other
  <2>1. /\ upTo \in Seq(SampleSet) /\ other \in Seq(SampleSet) /\ Len(A) \in Nat
        /\ Len(upTo) \in 1 .. Len(upTo)
    BY <1>3, <1>9, <1>10, LenProperties, EmptySeq DEF PieceLog
  <2>2. /\ whole \in Seq(SampleSet) /\ Len(whole) = Len(upTo)
        /\ \A j \in 1 .. Len(upTo) : whole[j] = IF j = Len(upTo) THEN E ELSE upTo[j]
    BY <1>5, <2>1, ExceptSeq DEF Relogged
  <2> HIDE DEF whole
  <2>3. ASSUME NEW j \in 1 .. Len(whole) PROVE whole[j] = other[j]
    <3>1. j \in 1 .. Len(A) \/ j = Len(upTo)
      BY <1>9, <2>1, <2>2
    <3>2. CASE j = Len(upTo)
      BY <1>9, <1>10, <2>1, <2>2, <3>2
    <3>3. CASE j \in 1 .. Len(A)
      <4>1. j # Len(upTo) /\ j \in 1 .. Len(upTo)
        BY <1>9, <2>1, <3>3
      <4> QED
        BY <1>9, <1>10, <2>2, <3>3, <4>1
    <3> QED
      BY <3>1, <3>2, <3>3
  <2> QED
    BY <1>9, <1>10, <2>1, <2>2, <2>3, SeqEqual
<1> HIDE DEF whole
<1>14. Events(whole) = Events(log) \cup {to}
  BY <1>3, <1>5, <1>10, <1>12, <1>13
<1> QED
  BY <1>4, <1>5, <1>9, <1>10, <1>11, <1>12, <1>13, <1>14 DEF A, S, E, upTo, whole

LEMMA SegmentKeeps ==
    ASSUME SimTypes, PiecewiseInv, Segment
    PROVE  SimTypes' /\ TwoRateInv' /\ PiecewiseInv' /\ ShortMeansFailed'
<1>1. /\ running /\ run.driver = "piecewise" /\ AtEvent /\ UNCHANGED <<run, r>>
      /\ t \in Int /\ run.tf \in Int /\ t < run.tf /\ NModes \in Nat
  BY RunIs DEF Segment, PiecewiseInv, AtEvent, SimTypes
<1>2. PICK next \in t + 1 .. run.tf + 1, newMode \in 0 .. NModes :
        LET to    == NextEvent(next)
            end   == [x EXCEPT !.at = @ + (to - t)]
            upTo  == log \o Fine(to) \o <<Sample(to, end, u, r, m)>>
            event == [at |-> end.at, event |-> k + 1]
            newU  == [tick |-> to, from |-> -1]
        IN /\ t' = to
           /\ IF to >= run.tf
              THEN /\ running' = FALSE
                   /\ log' = upTo /\ x' = end
                   /\ UNCHANGED <<success, k, u, m>>
              ELSE IF newMode >= NModes
              THEN /\ Stop
                   /\ log' = upTo /\ x' = end
                   /\ UNCHANGED <<k, u, m>>
              ELSE /\ m' = newMode /\ u' = newU /\ x' = event /\ k' = k + 1
                   /\ log' = Relogged(upTo, Sample(to, event, newU, r, newMode))
                   /\ UNCHANGED <<running, success>>
  BY DEF Segment
<1> DEFINE to    == NextEvent(next)
           upTo  == Logged(to) \o <<EndSample(to)>>
           whole == Relogged(upTo, EventSample(to, newMode))
<1>3. to \in t + 1 .. run.tf /\ to \in Int /\ t < to /\ (to >= run.tf <=> to = run.tf)
      /\ newMode \in Int
  BY <1>1 DEF NextEvent
<1>4. /\ PieceLog(upTo) /\ upTo[Len(upTo)] = EndSample(to) /\ Events(upTo) = Events(log)
      /\ EndSample(to).t = to /\ EndSample(to).x \in States /\ EndSample(to).x.at = to
      /\ EndSample(to).x = [x EXCEPT !.at = @ + (to - t)]
      /\ PieceLog(whole) /\ whole[Len(whole)] = EventSample(to, newMode)
      /\ Events(whole) = Events(log) \cup {to} /\ to \notin Events(log)
      /\ EventSample(to, newMode).t = to /\ EventSample(to, newMode).x = EventState(to)
      /\ EventSample(to, newMode).u = EventCommand(to)
      /\ EventSample(to, newMode).mode = newMode
      /\ EventState(to) \in States /\ EventCommand(to) \in Commands
  <2> HIDE DEF to
  <2> QED
    BY <1>1, <1>3, SegmentLogs
<1>5. /\ t' = to
      /\ IF to >= run.tf
         THEN /\ running' = FALSE /\ log' = upTo /\ x' = EndSample(to).x
              /\ success' = success /\ k' = k /\ u' = u /\ m' = m
         ELSE IF newMode >= NModes
         THEN /\ running' = FALSE /\ success' = FALSE
              /\ log' = upTo /\ x' = EndSample(to).x /\ k' = k /\ u' = u /\ m' = m
         ELSE /\ m' = newMode /\ u' = EventCommand(to) /\ x' = EventState(to) /\ k' = k + 1
              /\ log' = whole /\ running' = running /\ success' = success
  <2>1. [x EXCEPT !.at = @ + (to - t)].at = to
    BY <1>4
  <2> HIDE DEF to
  <2>2. /\ EndSample(to) = Sample(to, [x EXCEPT !.at = @ + (to - t)], u, r, m)
        /\ EventState(to) = [at |-> [x EXCEPT !.at = @ + (to - t)].at, event |-> k + 1]
        /\ EventCommand(to) = [tick |-> to, from |-> -1]
        /\ EventSample(to, newMode) = Sample(to, EventState(to), EventCommand(to), r, newMode)
        /\ upTo = log \o Fine(to) \o <<EndSample(to)>>
    BY <2>1 DEF EndSample, EventState, EventCommand, EventSample, Logged
  <2> QED
    BY <1>2, <1>4, <2>2 DEF Stop, to
<1> HIDE DEF to, upTo, whole
<1>6. /\ IsFiniteSet(Events(log)) /\ k = Cardinality(Events(log)) /\ success = TRUE
      /\ \A e \in Events(log) : e <= t
      /\ x \in States /\ u \in Commands /\ r \in Int /\ m \in Int /\ k \in Nat /\ success \in BOOLEAN
      /\ run \in TwoRateRuns \cup PiecewiseRuns
  BY <1>1 DEF PiecewiseInv, AtEvent, SimTypes
<1>7. ASSUME running' = FALSE, log' = upTo, x' = EndSample(to).x, k' = k, u' = u, m' = m,
             success' \in BOOLEAN, success' = TRUE <=> to = run.tf
      PROVE  SimTypes' /\ TwoRateInv' /\ PiecewiseInv' /\ ShortMeansFailed'
  <2>1. SimTypes'
    BY <1>1, <1>3, <1>4, <1>5, <1>6, <1>7 DEF SimTypes, PieceLog
  <2>0. Events(log)' = Events(log)
    <3>1. Events(log)' = Events(upTo)
      BY <1>7 DEF Events
    <3> QED
      BY <1>4, <3>1
  <2>2. PiecewiseInv'
    BY <1>1, <1>4, <1>6, <1>7, <2>0 DEF PiecewiseInv, PieceLog, Ordered, Integrated, Follows
  <2>3. log' # <<>> /\ log'[Len(log')].t = to /\ run' = run
    BY <1>1, <1>4, <1>7 DEF PieceLog
  <2>4. k' = Cardinality(Events(log)')
    BY <1>6, <1>7, <2>0
  <2>5. ShortMeansFailed'
    BY <1>1, <1>7, <2>3, <2>4 DEF ShortMeansFailed, Last, Events
  <2> QED
    BY <1>1, <2>1, <2>2, <2>5 DEF TwoRateInv
<1>8. CASE to >= run.tf
  BY <1>3, <1>5, <1>6, <1>7, <1>8
<1>9. CASE ~(to >= run.tf) /\ newMode >= NModes
  BY <1>3, <1>5, <1>6, <1>7, <1>9
<1>10. CASE ~(to >= run.tf) /\ ~(newMode >= NModes)
  <2>1. /\ m' = newMode /\ u' = EventCommand(to) /\ x' = EventState(to) /\ k' = k + 1
        /\ log' = whole /\ running' = running /\ success' = success /\ t' = to /\ run' = run /\ r' = r
    BY <1>1, <1>5, <1>10
  <2>2. SimTypes'
    <3>1. k + 1 \in Nat /\ whole \in Seq(SampleSet)
      BY <1>4, <1>6 DEF PieceLog
    <3> QED
      BY <1>3, <1>4, <1>6, <2>1, <3>1 DEF SimTypes
  <2>3. Events(log)' = Events(log) \cup {to}
    BY <1>4, <2>1 DEF Events
  <2>4. IsFiniteSet(Events(log)') /\ k' = Cardinality(Events(log)')
    BY <1>4, <1>6, <2>1, <2>3, FS_AddElement
  <2>5. AtEvent'
    <3>1. \A e \in Events(log)' : e <= to
      <4>1. \A e \in Events(log) : e \in Int
        <5>1. PieceLog(log)
          BY <1>1 DEF PiecewiseInv, AtEvent, SimTypes, PieceLog
        <5>2. log \in Seq(SampleSet)
          BY <5>1 DEF PieceLog
        <5> QED
          BY <5>2, EventsAre, ElementOfSeq, SampleHas DEF Commands
      <4> QED
        BY <1>1, <1>3, <1>6, <2>3, <4>1
    <3>2. /\ log' # <<>> /\ log'[Len(log')].t = to /\ log'[Len(log')].x = x'
          /\ log'[Len(log')].u = u' /\ log'[Len(log')].mode = m'
      BY <1>4, <2>1 DEF PieceLog
    <3>3. x'.at = to /\ x'.event = k' /\ u'.tick = to
      BY <2>1 DEF EventState, EventCommand
    <3>4. 0 <= to /\ to < run.tf
      BY <1>1, <1>3, <1>10 DEF AtEvent
    <3> QED
      BY <1>3, <1>6, <2>1, <3>1, <3>2, <3>3, <3>4 DEF AtEvent
  <2>6. PiecewiseInv'
    BY <1>1, <1>4, <2>1, <2>4, <2>5 DEF PiecewiseInv, PieceLog, Ordered, Integrated, Follows
  <2> QED
    BY <1>1, <2>1, <2>2, <2>6 DEF TwoRateInv, ShortMeansFailed
<1> QED
  BY <1>8, <1>9, <1>10

\* The event limit, or a schedule that stands still, ends the run before tf.
LEMMA PiecewiseStopsKeep ==
    ASSUME SimTypes, PiecewiseInv, EventLimit \/ StandStill
    PROVE  SimTypes' /\ TwoRateInv' /\ PiecewiseInv' /\ ShortMeansFailed'
<1>1. /\ running /\ run.driver = "piecewise" /\ AtEvent /\ running' = FALSE /\ success' = FALSE
      /\ UNCHANGED <<run, log, k, t, x, u, r, m>>
  BY DEF EventLimit, StandStill, PiecewiseInv, Stop
<1>2. SimTypes'
  BY <1>1 DEF SimTypes
<1>3. Events(log)' = Events(log)
  BY <1>1 DEF Events
<1>4. PiecewiseInv'
  BY <1>1, <1>3 DEF PiecewiseInv, Ordered, Integrated, Follows
<1>5. /\ log # <<>> /\ log[Len(log)].t # run.tf /\ k = Cardinality(Events(log))
  BY <1>1, RunIs DEF PiecewiseInv, AtEvent, SimTypes
<1>6. ShortMeansFailed'
  BY <1>1, <1>5 DEF ShortMeansFailed, Last, Events
<1> QED
  BY <1>1, <1>2, <1>4, <1>6 DEF TwoRateInv

-----------------------------------------------------------------------------
(* A whole run.                                                            *)

LEMMA SimStarts ==
    Init => SimInv
<1> SUFFICES ASSUME Init PROVE SimInv
  OBVIOUS
<1> DEFINE one == Sample(0, x, u, r, m)
<1>1. /\ run \in TwoRateRuns \cup PiecewiseRuns
      /\ k = 0 /\ t = 0 /\ x = [at |-> 0, event |-> 0] /\ u = [tick |-> -1, from |-> -1] /\ r = -1
      /\ m = IF run.driver = "piecewise" THEN run.mode0 ELSE 0
      /\ running = ~Refused(run) /\ success = ~Refused(run)
      /\ log = IF run.driver = "piecewise" /\ running THEN <<one>> ELSE <<>>
  BY DEF Init, Start, None
<1>2. /\ x \in States /\ u \in Commands /\ r \in Int /\ k \in Nat /\ t \in Int
      /\ x.at = 0 /\ x.event = 0 /\ u.tick = -1
  BY <1>1 DEF States, Commands
<1>3. m \in Int
  <2>1. run.driver = "piecewise" => run.mode0 \in 0 .. NModes /\ NModes \in Nat
    BY <1>1, SimulationAssumption DEF TwoRateRuns, PiecewiseRuns
  <2> QED
    BY <1>1, <2>1
<1>4. one \in SampleSet /\ one.t = 0 /\ one.x = x /\ one.u = u /\ one.mode = m
  BY <1>2, <1>3, SampleIs
<1> HIDE DEF one
<1>5. log \in Seq(SampleSet) /\ running \in BOOLEAN /\ success \in BOOLEAN
  BY <1>1, <1>4, EmptySeq
<1>6. SimTypes
  BY <1>1, <1>2, <1>3, <1>5 DEF SimTypes
<1>7. run.tf \in Int /\ run.driver \in {"two_rate", "piecewise"} /\ TsBase \in Nat \ {0}
  BY <1>6, RunIs
<1>7a. ASSUME running PROVE success = TRUE /\ ~Refused(run)
  <2>1. success = running /\ running = TRUE
    BY <1>1, <1>5, <1>7a
  <2>2. ~Refused(run)
    BY <1>1, <1>7a
  <2> QED
    BY <2>1, <2>2
<1>8. TwoRateInv
  <2> SUFFICES ASSUME run.driver = "two_rate" PROVE TwoRateInv
    BY DEF TwoRateInv
  <2>1. log = <<>> /\ Len(log) = 0 /\ DOMAIN log = 1 .. 0
    BY <1>1, <1>5, LenProperties, EmptySeq
  <2>2. ASSUME running PROVE AtTick
    <3>1. run.tf > 0 /\ run.outer # 0 /\ run.inner # 0 /\ success = TRUE
      BY <1>7, <1>7a, <2>2 DEF Refused
    <3>2. 0 < run.tf /\ 0 \in Int /\ 0 \in Nat
      BY <3>1
    <3>3. Ticks \in Nat \ {0}
      BY <1>7, <3>2, StepCountIs DEF Ticks
    <3>4. GridTime(0, run.tf, TsBase, 0) = 0 + 0 * TsBase
      <4>1. 0 < StepCount(0, run.tf, TsBase)
        BY <3>3 DEF Ticks
      <4> QED
        BY <1>7, <3>2, <4>1, GridIs
    <3> QED
      BY <1>1, <1>2, <1>7, <2>1, <3>1, <3>3, <3>4 DEF AtTick
  <2> QED
    BY <2>1, <2>2 DEF TwoRateInv, Ordered
<1>9. PiecewiseInv
  <2> SUFFICES ASSUME run.driver = "piecewise" PROVE PiecewiseInv
    BY DEF PiecewiseInv
  <2>1. CASE running
    <3>1. log = <<one>> /\ Len(log) = 1 /\ log[1] = one /\ DOMAIN log = 1 .. 1 /\ log # <<>>
      BY <1>1, <1>5, <2>1, LenProperties
    <3>2. Events(log) = {}
      <4>1. \A i \in 1 .. Len(log) : log[i].u.tick = -1
        BY <1>2, <1>4, <3>1
      <4>2. \A e : e \notin Events(log)
        BY <1>5, <4>1, EventsAre
      <4> QED
        BY <4>2
    <3>3. run.tf > 0 /\ success = TRUE
      BY <1>7, <1>7a, <2>1 DEF Refused
    <3>4. AtEvent
      BY <1>1, <1>2, <1>4, <3>1, <3>2, <3>3 DEF AtEvent
    <3>5. IsFiniteSet(Events(log)) /\ k = Cardinality(Events(log))
      BY <1>1, <3>2, FS_EmptySet
    <3> QED
      BY <1>2, <1>4, <3>1, <3>4, <3>5 DEF PiecewiseInv, Ordered, Integrated
  <2>2. CASE ~running
    <3>1. log = <<>> /\ Len(log) = 0 /\ DOMAIN log = 1 .. 0
      BY <1>1, <1>5, <2>2, LenProperties, EmptySeq
    <3> QED
      BY <2>2, <3>1 DEF PiecewiseInv, Ordered
  <2> QED
    BY <2>1, <2>2
<1>10. ShortMeansFailed
  <2>1. ~running => log = <<>> /\ success = FALSE
    BY <1>1
  <2> QED
    BY <2>1 DEF ShortMeansFailed
<1> QED
  BY <1>6, <1>8, <1>9, <1>10 DEF SimInv

LEMMA SimStepKeeps ==
    SimInv /\ [Next]_vars => SimInv'
<1> SUFFICES ASSUME SimInv, [Next]_vars PROVE SimInv'
  OBVIOUS
<1>1. SimTypes /\ TwoRateInv /\ PiecewiseInv /\ ShortMeansFailed
  BY DEF SimInv
<1>2. CASE BaseTick
  BY <1>1, <1>2, BaseTickKeeps DEF SimInv
<1>3. CASE TickLimit \/ TwoRateEnd
  BY <1>1, <1>3, TwoRateStopsKeep DEF SimInv
<1>4. CASE Segment
  BY <1>1, <1>4, SegmentKeeps DEF SimInv
<1>5. CASE EventLimit \/ StandStill
  BY <1>1, <1>5, PiecewiseStopsKeep DEF SimInv
<1>6. CASE UNCHANGED sim
  <2>1. UNCHANGED <<run, running, success, log, k, t, x, u, r, m>>
    BY <1>6 DEF sim
  <2>2. Events(log)' = Events(log) /\ (AtTick' <=> AtTick) /\ (AtEvent' <=> AtEvent)
    BY <2>1 DEF Events, AtTick, AtEvent, Ticks, Held
  <2>3. SimTypes' /\ ShortMeansFailed'
    BY <1>1, <2>1 DEF SimTypes, ShortMeansFailed
  <2>4. TwoRateInv'
    BY <1>1, <2>1, <2>2 DEF TwoRateInv, Ordered, Integrated, Held
  <2>5. PiecewiseInv'
    BY <1>1, <2>1, <2>2 DEF PiecewiseInv, Ordered, Integrated, Follows
  <2> QED
    BY <2>3, <2>4, <2>5 DEF SimInv
<1>7. Script => UNCHANGED sim
  BY DEF Script
<1>8. UNCHANGED vars => UNCHANGED sim
  BY DEF vars, sim
<1> QED
  BY <1>2, <1>3, <1>4, <1>5, <1>6, <1>7, <1>8 DEF Next, Loop

LEMMA SimAlways == Spec => []SimInv
<1>1. Init => SimInv
  BY SimStarts
<1>2. SimInv /\ [Next]_vars => SimInv'
  BY SimStepKeeps
<1> QED
  BY <1>1, <1>2, PTL DEF Spec

\* simulate_two_rate() and simulate_piecewise_lti(): success is false exactly when the
\* run stopped before tf, whatever the plant's solver, the schedule, the callback and the
\* limits did, and the counts are those of what was completed.
THEOREM ShortRunsFail == Spec => []ShortMeansFailed
<1>1. SimInv => ShortMeansFailed
  BY DEF SimInv
<1> QED
  BY <1>1, SimAlways, PTL

\* simulate_two_rate() and simulate_piecewise_lti(): the log tells one story, for all
\* divisors, strides, spans and schedules of events.
THEOREM LogsAreConsistent == Spec => []LogIsConsistent
<1>1. SimInv => LogIsConsistent
  <2> SUFFICES ASSUME SimInv, NEW i \in DOMAIN log
               PROVE  LET s == log[i] IN
                      /\ IF i = 1 THEN s.t = 0 ELSE s.t > log[i - 1].t
                      /\ s.x.at = s.t /\ s.y = <<s.x, s.u, s.mode>>
                      /\ run.driver = "two_rate" =>
                           /\ s.u.tick = LatestFiring(TickOf(s.t), run.inner)
                           /\ s.r = LatestFiring(TickOf(s.t), run.outer)
                           /\ s.u.from = LatestFiring(s.u.tick, run.outer)
                      /\ run.driver = "piecewise" /\ i > 1 =>
                           IF s.u = log[i - 1].u
                           THEN s.mode = log[i - 1].mode /\ s.x.event = log[i - 1].x.event
                           ELSE s.u.tick = s.t /\ s.x.event = log[i - 1].x.event + 1
    BY DEF LogIsConsistent
  <2>1. /\ SimTypes /\ TwoRateInv /\ PiecewiseInv /\ log \in Seq(SampleSet)
        /\ i \in 1 .. Len(log) /\ Len(log) \in Nat /\ log[i] \in SampleSet
        /\ run.driver \in {"two_rate", "piecewise"}
    BY LenProperties, ElementOfSeq, RunIs DEF SimInv, SimTypes
  <2>2. log[i].y = <<log[i].x, log[i].u, log[i].mode>>
    BY <2>1, SampleHas
  <2>3. Ordered(log) /\ Integrated(log[i])
    BY <2>1 DEF TwoRateInv, PiecewiseInv
  <2>4. run.driver = "two_rate" => Held(log[i], TickOf(log[i].t))
    BY <2>1 DEF TwoRateInv
  <2>5. run.driver = "piecewise" /\ i > 1 => Follows(log[i], log[i - 1])
    BY <2>1 DEF PiecewiseInv
  <2> QED
    BY <2>2, <2>3, <2>4, <2>5 DEF Ordered, Integrated, Held, Follows
<1> QED
  BY <1>1, SimAlways, PTL

-----------------------------------------------------------------------------
(* The solvers' inductive invariant.                                       *)

SolverStates == [t : Int, jumps : Nat]

SolverTypes ==
    /\ solve \in FixedRuns \cup AdaptiveRuns
    /\ solving \in BOOLEAN /\ solved \in BOOLEAN /\ stopped \in BOOLEAN
    /\ accepted \in Seq(SolverStates) /\ accepted # <<>>
    /\ h \in Int

\* A solve goes on: nothing has failed, and there are states yet to reach.
Solving ==
    /\ solved = TRUE /\ stopped = FALSE /\ ~Refuses(solve)
    /\ 0 <= now /\ now <= solve.tf
    /\ solve.solver = "fixed" =>
         /\ Len(accepted) - 1 <= GridCount
         /\ now = GridPoint(Len(accepted) - 1)
         /\ past # <<>> /\ Len(accepted) <= GridCount =>
              past[1] = [reached EXCEPT !.t = @ - solve.step]

SolverInv ==
    /\ SolverTypes
    /\ solving => Solving
    /\ SolveIsHonest /\ HistoryIsSmooth /\ CrossingEndsStep

\* What the options of a solve are.
LEMMA SolveIs ==
    ASSUME SolverTypes
    PROVE  /\ solve.tf \in Int /\ solve.solver \in {"fixed", "adaptive"}
           /\ solve.solver = "fixed" => solve.step \in Int
           /\ solve.solver = "adaptive" =>
                /\ HMin(solve) \in Int /\ HMax(solve) \in Int
                /\ \A z \in solve.zero : \A time \in 0 .. solve.tf : z[time] \in {-1, 0, 1}
           /\ Len(accepted) \in Nat \ {0} /\ DOMAIN accepted = 1 .. Len(accepted)
           /\ reached \in SolverStates /\ reached = accepted[Len(accepted)] /\ now \in Int
<1>1. /\ SolveSpans \subseteq Int /\ Steps \subseteq Int /\ MaxSteps \subseteq Int
      /\ FirstSteps \subseteq Int /\ MinSteps \subseteq Int
  BY SolverAssumption
<1>2. /\ solve.tf \in SolveSpans /\ solve.solver \in {"fixed", "adaptive"}
      /\ solve.solver = "fixed" => solve.step \in Steps
      /\ solve.solver = "adaptive" =>
           solve.lo \in MinSteps /\ solve.hi \in MaxSteps /\ solve.zero \in Crossings
  BY DEF SolverTypes, FixedRuns, AdaptiveRuns
<1>3. solve.solver = "adaptive" => HMin(solve) \in Int /\ HMax(solve) \in Int
  BY <1>1, <1>2 DEF HMin, HMax, Least
<1>4. solve.solver = "adaptive" =>
        \A z \in solve.zero : \A time \in 0 .. solve.tf : z[time] \in {-1, 0, 1}
  BY <1>2, SolverAssumption
<1>5. Len(accepted) \in Nat \ {0} /\ DOMAIN accepted = 1 .. Len(accepted)
      /\ Len(accepted) \in 1 .. Len(accepted)
  BY LenProperties, EmptySeq DEF SolverTypes
<1>6. reached = accepted[Len(accepted)]
  BY DEF reached, Last
<1>7. reached \in SolverStates
  BY <1>5, <1>6, ElementOfSeq DEF SolverTypes
<1> QED
  BY <1>1, <1>2, <1>3, <1>4, <1>5, <1>6, <1>7 DEF now, SolverStates

\* Clamping between whole numbers.
LEMMA ClampedIs ==
    ASSUME NEW v \in Int, NEW lo \in Int, NEW hi \in Int
    PROVE  Clamped(v, lo, hi) \in Int
BY DEF Clamped, Least

\* A state has been appended: the rest of the log is what it was.
LEMMA AcceptedIs ==
    ASSUME SolverTypes, NEW s \in SolverStates, accepted' = Append(accepted, s)
    PROVE  /\ accepted' \in Seq(SolverStates) /\ accepted' # <<>>
           /\ Len(accepted') = Len(accepted) + 1
           /\ \A i \in 1 .. Len(accepted) : accepted'[i] = accepted[i]
           /\ accepted'[Len(accepted')] = s
<1>1. accepted \in Seq(SolverStates) /\ Len(accepted) \in Nat \ {0}
  BY SolveIs DEF SolverTypes
<1>2. /\ Append(accepted, s) \in Seq(SolverStates)
      /\ Len(Append(accepted, s)) = Len(accepted) + 1
      /\ \A i \in 1 .. Len(accepted) : Append(accepted, s)[i] = accepted[i]
      /\ Append(accepted, s)[Len(accepted) + 1] = s
  BY <1>1, AppendProperties
<1> QED
  BY <1>1, <1>2, EmptySeq

-----------------------------------------------------------------------------
(* Where a zero-crossing function crosses.                                 *)

\* The sign of a function is a sign, and a jump changes no crossing.
LEMMA SignIs ==
    ASSUME NEW z, NEW a, NEW b, NEW jumps, z[a] \in {-1, 0, 1}, z[b] \in {-1, 0, 1}
    PROVE  /\ SignAt(z, a, jumps) \in {-1, 0, 1}
           /\ Opposite(SignAt(z, a, jumps), SignAt(z, b, jumps)) <=> Opposite(z[a], z[b])
BY DEF SignAt, Opposite

\* Between two whole numbers that are not neighbours lies their middle.
LEMMA MiddleIs ==
    ASSUME NEW lo \in Int, NEW hi \in Int, hi - lo > 1
    PROVE  LET mid == lo + (hi - lo) \div 2 IN mid \in Int /\ lo < mid /\ mid < hi
OBVIOUS

\* What a bisection that started with a bracket of width w has after n turns: a
\* narrower bracket, whose lower end is still on the side of the start.
Bracketed(z, from, end, w, n, b) ==
    /\ b \in Brackets(from, end) /\ b.lo < b.hi
    /\ b.hi - b.lo = 1 \/ b.hi - b.lo <= w - n
    /\ ~Opposite(SignAt(z, from.t, from.jumps), SignAt(z, b.lo, from.jumps))

LEMMA BisectedKeeps ==
    ASSUME NEW z, NEW from, NEW end \in Int, from.t \in Int, NEW w \in Int, NEW n \in Nat, NEW b,
           Bracketed(z, from, end, w, n, b)
    PROVE  Bracketed(z, from, end, w, n + 1, Bisected(z, from, b))
<1> DEFINE mid   == b.lo + (b.hi - b.lo) \div 2
           zMid  == SignAt(z, mid, from.jumps)
           below == zMid # 0 /\ ~Opposite(SignAt(z, from.t, from.jumps), zMid)
           next  == Bisected(z, from, b)
<1> SUFFICES Bracketed(z, from, end, w, n + 1, next)
  OBVIOUS
<1>1. /\ b.lo \in from.t .. end /\ b.hi \in from.t .. end /\ b.probes \in Nat /\ b.lo < b.hi
      /\ b.hi - b.lo = 1 \/ b.hi - b.lo <= w - n
      /\ ~Opposite(SignAt(z, from.t, from.jumps), SignAt(z, b.lo, from.jumps))
  BY DEF Bracketed, Brackets
<1>2. next = IF b.hi - b.lo <= 1 THEN b
             ELSE [lo |-> IF below THEN mid ELSE b.lo, hi |-> IF below THEN b.hi ELSE mid,
                   probes |-> b.probes + 1]
  BY DEF Bisected
<1>3. CASE b.hi - b.lo <= 1
  <2>1. next = b /\ b.hi - b.lo = 1
    BY <1>1, <1>2, <1>3
  <2> QED
    BY <1>1, <2>1 DEF Bracketed
<1>4. CASE b.hi - b.lo > 1
  <2>1. b.lo \in Int /\ b.hi \in Int /\ mid \in Int /\ b.lo < mid /\ mid < b.hi
    BY <1>1, <1>4, MiddleIs
  <2>2. next = [lo |-> IF below THEN mid ELSE b.lo, hi |-> IF below THEN b.hi ELSE mid,
                probes |-> b.probes + 1]
    BY <1>1, <1>2, <1>4
  <2> HIDE DEF mid, next
  <2>3. CASE below
    <3>1. next = [lo |-> mid, hi |-> b.hi, probes |-> b.probes + 1]
      BY <2>2, <2>3
    <3>2. next \in Brackets(from, end) /\ next.lo = mid /\ next.hi = b.hi
      BY <1>1, <2>1, <3>1 DEF Brackets
    <3> QED
      BY <1>1, <1>4, <2>1, <2>3, <3>2 DEF Bracketed
  <2>4. CASE ~below
    <3>1. next = [lo |-> b.lo, hi |-> mid, probes |-> b.probes + 1]
      BY <2>2, <2>4
    <3>2. next \in Brackets(from, end) /\ next.lo = b.lo /\ next.hi = mid
      BY <1>1, <2>1, <3>1 DEF Brackets
    <3> QED
      BY <1>1, <1>4, <2>1, <3>2 DEF Bracketed
  <2> QED
    BY <2>3, <2>4
<1> QED
  BY <1>1, <1>3, <1>4

\* locate_crossing() ends with neighbours, the lower on the side of the start.
LEMMA LocatedIs ==
    ASSUME NEW z, NEW from, NEW end \in Int, from.t \in Int, from.t < end,
           SignAt(z, from.t, from.jumps) \in {-1, 0, 1}
    PROVE  LET b == Located(z, from, end) IN
           /\ b.lo \in from.t .. end /\ b.hi \in from.t + 1 .. end /\ b.hi = b.lo + 1
           /\ ~Opposite(SignAt(z, from.t, from.jumps), SignAt(z, b.lo, from.jumps))
<1> DEFINE S     == Brackets(from, end)
           w     == end - from.t
           first == [lo |-> from.t, hi |-> end, probes |-> 0]
           F     == [turn \in Nat |-> [b \in S |-> Bisected(z, from, b)]]
           it    == Iterated(first, F)
<1>1. Located(z, from, end) = it[w] /\ w \in Nat /\ w >= 1
  BY DEF Located
<1>2. first \in S /\ Bracketed(z, from, end, w, 0, first)
  <2>1. first \in S
    BY DEF Brackets
  <2>2. ~Opposite(SignAt(z, from.t, from.jumps), SignAt(z, from.t, from.jumps))
    BY DEF Opposite
  <2> QED
    BY <2>1, <2>2 DEF Bracketed
<1>3. \A n \in Nat, b \in S : F[n][b] = Bisected(z, from, b)
  OBVIOUS
<1>4. ASSUME NEW b \in S PROVE Bisected(z, from, b) \in S
  <2> DEFINE mid == b.lo + (b.hi - b.lo) \div 2
  <2>1. b.lo \in from.t .. end /\ b.hi \in from.t .. end /\ b.probes \in Nat /\ b.lo \in Int /\ b.hi \in Int
    BY DEF Brackets
  <2>2. b.hi - b.lo > 1 => mid \in Int /\ b.lo < mid /\ mid < b.hi
    BY <2>1, MiddleIs
  <2>3. \/ Bisected(z, from, b) = b
        \/ /\ b.hi - b.lo > 1
           /\ \/ Bisected(z, from, b) = [lo |-> mid, hi |-> b.hi, probes |-> b.probes + 1]
              \/ Bisected(z, from, b) = [lo |-> b.lo, hi |-> mid, probes |-> b.probes + 1]
    BY <2>1 DEF Bisected
  <2> HIDE DEF mid
  <2> QED
    BY <2>1, <2>2, <2>3 DEF Brackets
<1>5. F \in [Nat -> [S -> S]]
  BY <1>4
<1> HIDE DEF F, first, S
<1>6. /\ it \in [Nat -> S] /\ it[0] = first
      /\ \A n \in Nat : it[n + 1] = F[n + 1][it[n]]
  BY <1>2, <1>5, IteratedUnfolds
<1> HIDE DEF it
<1> DEFINE T == {n \in Nat : Bracketed(z, from, end, w, n, it[n])}
<1>7. T \in SUBSET Nat /\ 0 \in T
  BY <1>2, <1>6
<1>8. ASSUME NEW n \in T PROVE n + 1 \in T
  <2>1. n \in Nat /\ n + 1 \in Nat /\ it[n] \in S /\ it[n + 1] = F[n + 1][it[n]]
    BY <1>6
  <2>2. it[n + 1] = Bisected(z, from, it[n])
    BY <1>3, <2>1
  <2>3. Bracketed(z, from, end, w, n + 1, Bisected(z, from, it[n]))
    <3> HIDE DEF w
    <3>1. Bracketed(z, from, end, w, n, it[n]) /\ w \in Int
      BY <1>1
    <3> QED
      BY <2>1, <3>1, BisectedKeeps
  <2> QED
    BY <2>1, <2>2, <2>3
<1>9. T = Nat
  <2> HIDE DEF T
  <2> QED
    BY <1>7, <1>8, Inductive
<1>10. Bracketed(z, from, end, w, w, it[w])
  <2>1. w \in T
    BY <1>1, <1>9
  <2> QED
    BY <2>1
<1> DEFINE b == it[w]
<1>11. /\ b.lo \in from.t .. end /\ b.hi \in from.t .. end /\ b.lo < b.hi
       /\ b.hi - b.lo = 1 \/ b.hi - b.lo <= w - w
       /\ ~Opposite(SignAt(z, from.t, from.jumps), SignAt(z, b.lo, from.jumps))
  BY <1>10 DEF Bracketed, Brackets
<1> HIDE DEF b
<1>12. b.hi = b.lo + 1 /\ b.hi \in from.t + 1 .. end
  BY <1>1, <1>11
<1> QED
  BY <1>1, <1>11, <1>12 DEF b

\* Of the crossings in a step, the earliest.
LEMMA EarliestIs ==
    ASSUME NEW from \in Nat, NEW end \in Int, from < end, NEW times \in SUBSET (from + 1 .. end)
    PROVE  /\ Earliest(times, end) \in from + 1 .. end
           /\ \A time \in times : Earliest(times, end) <= time
<1>1. CASE times = {}
  BY <1>1 DEF Earliest
<1>2. CASE times # {}
  <2>1. times \in SUBSET Nat
    OBVIOUS
  <2>2. \E a \in times : \A b \in times : a <= b
    BY <1>2, <2>1, LeastNatural
  <2>3. Earliest(times, end) \in times /\ \A b \in times : Earliest(times, end) <= b
    BY <1>2, <2>2 DEF Earliest
  <2> QED
    BY <2>3
<1> QED
  BY <1>1, <1>2

\* The times at which functions are found to cross in a step that ends at end.
CrossingTimes(end) == {Located(z, reached, end).hi : z \in Crossed(reached, end)}

LEMMA StepIsCut ==
    ASSUME SolverTypes, Solving, solve.solver = "adaptive",
           NEW end \in now + 1 .. solve.tf
    PROVE  LET e == Earliest(CrossingTimes(end), end) IN
           /\ e \in now + 1 .. end
           /\ \A z \in solve.zero :
                CrossesOnce(z) =>
                    ~Opposite(SignAt(z, now, reached.jumps), SignAt(z, e - 1, reached.jumps))
<1> DEFINE times == CrossingTimes(end)
           e     == Earliest(times, end)
<1>1. /\ now \in Nat /\ solve.tf \in Int /\ end \in Int /\ now < end /\ end <= solve.tf
      /\ reached.t = now
      /\ \A z \in solve.zero : \A time \in 0 .. solve.tf : z[time] \in {-1, 0, 1}
  BY SolveIs DEF Solving, now
<1>2. ASSUME NEW z \in solve.zero, NEW a \in 0 .. solve.tf, NEW b \in 0 .. solve.tf
      PROVE  /\ SignAt(z, a, reached.jumps) \in {-1, 0, 1}
             /\ Opposite(SignAt(z, a, reached.jumps), SignAt(z, b, reached.jumps)) <=> Opposite(z[a], z[b])
  BY <1>1, SignIs
<1>3. ASSUME NEW z \in Crossed(reached, end)
      PROVE  LET b == Located(z, reached, end) IN
             /\ z \in solve.zero
             /\ b.lo \in now .. end /\ b.hi \in now + 1 .. end /\ b.hi = b.lo + 1
             /\ ~Opposite(SignAt(z, now, reached.jumps), SignAt(z, b.lo, reached.jumps))
  <2>1. z \in solve.zero
    BY DEF Crossed
  <2>2. SignAt(z, reached.t, reached.jumps) \in {-1, 0, 1} /\ reached.t \in Int /\ reached.t < end
    <3>1. now \in 0 .. solve.tf
      BY <1>1
    <3> QED
      BY <1>1, <1>2, <2>1, <3>1
  <2>3. LET b == Located(z, reached, end) IN
        /\ b.lo \in reached.t .. end /\ b.hi \in reached.t + 1 .. end /\ b.hi = b.lo + 1
        /\ ~Opposite(SignAt(z, reached.t, reached.jumps), SignAt(z, b.lo, reached.jumps))
    BY <1>1, <2>2, LocatedIs
  <2> QED
    BY <1>1, <2>1, <2>3
<1>4. times \in SUBSET (now + 1 .. end)
  BY <1>3 DEF CrossingTimes
<1>5. e \in now + 1 .. end /\ \A time \in times : e <= time
  <2> HIDE DEF times
  <2> QED
    BY <1>1, <1>4, EarliestIs
<1> HIDE DEF e
<1>6. ASSUME NEW z \in solve.zero, CrossesOnce(z),
             Opposite(SignAt(z, now, reached.jumps), SignAt(z, e - 1, reached.jumps))
      PROVE  FALSE
  <2>1. /\ now \in 0 .. solve.tf /\ e - 1 \in 0 .. solve.tf /\ end \in 0 .. solve.tf
        /\ now <= e - 1 /\ e - 1 <= end
    BY <1>1, <1>5
  <2>2. Opposite(z[now], z[e - 1])
    BY <1>2, <1>6, <2>1
  <2>3. \A c \in 0 .. solve.tf : e - 1 <= c => Opposite(z[now], z[c])
    BY <1>6, <2>1, <2>2 DEF CrossesOnce
  <2>4. Opposite(SignAt(z, now, reached.jumps), SignAt(z, end, reached.jumps))
    <3>1. Opposite(z[now], z[end])
      BY <2>1, <2>3
    <3> QED
      BY <1>2, <2>1, <3>1
  <2>5. z \in Crossed(reached, end)
    BY <1>1, <2>4 DEF Crossed
  <2> DEFINE b == Located(z, reached, end)
  <2>6. /\ b.lo \in now .. end /\ b.hi \in now + 1 .. end /\ b.hi = b.lo + 1
        /\ ~Opposite(SignAt(z, now, reached.jumps), SignAt(z, b.lo, reached.jumps))
    BY <1>3, <2>5
  <2>7. b.hi \in times
    BY <2>5 DEF CrossingTimes
  <2> HIDE DEF b
  <2>8. e - 1 <= b.lo /\ b.lo \in 0 .. solve.tf
    BY <1>1, <1>5, <2>6, <2>7
  <2>9. Opposite(z[now], z[b.lo])
    BY <2>3, <2>8
  <2> QED
    BY <1>2, <2>1, <2>6, <2>8, <2>9
<1> QED
  BY <1>5, <1>6 DEF e

-----------------------------------------------------------------------------
(* The turns of the solvers' loops.                                        *)

SolverFresh ==
    /\ solve \in FixedRuns \cup AdaptiveRuns
    /\ solving = ~Refuses(solve) /\ solved = ~Refuses(solve)
    /\ accepted = Origin /\ past = <<>> /\ h = FirstStep(solve)
    /\ used = Nothing /\ stopped = FALSE

LEMMA SolveStarts == SolverFresh => SolverInv
<1> SUFFICES ASSUME SolverFresh PROVE SolverInv
  OBVIOUS
<1> USE DEF SolverFresh
<1>1. accepted \in Seq(SolverStates) /\ accepted # <<>> /\ Len(accepted) = 1
      /\ accepted[1] = [t |-> 0, jumps |-> 0]
  BY DEF Origin, SolverStates
<1>2. solving \in BOOLEAN /\ solved \in BOOLEAN
  OBVIOUS
<1>3. h \in Int
  <2>1. CASE solve.solver = "adaptive"
    <3>1. HMin(solve) \in Int /\ HMax(solve) \in Int /\ solve.first \in Int
      <4>1. solve.lo \in MinSteps /\ solve.hi \in MaxSteps /\ solve.first \in FirstSteps
        BY <2>1 DEF FixedRuns, AdaptiveRuns
      <4>2. MinSteps \subseteq Int /\ MaxSteps \subseteq Int /\ FirstSteps \subseteq Int
        BY SolverAssumption
      <4> QED
        BY <4>1, <4>2 DEF HMin, HMax, Least
    <3> QED
      BY <2>1, <3>1, ClampedIs DEF FirstStep
  <2>2. CASE solve.solver # "adaptive"
    BY <2>2 DEF FirstStep
  <2> QED
    BY <2>1, <2>2
<1>4. SolverTypes
  BY <1>1, <1>2, <1>3 DEF SolverTypes
<1>5. reached = [t |-> 0, jumps |-> 0] /\ now = 0 /\ solve.tf \in Int
      /\ (solve.solver = "fixed" => solve.step \in Int)
  <2>1. reached = accepted[1]
    BY <1>1 DEF reached, Last
  <2> QED
    BY <1>1, <1>4, <2>1, SolveIs DEF now
<1>6. ASSUME solving PROVE Solving
  <2>1. ~Refuses(solve) /\ solved = TRUE
    <3>1. solved = solving /\ solving = TRUE
      BY <1>2, <1>6
    <3> QED
      BY <1>6, <3>1
  <2>2. solve.tf >= 0
    BY <1>5, <2>1 DEF Refuses
  <2>3. ASSUME solve.solver = "fixed" PROVE 0 <= GridCount /\ 0 = GridPoint(0)
    <3>1. solve.step \in Nat \ {0}
      BY <1>5, <2>1, <2>3 DEF Refuses
    <3> DEFINE a == solve.tf + solve.step - 1
               q == a \div solve.step
    <3>2. a \in Nat /\ GridCount = q
      BY <1>5, <2>2, <3>1 DEF GridCount
    <3> HIDE DEF a
    <3>3. q \in Int /\ a < q * solve.step + solve.step
      <4>1. a \in Int
        BY <3>2
      <4> QED
        BY <3>1, <4>1, Quotient
    <3> HIDE DEF q
    <3>4. q >= 0
      <4>1. CASE q < 0
        <5>1. q * solve.step + solve.step <= 0 * solve.step
          BY <3>1, <3>3, <4>1, Spaced
        <5>2. q * solve.step \in Int
          BY <3>1, <3>3
        <5> QED
          BY <3>1, <3>2, <3>3, <5>1, <5>2
      <4> QED
        BY <3>3, <4>1
    <3>5. 0 = GridPoint(0)
      <4>1. CASE q = 0
        <5>1. a < solve.step
          BY <3>1, <3>3, <4>1
        <5>2. solve.tf = 0
          BY <1>5, <2>2, <3>1, <5>1 DEF a
        <5> QED
          BY <3>1, <5>2 DEF GridPoint
      <4>2. CASE q > 0
        BY <3>1, <3>2, <3>3, <4>2 DEF GridPoint
      <4> QED
        BY <3>3, <3>4, <4>1, <4>2
    <3> QED
      BY <3>2, <3>3, <3>4, <3>5
  <2> QED
    BY <1>1, <1>5, <2>1, <2>2, <2>3 DEF Solving
<1>7. SolveIsHonest
  <2>1. ~solving => solved = FALSE /\ Refuses(solve)
    BY <1>2
  <2> QED
    BY <1>1, <2>1 DEF SolveIsHonest
<1>8. HistoryIsSmooth /\ CrossingEndsStep
  BY <1>1 DEF HistoryIsSmooth, CrossingEndsStep, Nothing
<1> QED
  BY <1>4, <1>6, <1>7, <1>8 DEF SolverInv

\* A run that fails was short of tf; its log is what it was.
LEMMA FailKeeps ==
    ASSUME SolverInv, solving, now < solve.tf, Fail, UNCHANGED <<solve, accepted, used, stopped>>,
           h' \in Int
    PROVE  SolverInv'
<1>1. /\ SolverTypes /\ Solving /\ SolveIsHonest /\ HistoryIsSmooth /\ CrossingEndsStep
      /\ solving' = FALSE /\ solved' = FALSE /\ now' = now /\ now # solve.tf /\ stopped = FALSE
  BY SolveIs DEF SolverInv, Fail, Solving, now, reached
<1>2. SolverTypes'
  BY <1>1 DEF SolverTypes
<1>3. SolveIsHonest'
  BY <1>1 DEF SolveIsHonest, GridPoint, GridCount
<1>4. HistoryIsSmooth' /\ CrossingEndsStep'
  BY <1>1 DEF HistoryIsSmooth, CrossingEndsStep, CrossesOnce
<1> QED
  BY <1>1, <1>2, <1>3, <1>4 DEF SolverInv

\* A run that reaches the end succeeds.
LEMMA EndKeeps ==
    ASSUME SolverInv, solving, now = solve.tf, solving' = FALSE,
           UNCHANGED <<solve, solved, accepted, past, h, used, stopped>>
    PROVE  SolverInv'
<1>1. /\ SolverTypes /\ Solving /\ SolveIsHonest /\ HistoryIsSmooth /\ CrossingEndsStep
      /\ solved' = TRUE /\ now' = now /\ ~Refuses(solve)' /\ ~Refuses(solve)
  BY DEF SolverInv, Solving, now, reached, Refuses
<1>2. SolverTypes'
  BY <1>1 DEF SolverTypes
<1>3. SolveIsHonest'
  BY <1>1 DEF SolveIsHonest, GridPoint, GridCount
<1>4. HistoryIsSmooth' /\ CrossingEndsStep'
  BY <1>1 DEF HistoryIsSmooth, CrossingEndsStep, CrossesOnce
<1> QED
  BY <1>1, <1>2, <1>3, <1>4 DEF SolverInv

\* The fixed solver's grid is the drivers'.
LEMMA GridAgrees ==
    ASSUME solve.tf \in Int, 0 < solve.tf, solve.step \in Nat \ {0}, NEW i \in Nat
    PROVE  /\ GridCount = StepCount(0, solve.tf, solve.step)
           /\ GridCount \in Nat \ {0}
           /\ GridPoint(i) = GridTime(0, solve.tf, solve.step, i)
           /\ i < GridCount =>
                /\ GridPoint(i) = i * solve.step /\ i * solve.step \in Nat
                /\ GridPoint(i) < GridPoint(i + 1) /\ GridPoint(i + 1) <= solve.tf
                /\ GridPoint(i + 1) \in Int /\ GridPoint(i) < solve.tf
           /\ i >= GridCount => GridPoint(i) = solve.tf
<1>1. solve.tf + solve.step - 1 = solve.tf - 0 + solve.step - 1
  OBVIOUS
<1>2. GridCount = StepCount(0, solve.tf, solve.step)
  BY <1>1 DEF GridCount, StepCount
<1>3. GridCount \in Nat \ {0}
  <2>1. StepCount(0, solve.tf, solve.step) \in Nat \ {0}
    BY StepCountIs
  <2> QED
    BY <1>2, <2>1
<1>4. ASSUME NEW j \in Nat PROVE GridPoint(j) = GridTime(0, solve.tf, solve.step, j)
  BY <1>2 DEF GridPoint, GridTime
<1>5. ASSUME i < GridCount
      PROVE  /\ GridPoint(i) = i * solve.step /\ i * solve.step \in Nat
             /\ GridPoint(i) < GridPoint(i + 1) /\ GridPoint(i + 1) <= solve.tf
             /\ GridPoint(i + 1) \in Int /\ GridPoint(i) < solve.tf
  <2>1. i < StepCount(0, solve.tf, solve.step)
    BY <1>2, <1>5
  <2>2. /\ GridTime(0, solve.tf, solve.step, i) = 0 + i * solve.step /\ i * solve.step \in Nat
        /\ GridTime(0, solve.tf, solve.step, i) < solve.tf
        /\ GridTime(0, solve.tf, solve.step, i + 1) \in Int
        /\ GridTime(0, solve.tf, solve.step, i) < GridTime(0, solve.tf, solve.step, i + 1)
        /\ GridTime(0, solve.tf, solve.step, i + 1) <= solve.tf
    BY <2>1, GridIs
  <2> QED
    BY <1>4, <2>2
<1>6. i >= GridCount => GridPoint(i) = solve.tf
  BY DEF GridPoint
<1> QED
  BY <1>2, <1>3, <1>4, <1>5, <1>6

\* What Accept does to a solve that goes on.
LEMMA AcceptIs ==
    ASSUME SolverInv, solving, UNCHANGED solve, NEW to \in now + 1 .. solve.tf,
           NEW jump \in BOOLEAN, NEW stop \in BOOLEAN,
           Accept([reached EXCEPT !.t = to], jump, stop), h' \in Int,
           solve.solver = "fixed" => to = GridPoint(Len(accepted))
    PROVE  /\ SolverTypes' /\ SolveIsHonest' /\ solved' = TRUE /\ solving' = ~stop /\ stopped' = stop
           /\ Len(accepted') = Len(accepted) + 1
           /\ \A i \in 1 .. Len(accepted) : accepted'[i] = accepted[i]
           /\ accepted'[Len(accepted')] = reached' /\ reached'.t = to /\ now' = to
           /\ ~jump => reached' = [reached EXCEPT !.t = to]
<1>1. /\ SolverTypes /\ Solving /\ SolveIsHonest
      /\ reached \in SolverStates /\ reached = accepted[Len(accepted)] /\ now = reached.t
      /\ Len(accepted) \in Nat \ {0} /\ now \in Int /\ to \in Int /\ now < to /\ to <= solve.tf
      /\ solve.tf \in Int
  BY SolveIs DEF SolverInv, now
<1> DEFINE state == [reached EXCEPT !.t = to]
           s     == [state EXCEPT !.jumps = IF jump THEN @ + 1 ELSE @]
<1>2. /\ accepted' = Append(accepted, s) /\ stopped' = stop /\ solving' = ~stop /\ solved' = solved
  BY DEF Accept
<1>3. s \in SolverStates /\ s.t = to /\ (~jump => s = [reached EXCEPT !.t = to])
  <2>1. reached.jumps \in Nat /\ reached = [t |-> now, jumps |-> reached.jumps]
    BY <1>1 DEF SolverStates
  <2>2. state = [t |-> to, jumps |-> reached.jumps]
    BY <2>1
  <2> HIDE DEF state
  <2>3. s = [t |-> to, jumps |-> IF jump THEN reached.jumps + 1 ELSE reached.jumps]
    BY <2>2
  <2> HIDE DEF s
  <2> QED
    BY <1>1, <2>1, <2>2, <2>3 DEF SolverStates, state
<1> HIDE DEF s, state
<1>4. /\ accepted' \in Seq(SolverStates) /\ accepted' # <<>>
      /\ Len(accepted') = Len(accepted) + 1
      /\ \A i \in 1 .. Len(accepted) : accepted'[i] = accepted[i]
      /\ accepted'[Len(accepted')] = s
  BY <1>1, <1>2, <1>3, AcceptedIs
<1>5. solving' \in BOOLEAN /\ solved' = TRUE /\ stopped' = stop
  BY <1>1, <1>2 DEF Solving
<1>6. SolverTypes'
  BY <1>1, <1>2, <1>4, <1>5 DEF SolverTypes
<1>7. reached' = s /\ now' = to
  BY <1>3, <1>4 DEF reached, now, Last
<1>8. ASSUME NEW i \in 2 .. Len(accepted')
      PROVE  /\ accepted'[i].t > accepted'[i - 1].t /\ accepted'[i].t <= solve.tf
             /\ solve.solver = "fixed" => accepted'[i].t = GridPoint(i - 1)
  <2>1. CASE i \in 2 .. Len(accepted)
    <3>1. accepted'[i] = accepted[i] /\ accepted'[i - 1] = accepted[i - 1]
      BY <1>1, <1>4, <2>1
    <3> QED
      BY <1>1, <2>1, <3>1 DEF SolveIsHonest
  <2>2. CASE i = Len(accepted')
    <3>1. accepted'[i] = s /\ accepted'[i - 1] = reached /\ i - 1 = Len(accepted)
      BY <1>1, <1>4, <2>2
    <3> QED
      BY <1>1, <1>3, <3>1
  <2> QED
    BY <1>1, <1>4, <2>1, <2>2
<1>9. ~solving' => (solved' <=> ~Refuses(solve)' /\ (now' = solve'.tf \/ stopped'))
  <2>1. ~Refuses(solve)'
    BY <1>1 DEF Solving, Refuses
  <2>2. ~solving' => stopped' = TRUE
    BY <1>2
  <2> QED
    BY <1>5, <2>1, <2>2
<1>10. SolveIsHonest'
  BY <1>8, <1>9 DEF SolveIsHonest, GridPoint, GridCount
<1> QED
  BY <1>2, <1>3, <1>4, <1>5, <1>6, <1>7, <1>10

\* A step of the fixed solver: the next point of the grid, with a history that fits.
LEMMA FixedStepKeeps ==
    ASSUME SolverInv, FixedStep
    PROVE  SolverInv'
<1> DEFINE n  == Len(accepted)
           to == GridPoint(n)
<1>1. /\ SolverTypes /\ solving /\ Solving /\ HistoryIsSmooth /\ solve.solver = "fixed"
      /\ n <= GridCount /\ n \in Nat \ {0} /\ UNCHANGED solve /\ h' = h /\ h \in Int
      /\ solve.tf \in Int /\ solve.step \in Int /\ now \in Int
      /\ reached \in SolverStates /\ now = reached.t
  BY SolveIs DEF SolverInv, FixedStep, now, SolverTypes
<1>2. /\ used' = [past |-> Remembered(to), from |-> reached, step |-> to - now]
      /\ \/ Fail /\ past' = Remembered(to) /\ UNCHANGED <<accepted, stopped>>
         \/ \E jump, stop \in BOOLEAN :
              Accept([reached EXCEPT !.t = to], jump, stop) /\ past' = PastKept(reached, jump)
  BY DEF FixedStep
<1>3. solve.step \in Nat \ {0} /\ solve.tf >= 0 /\ now = GridPoint(n - 1) /\ 0 <= now
  BY <1>1 DEF Solving, Refuses
<1>4. 0 < solve.tf
  <2>1. CASE solve.tf = 0
    <3> DEFINE a == solve.tf + solve.step - 1
    <3>1. a \in Int /\ 0 * solve.step <= a /\ a < 0 * solve.step + solve.step
      BY <1>3, <2>1
    <3> HIDE DEF a
    <3>2. a \div solve.step = 0
      BY <1>3, <3>1, QuotientIs
    <3>3. GridCount = 0
      BY <3>2 DEF a, GridCount
    <3> QED
      BY <1>1, <3>3
  <2> QED
    BY <1>1, <1>3, <2>1
<1>5. /\ GridCount \in Nat \ {0} /\ now = (n - 1) * solve.step
      /\ now < to /\ to <= solve.tf /\ to \in Int /\ now < solve.tf
      /\ n < GridCount => to = n * solve.step
  <2> DEFINE i == n - 1
  <2>1. i \in Nat /\ i < GridCount /\ i + 1 = n
    BY <1>1, <1>4, <1>3, GridAgrees
  <2>2. i < GridCount =>
          /\ GridPoint(i) = i * solve.step
          /\ GridPoint(i) < GridPoint(i + 1) /\ GridPoint(i + 1) <= solve.tf
          /\ GridPoint(i + 1) \in Int /\ GridPoint(i) < solve.tf
    <3> HIDE DEF i
    <3> QED
      BY <1>1, <1>3, <1>4, <2>1, GridAgrees
  <2>3. n < GridCount => GridPoint(n) = n * solve.step
    BY <1>1, <1>3, <1>4, GridAgrees
  <2>4. GridCount \in Nat \ {0}
    BY <1>1, <1>3, <1>4, <2>1, GridAgrees
  <2> QED
    BY <1>3, <2>1, <2>2, <2>3, <2>4
<1> HIDE DEF to
<1>6. HistoryIsSmooth'
  <2>1. used'.past # <<>> => /\ to - now = solve.step /\ past # <<>>
                             /\ used'.past = past
    BY <1>2 DEF Remembered
  <2>2. used'.past # <<>> => past[1] = [reached EXCEPT !.t = @ - solve.step]
    BY <1>1, <2>1 DEF Solving
  <2>3. used'.from = reached /\ used'.step = to - now
    BY <1>2
  <2> QED
    BY <2>1, <2>2, <2>3 DEF HistoryIsSmooth
<1>7. CrossingEndsStep'
  BY <1>1 DEF CrossingEndsStep
<1>8. CASE Fail /\ UNCHANGED <<accepted, stopped>>
  <2>1. /\ solving' = FALSE /\ solved' = FALSE /\ now' = now /\ now # solve.tf /\ stopped = FALSE
    BY <1>1, <1>5, <1>8 DEF Fail, now, reached, Solving
  <2>2. SolverTypes'
    BY <1>1, <1>8, <2>1 DEF SolverTypes
  <2>3. SolveIsHonest'
    BY <1>1, <1>8, <2>1 DEF SolverInv, SolveIsHonest, GridPoint, GridCount
  <2> QED
    BY <1>6, <1>7, <2>1, <2>2, <2>3 DEF SolverInv
<1>9. ASSUME NEW jump \in BOOLEAN, NEW stop \in BOOLEAN,
             Accept([reached EXCEPT !.t = to], jump, stop), past' = PastKept(reached, jump)
      PROVE  SolverInv'
  <2>1. to \in now + 1 .. solve.tf /\ to = GridPoint(Len(accepted)) /\ h' \in Int
    BY <1>1, <1>5 DEF to
  <2>2. /\ SolverTypes' /\ SolveIsHonest' /\ solved' = TRUE /\ solving' = ~stop /\ stopped' = stop
        /\ Len(accepted') = Len(accepted) + 1
        /\ reached'.t = to /\ now' = to
        /\ ~jump => reached' = [reached EXCEPT !.t = to]
    BY <1>1, <1>9, <2>1, AcceptIs
  <2>3. ASSUME past' # <<>>, n < GridCount
        PROVE  past'[1] = [reached' EXCEPT !.t = @ - solve.step]
    <3>1. ~jump /\ past' = <<reached>>
      BY <1>9, <2>3 DEF PastKept
    <3>2. to - solve.step = now
      <4>1. n * solve.step = (n - 1) * solve.step + solve.step /\ (n - 1) * solve.step \in Int
        BY <1>1
      <4> QED
        BY <1>1, <1>5, <2>3, <4>1
    <3>3. reached = [t |-> now, jumps |-> reached.jumps]
      BY <1>1 DEF SolverStates
    <3>4. reached' = [t |-> to, jumps |-> reached.jumps]
      BY <2>2, <3>1, <3>3
    <3> QED
      BY <3>1, <3>2, <3>3, <3>4
  <2>4. ASSUME stop = FALSE PROVE Solving'
    <3>1. stopped' = FALSE /\ solved' = TRUE /\ ~Refuses(solve)'
      BY <1>1, <2>2, <2>4 DEF Solving, Refuses
    <3>2. Len(accepted') - 1 = n /\ now' = to /\ GridCount' = GridCount
      BY <1>1, <2>2 DEF GridCount
    <3>3. GridPoint(Len(accepted) - 1)' = to
      <4>1. GridPoint(Len(accepted) - 1)' = GridPoint(Len(accepted') - 1)
        BY <1>1, <3>2 DEF GridPoint
      <4> QED
        BY <3>2, <4>1 DEF to
    <3>4. 0 <= now' /\ now' <= solve'.tf
      BY <1>1, <1>3, <1>5, <3>2
    <3>5. past' # <<>> /\ Len(accepted') <= GridCount => n < GridCount
      BY <1>1, <1>5, <2>2
    <3>6. past' # <<>> /\ Len(accepted') <= GridCount =>
            past'[1] = [reached' EXCEPT !.t = @ - solve'.step]
      BY <1>1, <2>3, <3>5
    <3>7. Len(accepted') - 1 <= GridCount
      BY <1>1, <3>2
    <3> HIDE DEF n
    <3> QED
      BY <1>1, <3>1, <3>2, <3>3, <3>4, <3>6, <3>7 DEF Solving
  <2> QED
    BY <1>6, <1>7, <2>2, <2>4 DEF SolverInv
<1> QED
  BY <1>2, <1>8, <1>9

\* A step of the adaptive solver that is accepted ends at tf at the latest, and at the
\* earliest crossing.
LEMMA AcceptStepKeeps ==
    ASSUME SolverInv, AcceptStep
    PROVE  SolverInv'
<1> DEFINE end == now + Target
           to  == Earliest(CrossingTimes(end), end)
           n   == Len(accepted)
<1>1. /\ SolverTypes /\ solving /\ Solving /\ HistoryIsSmooth /\ CrossingEndsStep
      /\ solve.solver = "adaptive" /\ now < solve.tf /\ Target > 0
      /\ UNCHANGED <<solve, past, used>>
      /\ solve.tf \in Int /\ now \in Int /\ HMin(solve) \in Int /\ HMax(solve) \in Int /\ h \in Int
      /\ n \in Nat \ {0} /\ reached = accepted[n] /\ now = reached.t /\ 0 <= now
  BY SolveIs DEF SolverInv, AcceptStep, Tries, SolverTypes, Solving, now
<1>2. Target \in Int /\ Target <= solve.tf - now
  BY <1>1 DEF Target, Remaining, Least
<1>3. end \in now + 1 .. solve.tf
  BY <1>1, <1>2
<1>4. /\ to \in now + 1 .. end
      /\ \A z \in solve.zero :
           CrossesOnce(z) =>
               ~Opposite(SignAt(z, now, reached.jumps), SignAt(z, to - 1, reached.jumps))
  <2> HIDE DEF end
  <2> QED
    BY <1>1, <1>3, StepIsCut
<1>5. /\ \E next \in Int : h' = Clamped(next, HMin(solve), HMax(solve))
      /\ \E jump, stop \in BOOLEAN : Accept([reached EXCEPT !.t = to], jump, stop)
  <2>1. \E jump, stop \in BOOLEAN : Accept([reached EXCEPT !.t = to], jump, stop)
    BY DEF AcceptStep, CrossingTimes
  <2>2. PICK forced \in BOOLEAN :
          \E next \in 0 .. (IF forced THEN Target - 1
                            ELSE IF last_rejected THEN Target ELSE MaxFactor * Target) :
              h' = Clamped(next, HMin(solve), HMax(solve))
    BY DEF AcceptStep
  <2> QED
    BY <2>1, <2>2
<1>6. h' \in Int
  BY <1>1, <1>5, ClampedIs
<1>7. PICK jump \in BOOLEAN, stop \in BOOLEAN : Accept([reached EXCEPT !.t = to], jump, stop)
  BY <1>5
<1>8. to \in now + 1 .. solve.tf /\ to \in Int
  BY <1>1, <1>3, <1>4
<1> HIDE DEF to, end
<1>9. /\ SolverTypes' /\ SolveIsHonest' /\ solved' = TRUE /\ solving' = ~stop /\ stopped' = stop
      /\ Len(accepted') = n + 1
      /\ \A i \in 1 .. n : accepted'[i] = accepted[i]
      /\ accepted'[Len(accepted')] = reached' /\ reached'.t = to /\ now' = to
  BY <1>1, <1>6, <1>7, <1>8, AcceptIs
<1>10. HistoryIsSmooth'
  BY <1>1 DEF HistoryIsSmooth
<1>11. CrossingEndsStep'
  <2>1. ASSUME NEW i \in 2 .. Len(accepted'), NEW z \in solve.zero, CrossesOnce(z)
        PROVE  ~Opposite(SignAt(z, accepted'[i - 1].t, accepted'[i - 1].jumps),
                         SignAt(z, accepted'[i].t - 1, accepted'[i - 1].jumps))
    <3>1. CASE i \in 2 .. n
      <4>1. accepted'[i] = accepted[i] /\ accepted'[i - 1] = accepted[i - 1]
        BY <1>1, <1>9, <3>1
      <4> QED
        BY <1>1, <2>1, <3>1, <4>1 DEF CrossingEndsStep
    <3>2. CASE i = Len(accepted')
      <4>1. accepted'[i - 1] = reached /\ accepted'[i].t = to
        BY <1>1, <1>9, <3>2
      <4> QED
        BY <1>1, <1>4, <2>1, <4>1
    <3> QED
      BY <1>1, <1>9, <3>1, <3>2
  <2>2. \A z : CrossesOnce(z)' <=> CrossesOnce(z)
    BY <1>1 DEF CrossesOnce
  <2> QED
    BY <1>1, <2>1, <2>2 DEF CrossingEndsStep
<1>12. ASSUME stop = FALSE PROVE Solving'
  <2>1. stopped' = FALSE /\ solved' = TRUE /\ ~Refuses(solve)'
    BY <1>1, <1>9, <1>12 DEF Solving, Refuses
  <2> QED
    BY <1>1, <1>8, <1>9, <2>1 DEF Solving
<1> QED
  BY <1>9, <1>10, <1>11, <1>12 DEF SolverInv

\* A rejected step changes only what is tried next; too many fail.
LEMMA RejectKeeps ==
    ASSUME SolverInv, Reject
    PROVE  SolverInv'
<1>1. /\ SolverTypes /\ solving /\ Solving /\ now < solve.tf
      /\ UNCHANGED <<solve, accepted, past, used, stopped>>
      /\ HMin(solve) \in Int /\ HMax(solve) \in Int
      /\ Fail \/ UNCHANGED <<solving, solved>>
  BY SolveIs DEF SolverInv, Reject, Tries
<1>2. h' \in Int
  <2>1. PICK shorter \in 0 .. Target - 1 : h' = Clamped(shorter, HMin(solve), HMax(solve))
    BY DEF Reject
  <2> QED
    BY <1>1, <2>1, ClampedIs
<1>3. CASE Fail
  BY <1>1, <1>2, <1>3, FailKeeps
<1>4. CASE UNCHANGED <<solving, solved>>
  <2>1. SolverTypes'
    BY <1>1, <1>2, <1>4 DEF SolverTypes
  <2>2. now' = now /\ reached' = reached /\ GridCount' = GridCount /\ Refuses(solve)' = Refuses(solve)
    BY <1>1 DEF now, reached, GridCount, Refuses
  <2>3. Solving'
    BY <1>1, <1>4, <2>2 DEF Solving, GridPoint
  <2>4. SolveIsHonest'
    BY <1>1, <1>4, <2>2 DEF SolverInv, SolveIsHonest, GridPoint
  <2>5. HistoryIsSmooth' /\ CrossingEndsStep'
    BY <1>1 DEF SolverInv, HistoryIsSmooth, CrossingEndsStep, CrossesOnce
  <2> QED
    BY <2>1, <2>3, <2>4, <2>5 DEF SolverInv
<1> QED
  BY <1>1, <1>3, <1>4

\* The same of the next state: solve() begins afresh on the same object.
LEMMA SolveStartsAgain == SolverFresh' => SolverInv'
  BY SolveStarts, PTL

LEMMA SolverStepKeeps ==
    ASSUME SolverInv, [SolverNext]_solverVars
    PROVE  SolverInv'
<1>1. CASE FixedStep
  BY <1>1, FixedStepKeeps
<1>2. CASE AcceptStep
  BY <1>2, AcceptStepKeeps
<1>3. CASE Reject
  BY <1>3, RejectKeeps
<1>4. CASE OutOfBudget \/ NoStep \/ MinStepFails
  <2>1. /\ solving /\ now < solve.tf /\ Fail /\ UNCHANGED <<solve, accepted, used, stopped>>
        /\ h' = h
    BY <1>4 DEF OutOfBudget, NoStep, MinStepFails, Tries, control
  <2>2. h' \in Int
    BY <2>1 DEF SolverInv, SolverTypes
  <2> QED
    BY <2>1, <2>2, FailKeeps
<1>5. CASE FixedEnd \/ AdaptiveEnd
  <2>1. /\ solving /\ solving' = FALSE
        /\ UNCHANGED <<solve, solved, accepted, past, h, used, stopped>>
    BY <1>5 DEF FixedEnd, AdaptiveEnd, control
  <2>2. SolverTypes /\ Solving /\ solve.tf \in Int /\ now \in Int /\ Len(accepted) \in Nat
    BY <2>1, SolveIs DEF SolverInv
  <2>3. now = solve.tf
    <3>1. CASE FixedEnd
      <4>1. solve.solver = "fixed" /\ Len(accepted) > GridCount
        BY <3>1 DEF FixedEnd
      <4>2. now = GridPoint(Len(accepted) - 1) /\ Len(accepted) - 1 <= GridCount
        BY <2>2, <4>1 DEF Solving
      <4>3. solve.step \in Nat \ {0}
        BY <2>2, <4>1, SolveIs DEF Solving, Refuses
      <4>4. GridCount \in Int
        <5> DEFINE a == solve.tf + solve.step - 1
        <5>1. a \in Int
          BY <2>2, <4>3
        <5> HIDE DEF a
        <5>2. a \div solve.step \in Int
          BY <4>3, <5>1, Quotient
        <5> QED
          BY <5>2 DEF a, GridCount
      <4>5. Len(accepted) - 1 >= GridCount
        BY <2>2, <4>1, <4>4
      <4> QED
        BY <4>2, <4>5 DEF GridPoint
    <3>2. CASE AdaptiveEnd
      BY <2>2, <3>2 DEF AdaptiveEnd, Solving
    <3> QED
      BY <1>5, <3>1, <3>2
  <2> QED
    BY <2>1, <2>3, EndKeeps
<1>6. CASE Solve
  <2>1. SolverFresh'
    BY <1>6 DEF Solve, SolverFresh, Origin, Nothing, FixedRuns, AdaptiveRuns, Refuses, FirstStep
  <2> QED
    BY <2>1, SolveStartsAgain
<1>7. CASE UNCHANGED solverVars
  <2>1. UNCHANGED <<solve, solving, solved, accepted, past, h, used, stopped>>
    BY <1>7 DEF solverVars, control
  <2>2. now' = now /\ reached' = reached /\ GridCount' = GridCount /\ Refuses(solve)' = Refuses(solve)
    BY <2>1 DEF now, reached, GridCount, Refuses
  <2>3. SolverTypes' /\ (solving' => Solving')
    BY <2>1, <2>2 DEF SolverInv, SolverTypes, Solving, GridPoint
  <2>4. SolveIsHonest'
    BY <2>1, <2>2 DEF SolverInv, SolveIsHonest, GridPoint
  <2>5. HistoryIsSmooth' /\ CrossingEndsStep'
    BY <2>1 DEF SolverInv, HistoryIsSmooth, CrossingEndsStep, CrossesOnce
  <2> QED
    BY <2>3, <2>4, <2>5 DEF SolverInv
<1> QED
  BY <1>1, <1>2, <1>3, <1>4, <1>5, <1>6, <1>7 DEF SolverNext, SolveLoop

LEMMA SolverAlways == SolverSpec => []SolverInv
<1>1. SolverInit => SolverInv
  BY SolveStarts DEF SolverInit, SolverFresh
<1>2. SolverInv /\ [SolverNext]_solverVars => SolverInv'
  BY SolverStepKeeps
<1> QED
  BY <1>1, <1>2, PTL DEF SolverSpec

\* FixedStepSolver and AdaptiveStepSolver: success says whether the solve reached tf or
\* was stopped by a callback, and the times logged are the grid's or increase.
THEOREM SolversAreHonest == SolverSpec => []SolveIsHonest
<1>1. SolverInv => SolveIsHonest
  BY DEF SolverInv
<1> QED
  BY <1>1, SolverAlways, PTL

\* BDF2 (integrator.hpp): the history it steps with is one step back on the same smooth
\* piece of the trajectory, for every span and step, and whatever jumps and fails.
THEOREM HistoriesAreSmooth == SolverSpec => []HistoryIsSmooth
<1>1. SolverInv => HistoryIsSmooth
  BY DEF SolverInv
<1> QED
  BY <1>1, SolverAlways, PTL

\* AdaptiveStepSolver: the earliest crossing among the registered functions ends the
\* step, for every set of functions and every choice of steps.
THEOREM CrossingsEndSteps == SolverSpec => []CrossingEndsStep
<1>1. SolverInv => CrossingEndsStep
  BY DEF SolverInv
<1> QED
  BY <1>1, SolverAlways, PTL

-----------------------------------------------------------------------------
(* How many turns a driver's loop can still take.                          *)

\* The ticks or events that a run is still allowed, and the turn that leaves the loop.
TurnsLeft ==
    IF ~running THEN 0
    ELSE (IF run.driver = "two_rate" THEN Ticks ELSE run.limit) - k + 1

TurnsInv ==
    /\ SimInv
    /\ run.driver = "piecewise" => k <= run.limit

LEMMA TicksAre ==
    ASSUME SimTypes, AtTick
    PROVE  Ticks \in Nat /\ k <= Ticks
<1>1. run.tf \in Int /\ 0 < run.tf /\ TsBase \in Nat \ {0} /\ k <= Ticks
  BY RunIs DEF AtTick
<1>2. StepCount(0, run.tf, TsBase) \in Nat
  BY <1>1, StepCountIs
<1> QED
  BY <1>1, <1>2 DEF Ticks

LEMMA TurnsAre ==
    ASSUME TurnsInv
    PROVE  /\ TurnsLeft \in Nat
           /\ TurnsLeft = 0 <=> ~running
<1>1. /\ SimTypes /\ k \in Nat /\ running \in BOOLEAN
      /\ running => (run.driver = "two_rate" => AtTick)
  BY DEF TurnsInv, SimInv, SimTypes, TwoRateInv
<1>2. CASE running /\ run.driver = "two_rate"
  <2>1. Ticks \in Nat /\ k <= Ticks
    BY <1>1, <1>2, TicksAre
  <2> QED
    BY <1>1, <1>2, <2>1 DEF TurnsLeft
<1>3. CASE running /\ run.driver = "piecewise"
  <2>1. run.limit \in Nat /\ k <= run.limit
    BY <1>1, <1>3, RunIs DEF TurnsInv
  <2> QED
    BY <1>1, <1>3, <2>1 DEF TurnsLeft
<1> QED
  BY <1>1, <1>2, <1>3, RunIs DEF TurnsLeft

\* A turn leaves the loop, or completes one tick or event.
LEMMA TurnIs ==
    ASSUME Loop
    PROVE  /\ running /\ UNCHANGED run
           /\ running' = FALSE \/ (running' = running /\ k' = k + 1)
           /\ k' = k \/ k' = k + 1
           /\ k' # k => (run.driver = "piecewise" => k < run.limit)
<1>1. CASE TickLimit
  BY <1>1 DEF TickLimit, Stop
<1>2. CASE BaseTick
  BY <1>2 DEF BaseTick, Stop
<1>3. CASE TwoRateEnd
  BY <1>3 DEF TwoRateEnd
<1>4. CASE EventLimit
  BY <1>4 DEF EventLimit, Stop
<1>5. CASE StandStill
  BY <1>5 DEF StandStill, Stop
<1>6. CASE Segment
  <2>1. running /\ UNCHANGED run /\ k < run.limit
    BY <1>6 DEF Segment
  <2>2. /\ running' = FALSE \/ (running' = running /\ k' = k + 1)
        /\ k' = k \/ k' = k + 1
    BY <1>6 DEF Segment, Stop
  <2> QED
    BY <2>1, <2>2
<1> QED
  BY <1>1, <1>2, <1>3, <1>4, <1>5, <1>6 DEF Loop

LEMMA TurnsStep ==
    ASSUME TurnsInv, [Next]_vars
    PROVE  /\ TurnsInv'
           /\ Loop => TurnsLeft' < TurnsLeft
           /\ ~Loop => TurnsLeft' = TurnsLeft
<1>1. SimInv' /\ SimTypes /\ k \in Nat /\ k' \in Nat
  BY SimStepKeeps DEF TurnsInv, SimInv, SimTypes
<1>2. CASE Loop
  <2>1. /\ running /\ UNCHANGED run
        /\ running' = FALSE \/ (running' = running /\ k' = k + 1)
        /\ k' = k \/ k' = k + 1
        /\ k' # k => (run.driver = "piecewise" => k < run.limit)
    BY <1>2, TurnIs
  <2>2. TurnsInv'
    <3>1. CASE k' = k
      BY <1>1, <2>1, <3>1 DEF TurnsInv
    <3>2. CASE k' # k
      <4>1. run.driver = "piecewise" => k < run.limit /\ run.limit \in Nat
        BY <1>1, <2>1, <3>2, RunIs
      <4>2. k' = k + 1
        BY <2>1, <3>2
      <4> QED
        BY <1>1, <2>1, <4>1, <4>2 DEF TurnsInv
    <3> QED
      BY <3>1, <3>2
  <2>3. TurnsLeft \in Nat /\ TurnsLeft # 0
    BY <2>1, TurnsAre
  <2>4. TurnsLeft' < TurnsLeft
    <3>1. CASE running' = FALSE
      BY <2>3, <3>1 DEF TurnsLeft
    <3>2. CASE running' = running /\ k' = k + 1
      <4>1. Ticks' = Ticks
        BY <2>1 DEF Ticks
      <4> DEFINE all == IF run.driver = "two_rate" THEN Ticks ELSE run.limit
      <4>2. all' = all /\ TurnsLeft = all - k + 1 /\ TurnsLeft' = all - k' + 1
        BY <2>1, <3>2, <4>1 DEF TurnsLeft
      <4>3. all \in Int
        <5>1. run.driver = "two_rate" => AtTick
          BY <2>1 DEF TurnsInv, SimInv, TwoRateInv
        <5>2. run.driver = "two_rate" => Ticks \in Int
          BY <1>1, <5>1, TicksAre
        <5> QED
          BY <1>1, <5>2, RunIs
      <4> HIDE DEF all
      <4> QED
        BY <1>1, <3>2, <4>2, <4>3
    <3> QED
      BY <2>1, <3>1, <3>2
  <2> QED
    BY <1>2, <2>2, <2>4
<1>3. CASE Script \/ UNCHANGED vars
  <2>1. UNCHANGED <<run, running, k>>
    BY <1>3 DEF Script, vars, sim
  <2>2. TurnsInv' /\ TurnsLeft' = TurnsLeft
    BY <1>1, <2>1 DEF TurnsInv, TurnsLeft, Ticks
  <2>3. ~Loop
    <3> SUFFICES ASSUME Loop PROVE FALSE
      OBVIOUS
    <3>1. /\ running
          /\ running' = FALSE \/ (running' = running /\ k' = k + 1)
      BY TurnIs
    <3> QED
      BY <1>1, <2>1, <3>1
  <2> QED
    BY <2>2, <2>3
<1> QED
  BY <1>2, <1>3 DEF Next

\* simulate_two_rate() and simulate_piecewise_lti(): a run has only so many turns to
\* take.
THEOREM DriversRunOut ==
    Spec => /\ [](TurnsLeft \in Nat /\ (TurnsLeft = 0 <=> ~running))
            /\ [][IF Loop THEN TurnsLeft' < TurnsLeft ELSE TurnsLeft' = TurnsLeft]_vars
<1>1. Init => TurnsInv
  <2> SUFFICES ASSUME Init PROVE TurnsInv
    OBVIOUS
  <2>1. SimInv /\ k = 0
    BY SimStarts DEF Init
  <2>2. run.driver = "piecewise" => run.limit \in Nat
    BY <2>1, RunIs DEF SimInv
  <2> QED
    BY <2>1, <2>2 DEF TurnsInv
<1>2. TurnsInv /\ [Next]_vars =>
        /\ TurnsInv'
        /\ [IF Loop THEN TurnsLeft' < TurnsLeft ELSE TurnsLeft' = TurnsLeft]_vars
  BY TurnsStep
<1>3. TurnsInv => TurnsLeft \in Nat /\ (TurnsLeft = 0 <=> ~running)
  BY TurnsAre
<1> QED
  BY <1>1, <1>2, <1>3, PTL DEF Spec

-----------------------------------------------------------------------------
(* How many turns a solver's loop can still take.                          *)

\* The points of the grid that are left and the turn that leaves the loop; or, for each
\* tick of the span that is left, as many attempts as may be rejected in a row.
SolveTurnsLeft ==
    IF ~solving THEN 0
    ELSE IF solve.solver = "fixed" THEN (GridCount + 2) - Len(accepted)
    ELSE (solve.tf - now) * MaxRejections + (MaxRejections - rejections)

SolveTurnsInv ==
    /\ SolverInv
    /\ solving => rejections \in 0 .. MaxRejections - 1

LEMMA GridCountIs ==
    ASSUME SolverTypes, Solving, solve.solver = "fixed"
    PROVE  GridCount \in Int /\ Len(accepted) - 1 <= GridCount
<1>1. solve.tf \in Int /\ solve.step \in Nat \ {0} /\ Len(accepted) - 1 <= GridCount
  BY SolveIs DEF Solving, Refuses
<1> DEFINE a == solve.tf + solve.step - 1
<1>2. a \in Int
  BY <1>1
<1> HIDE DEF a
<1>3. a \div solve.step \in Int
  BY <1>1, <1>2, Quotient
<1> QED
  BY <1>1, <1>3 DEF a, GridCount

LEMMA RejectionsAre == MaxRejections \in Nat \ {0}
BY SolverAssumption

LEMMA SolveTurnsAre ==
    ASSUME SolveTurnsInv
    PROVE  /\ SolveTurnsLeft \in Nat
           /\ SolveTurnsLeft = 0 <=> ~solving
<1>1. SolverTypes /\ solving \in BOOLEAN
  BY DEF SolveTurnsInv, SolverInv, SolverTypes
<1>2. solving => Solving /\ rejections \in 0 .. MaxRejections - 1
  BY DEF SolveTurnsInv, SolverInv
<1>3. CASE solving /\ solve.solver = "fixed"
  <2>1. GridCount \in Int /\ Len(accepted) - 1 <= GridCount /\ Len(accepted) \in Nat
    BY <1>1, <1>2, <1>3, GridCountIs, SolveIs
  <2> QED
    BY <1>3, <2>1 DEF SolveTurnsLeft
<1>4. CASE solving /\ solve.solver = "adaptive"
  <2> DEFINE d == solve.tf - now
             p == d * MaxRejections
  <2>1. d \in Nat
    BY <1>1, <1>2, <1>4, SolveIs DEF Solving
  <2> HIDE DEF d
  <2>2. p \in Nat
    BY <2>1, RejectionsAre
  <2>3. SolveTurnsLeft = p + (MaxRejections - rejections)
    BY <1>4 DEF SolveTurnsLeft, d
  <2> HIDE DEF p
  <2> QED
    BY <1>2, <1>4, <2>2, <2>3, RejectionsAre
<1> QED
  BY <1>1, <1>3, <1>4, SolveIs DEF SolveTurnsLeft

\* What a turn of a solver's loop does to the attempts that are left.
TurnTaken ==
    \/ solving' = FALSE
    \/ /\ solving' = TRUE /\ UNCHANGED <<solve, rejections>>
       /\ solve.solver = "fixed" /\ Len(accepted') = Len(accepted) + 1
    \/ /\ solving' = TRUE /\ UNCHANGED solve
       /\ solve.solver = "adaptive" /\ now' > now /\ rejections' = 0
    \/ /\ solving' = TRUE /\ UNCHANGED <<solve, accepted>>
       /\ solve.solver = "adaptive" /\ rejections' = rejections + 1
       /\ ~(rejections' >= MaxRejections)

LEMMA FixedTurn ==
    ASSUME SolverInv, FixedStep
    PROVE  TurnTaken
<1>1. /\ solving = TRUE /\ solve.solver = "fixed" /\ UNCHANGED <<solve, rejections>>
      /\ Len(accepted') = Len(accepted) + 1 \/ Fail
  <2>1. SolverTypes /\ accepted \in Seq(SolverStates)
    BY DEF SolverInv, SolverTypes
  <2>2. solving = TRUE /\ solve.solver = "fixed" /\ UNCHANGED <<solve, rejections>>
    BY <2>1 DEF FixedStep, SolverTypes
  <2>3. Fail \/ \E s : accepted' = Append(accepted, s)
    BY DEF FixedStep, Accept
  <2>4. Len(accepted') = Len(accepted) + 1 \/ Fail
    BY <2>1, <2>3
  <2> QED
    BY <2>2, <2>4
<1>2. solving' \in BOOLEAN
  BY FixedStepKeeps DEF SolverInv, SolverTypes
<1> QED
  BY <1>1, <1>2 DEF TurnTaken, Fail

LEMMA AcceptTurn ==
    ASSUME SolverInv, AcceptStep
    PROVE  TurnTaken
<1> DEFINE end == now + Target
           to  == Earliest(CrossingTimes(end), end)
<1>1. /\ SolverTypes /\ solving /\ Solving
      /\ solve.solver = "adaptive" /\ now < solve.tf /\ Target > 0
      /\ UNCHANGED solve /\ rejections' = 0
      /\ solve.tf \in Int /\ now \in Int /\ HMin(solve) \in Int /\ HMax(solve) \in Int /\ h \in Int
  BY SolveIs DEF SolverInv, AcceptStep, Tries, SolverTypes, Solving, now
<1>2. Target \in Int /\ Target <= solve.tf - now
  BY <1>1 DEF Target, Remaining, Least
<1>3. end \in now + 1 .. solve.tf
  BY <1>1, <1>2
<1>4. to \in now + 1 .. end
  <2> HIDE DEF end
  <2> QED
    BY <1>1, <1>3, StepIsCut
<1>5. PICK jump \in BOOLEAN, stop \in BOOLEAN : Accept([reached EXCEPT !.t = to], jump, stop)
  BY DEF AcceptStep, CrossingTimes
<1>6. h' \in Int /\ solving' \in BOOLEAN
  BY AcceptStepKeeps DEF SolverInv, SolverTypes
<1>7. to \in now + 1 .. solve.tf /\ to \in Int
  BY <1>1, <1>3, <1>4
<1> HIDE DEF to, end
<1>8. now' = to
  BY <1>1, <1>5, <1>6, <1>7, AcceptIs
<1> QED
  BY <1>1, <1>6, <1>7, <1>8 DEF TurnTaken

LEMMA SolveTurnIs ==
    ASSUME SolverInv, SolveLoop
    PROVE  solving = TRUE /\ TurnTaken
<1>1. solving \in BOOLEAN
  BY DEF SolverInv, SolverTypes
<1>2. CASE FixedStep
  BY <1>1, <1>2, FixedTurn DEF FixedStep
<1>3. CASE AcceptStep
  BY <1>1, <1>3, AcceptTurn DEF AcceptStep, Tries
<1>4. CASE Reject
  <2>1. /\ solving = TRUE /\ solve.solver = "adaptive" /\ rejections' = rejections + 1
        /\ UNCHANGED <<solve, accepted>>
        /\ IF rejections' >= MaxRejections THEN Fail ELSE UNCHANGED <<solving, solved>>
    BY <1>1, <1>4 DEF Reject, Tries
  <2> QED
    BY <2>1 DEF TurnTaken, Fail
<1>5. CASE OutOfBudget \/ NoStep \/ MinStepFails
  BY <1>1, <1>5 DEF OutOfBudget, NoStep, MinStepFails, Tries, Fail, TurnTaken
<1>6. CASE FixedEnd \/ AdaptiveEnd
  BY <1>1, <1>6 DEF FixedEnd, AdaptiveEnd, TurnTaken
<1> QED
  BY <1>2, <1>3, <1>4, <1>5, <1>6 DEF SolveLoop

\* Time that has gone on takes all the attempts of its ticks with it.
LEMMA TimeCounts ==
    ASSUME NEW n, n \in Nat \ {0}, NEW a, a \in Int, NEW b, b \in Int, a < b,
           NEW i, i \in 0 .. n - 1
    PROVE  a * n + (n - 0) < b * n + (n - i)
<1>1. a * n \in Int /\ b * n \in Int /\ a * n + n <= b * n
  BY Spaced
<1> DEFINE p == a * n
           q == b * n
<1> HIDE DEF p, q
<1>2. p \in Int /\ q \in Int /\ p + n <= q
  BY <1>1 DEF p, q
<1>3. p + (n - 0) < q + (n - i)
  BY <1>2
<1> QED
  BY <1>3 DEF p, q

LEMMA SolveTurnsStep ==
    ASSUME SolveTurnsInv, SolveLoop
    PROVE  SolveTurnsInv' /\ SolveTurnsLeft' < SolveTurnsLeft
<1>1. SolverInv /\ SolverInv' /\ solving = TRUE /\ TurnTaken
  BY SolverStepKeeps, SolveTurnIs DEF SolveTurnsInv, SolverNext
<1>2. /\ SolverTypes /\ Solving /\ rejections \in 0 .. MaxRejections - 1
      /\ solve.tf \in Int /\ now \in Int /\ Len(accepted) \in Nat
  BY <1>1, SolveIs DEF SolveTurnsInv, SolverInv
<1>3. SolveTurnsLeft \in Nat \ {0}
  BY <1>1, SolveTurnsAre
<1>4. CASE solving' = FALSE
  BY <1>1, <1>3, <1>4 DEF SolveTurnsInv, SolveTurnsLeft
<1>5. CASE /\ solving' = TRUE /\ UNCHANGED <<solve, rejections>>
           /\ solve.solver = "fixed" /\ Len(accepted') = Len(accepted) + 1
  <2>1. SolveTurnsInv'
    BY <1>1, <1>2, <1>5 DEF SolveTurnsInv
  <2>2. GridCount' = GridCount /\ GridCount \in Int
    BY <1>2, <1>5, GridCountIs DEF GridCount
  <2>3. /\ SolveTurnsLeft = (GridCount + 2) - Len(accepted)
        /\ SolveTurnsLeft' = (GridCount + 2) - Len(accepted')
    BY <1>1, <1>5, <2>2 DEF SolveTurnsLeft
  <2> QED
    BY <1>2, <1>5, <2>1, <2>2, <2>3
<1>6. CASE /\ solving' = TRUE /\ UNCHANGED solve
           /\ solve.solver = "adaptive" /\ now' > now /\ rejections' = 0
  <2>1. SolveTurnsInv'
    BY <1>1, <1>6, RejectionsAre DEF SolveTurnsInv
  <2>2. now' \in Int
    <3>1. SolverTypes'
      BY <1>1 DEF SolverInv
    <3>2. accepted' \in Seq(SolverStates) /\ accepted' # <<>>
      BY <3>1 DEF SolverTypes
    <3>3. accepted'[Len(accepted')] \in SolverStates
      BY <3>2, EmptySeq, LenProperties, ElementOfSeq
    <3> QED
      BY <3>3 DEF now, reached, Last, SolverStates
  <2> DEFINE a == solve.tf - now'
             b == solve.tf - now
  <2>3. a \in Int /\ b \in Int /\ a < b
    BY <1>2, <1>6, <2>2
  <2>4. /\ SolveTurnsLeft = b * MaxRejections + (MaxRejections - rejections)
        /\ SolveTurnsLeft' = a * MaxRejections + (MaxRejections - 0)
    BY <1>1, <1>6 DEF SolveTurnsLeft
  <2> HIDE DEF a, b
  <2>5. a * MaxRejections + (MaxRejections - 0) < b * MaxRejections + (MaxRejections - rejections)
    BY <1>2, <2>3, RejectionsAre, TimeCounts
  <2> QED
    BY <2>1, <2>4, <2>5
<1>7. CASE /\ solving' = TRUE /\ UNCHANGED <<solve, accepted>>
           /\ solve.solver = "adaptive" /\ rejections' = rejections + 1
           /\ ~(rejections' >= MaxRejections)
  <2>1. SolveTurnsInv'
    BY <1>1, <1>2, <1>7, RejectionsAre DEF SolveTurnsInv
  <2> DEFINE p == (solve.tf - now) * MaxRejections
  <2>2. p \in Int /\ now' = now /\ p' = p
    BY <1>2, <1>7, RejectionsAre DEF now, reached
  <2>3. /\ SolveTurnsLeft = p + (MaxRejections - rejections)
        /\ SolveTurnsLeft' = p + (MaxRejections - rejections')
    BY <1>1, <1>7, <2>2 DEF SolveTurnsLeft
  <2> HIDE DEF p
  <2> QED
    BY <1>2, <1>7, <2>1, <2>2, <2>3, RejectionsAre
<1> QED
  BY <1>1, <1>4, <1>5, <1>6, <1>7 DEF TurnTaken

\* FixedStepSolver and AdaptiveStepSolver: a solve has only so many turns to take.
THEOREM SolversRunOut ==
    SolverSpec => /\ [](SolveTurnsLeft \in Nat /\ (SolveTurnsLeft = 0 <=> ~solving))
                  /\ [][SolveLoop => SolveTurnsLeft' < SolveTurnsLeft]_solverVars
<1>1. SolverInit => SolveTurnsInv
  <2> SUFFICES ASSUME SolverInit PROVE SolveTurnsInv
    OBVIOUS
  <2>1. SolverInv
    BY SolveStarts DEF SolverInit, SolverFresh
  <2> QED
    BY <2>1, RejectionsAre DEF SolverInit, SolveTurnsInv
<1>2. SolveTurnsInv /\ [SolverNext]_solverVars =>
        /\ SolveTurnsInv'
        /\ [SolveLoop => SolveTurnsLeft' < SolveTurnsLeft]_solverVars
  <2> SUFFICES ASSUME SolveTurnsInv, [SolverNext]_solverVars
               PROVE  /\ SolveTurnsInv'
                      /\ SolveLoop => SolveTurnsLeft' < SolveTurnsLeft
    OBVIOUS
  <2>1. CASE SolveLoop
    BY <2>1, SolveTurnsStep
  <2>2. CASE ~SolveLoop
    <3>1. SolverInv'
      BY SolverStepKeeps DEF SolveTurnsInv
    <3>2. rejections' = 0 \/ UNCHANGED <<solving, rejections>>
      BY <2>2 DEF SolverNext, Solve, solverVars, control
    <3> QED
      BY <2>2, <3>1, <3>2, RejectionsAre DEF SolveTurnsInv
  <2> QED
    BY <2>1, <2>2
<1>3. SolveTurnsInv => SolveTurnsLeft \in Nat /\ (SolveTurnsLeft = 0 <=> ~solving)
  BY SolveTurnsAre
<1> QED
  BY <1>1, <1>2, <1>3, PTL DEF SolverSpec
=============================================================================
