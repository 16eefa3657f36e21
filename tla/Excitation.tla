----------------------------- MODULE Excitation -----------------------------
(***************************************************************************)
(* The excitation generators of src/inc/damp/estimation/excitation/: PRBS, *)
(* Step, StepTrain, Ramp, Impulse, SteppedSine, Chirp and MultiSine.  A    *)
(* behaviour is the life of one generator, of any kind, clocked by step(). *)
(*                                                                         *)
(* Times are integer ticks, phases integer fractions of a Turn; a sine is  *)
(* represented by its phase, since only the phase has state.  A sample is  *)
(* <<value>>, and the silence of a finished generator <<>>.                *)
(***************************************************************************)
EXTENDS Integers, Sequences, FiniteSetsExt, Iteration

CONSTANTS
    Ts,                                     \* sample period of step()
    Orders, Seeds, Clock,                   \* PRBS: LFSR orders, seeds, chip period
    MinHold, MaxHold, RateTols, Confirm,    \* Step; a RateTol of 0: timed
    Outputs,                                \* what the plant may answer
    Hold, Cycles,                           \* StepTrain
    Targets, Rate, HoldAtEnd,               \* Ramp
    Width,                                  \* Impulse
    Turn, Freqs, CyclesPerFreq, Phase,      \* SteppedSine, in Turns per tick / Turn
    FStart, FEnd, Duration,                 \* Chirp
    Tones,                                  \* MultiSine: a sequence of [f, phase]
    MaxSamples                              \* where the history stops counting samples

ASSUME ExcitationAssumption ==
    /\ {Ts, Clock, MinHold, MaxHold, Hold, Cycles, Rate, Width, Turn, Duration} \subseteq Nat \ {0}
    /\ {Confirm, HoldAtEnd, MaxSamples} \subseteq Nat
    /\ Ts <= Clock /\ MinHold <= MaxHold
    /\ RateTols \subseteq Nat /\ Outputs \subseteq Int /\ Targets \subseteq Int
    /\ Orders \subseteq 2 .. 16 /\ Seeds \subseteq SUBSET Nat
    /\ \A s \in Seeds, o \in Orders : s \cap 0 .. o - 1 # {}
    /\ CyclesPerFreq \in Nat \ {0} /\ Phase \in Int
    /\ Freqs \in Seq(Nat \ {0}) /\ Freqs # <<>>
    /\ Tones \in Seq([f : Nat, phase : Int]) /\ Tones # <<>>
    /\ {FStart, FEnd} \subseteq Nat
    /\ \A f \in {FStart, FEnd} \cup {Freqs[i] : i \in DOMAIN Freqs}
                                \cup {Tones[i].f : i \in DOMAIN Tones} : 2 * f * Ts < Turn

VARIABLES
    gen,     \* the generator: a record of its kind and fields
    out,     \* what the last step() returned
    samples, \* history: samples emitted since the last reset
    heard    \* history: Step's observations [y, at] since the last reset

excitationVars == <<gen, out, samples, heard>>

-----------------------------------------------------------------------------
(* PRBS: a register is the set of its bits that are 1.                     *)

\* prbs_feedback_mask()
Taps == [o \in 2 .. 16 |->
    CASE o = 2 -> {0, 1}      [] o = 3 -> {1, 2}         [] o = 4 -> {2, 3}
      [] o = 5 -> {2, 4}      [] o = 6 -> {4, 5}         [] o = 7 -> {5, 6}
      [] o = 8 -> {3, 4, 5, 7} [] o = 9 -> {4, 8}        [] o = 10 -> {6, 9}
      [] o = 11 -> {8, 10}    [] o = 12 -> {3, 9, 10, 11}
      [] o = 13 -> {7, 10, 11, 12} [] o = 14 -> {1, 11, 12, 13}
      [] o = 15 -> {13, 14}   [] o = 16 -> {3, 12, 14, 15}]

\* Mutant of Shifted: the taps are applied before the shift.
ShiftedAfterTaps(bits, order) ==
    LET tapped == IF 0 \in bits THEN SymDiff(bits, Taps[order]) ELSE bits
    IN {b - 1 : b \in tapped \ {0}}

Shifted(bits, order) ==
    LET down == {b - 1 : b \in bits \ {0}}
    IN IF 0 \in bits THEN SymDiff(down, Taps[order]) ELSE down

\* prbs_advance(): the register never stays empty.
Advanced(bits, order) ==
    LET next == Shifted(bits, order) \cap 0 .. order - 1
    IN IF next = {} THEN {0} ELSE next

Seeded(order, seed) == seed \cap 0 .. order - 1

Period(order) == 2 ^ order - 1

Prbs(order, seed) ==
    [kind |-> "prbs", order |-> order, seed |-> Seeded(order, seed),
     state |-> Seeded(order, seed), elapsed |-> 0, chips |-> 0]

Emit(value) ==
    /\ out' = <<value>>
    /\ samples' = IF samples < MaxSamples THEN samples + 1 ELSE samples

\* Ts <= Clock: the loop over elapsed chips runs at most once.
PrbsStep ==
    LET time == gen.elapsed + Ts
    IN /\ gen.kind = "prbs" /\ gen.chips < Period(gen.order)
       /\ Emit(IF 0 \in gen.state THEN 1 ELSE -1)
       /\ gen' = IF time >= Clock
                 THEN [gen EXCEPT !.elapsed = time - Clock, !.chips = @ + 1,
                                  !.state = Advanced(@, gen.order)]
                 ELSE [gen EXCEPT !.elapsed = time]
       /\ UNCHANGED heard

-----------------------------------------------------------------------------
(* Step, with the detection of a settled plant.                            *)

SingleStep(tol) ==
    [kind |-> "step", tol |-> tol, k |-> 0, settle_k |-> 0, prev |-> <<>>,
     finished |-> FALSE, settled |-> FALSE]

\* update_done_from_time()
Timed(g) ==
    LET time == g.k * Ts IN
    CASE g.finished -> g
      [] ~g.finished /\ g.tol > 0 ->
            [g EXCEPT !.finished = time >= MaxHold]
      [] OTHER ->
            [g EXCEPT !.finished = time >= MinHold, !.settled = time >= MinHold]

StepStep ==
    /\ gen.kind = "step" /\ ~gen.finished
    /\ Emit(1)
    /\ gen' = Timed([gen EXCEPT !.k = @ + 1])
    /\ UNCHANGED heard

Distance(a, b) == IF a > b THEN a - b ELSE b - a

\* Mutant of Settling: a loud sample does not start the count again.
SettlingKeeps(g, quiet) ==
    LET count == IF quiet THEN g.settle_k + 1 ELSE g.settle_k
        done  == quiet /\ count * Ts >= Confirm
    IN Timed([g EXCEPT !.settle_k = count, !.finished = done, !.settled = done])

Settling(g, quiet) ==
    LET count == IF quiet THEN g.settle_k + 1 ELSE 0
        done  == quiet /\ count * Ts >= Confirm
    IN Timed([g EXCEPT !.settle_k = count, !.finished = done, !.settled = done])

\* observe(y), at most once after each step(); a step that is timed or over only keeps
\* the sample.
Observe(y) ==
    LET g == [gen EXCEPT !.prev = <<y>>] IN
    /\ gen.kind = "step"
    /\ samples > 0 /\ \A i \in DOMAIN heard : heard[i].at < samples
    /\ IF gen.tol = 0 \/ gen.finished
       THEN gen' = g /\ UNCHANGED heard
       ELSE /\ heard' = Append(heard, [y |-> y, at |-> samples])
            /\ gen' = IF gen.prev = <<>> THEN g
                      ELSE IF gen.k * Ts < MinHold THEN [g EXCEPT !.settle_k = 0]
                      ELSE Settling(g, Distance(y, gen.prev[1]) <= gen.tol * Ts)
    /\ UNCHANGED <<out, samples>>

-----------------------------------------------------------------------------
(* The generators that are a function of k, the samples emitted.           *)

Counting(kind) == [kind |-> kind, k |-> 0]

Time == gen.k * Ts

TrainStep ==
    /\ gen.kind = "train" /\ Time < 2 * Cycles * Hold
    /\ Emit(IF (Time \div Hold) % 2 = 0 THEN 1 ELSE -1)
    /\ gen' = [gen EXCEPT !.k = @ + 1]
    /\ UNCHANGED heard

Slewing(target) == [kind |-> "ramp", target |-> target, k |-> 0]

Magnitude(g) == Distance(g.target, 0)

\* The value of the ramp at time t; at the end it stays at its target.
RampAt(g, t) ==
    IF t * Rate >= Magnitude(g) THEN g.target
    ELSE IF g.target < 0 THEN -Rate * t ELSE Rate * t

RampStep ==
    /\ gen.kind = "ramp" /\ Time * Rate < Magnitude(gen) + HoldAtEnd * Rate
    /\ Emit(RampAt(gen, Time))
    /\ gen' = [gen EXCEPT !.k = @ + 1]
    /\ UNCHANGED heard

ImpulseStep ==
    /\ gen.kind = "impulse" /\ gen.k < Width
    /\ Emit(1)
    /\ gen' = [gen EXCEPT !.k = @ + 1]
    /\ UNCHANGED heard

\* The phase of the linear sweep, in turns times 2 * Duration.
ChirpStep ==
    /\ gen.kind = "chirp" /\ Time < Duration
    /\ Emit(2 * Duration * FStart * Time + (FEnd - FStart) * Time * Time)
    /\ gen' = [gen EXCEPT !.k = @ + 1]
    /\ UNCHANGED heard

-----------------------------------------------------------------------------
(* SteppedSine and MultiSine.                                              *)

Sine == [kind |-> "sine", index |-> 1, k |-> 0, finished |-> FALSE]

\* Mutants of NextTone: the sample count runs on into the next frequency; the last
\* frequency is followed by the first.
NextToneKeepsCount(g) ==
    IF g.index < Len(Freqs) THEN [g EXCEPT !.index = @ + 1]
    ELSE [g EXCEPT !.finished = TRUE]

NextToneWraps(g) ==
    [g EXCEPT !.index = 1 + (@ % Len(Freqs)), !.k = 0]

NextTone(g) ==
    IF g.index < Len(Freqs) THEN [g EXCEPT !.index = @ + 1, !.k = 0]
    ELSE [g EXCEPT !.finished = TRUE]

SineStep ==
    /\ gen.kind = "sine" /\ ~gen.finished
    /\ Emit((Freqs[gen.index] * Time + Phase) % Turn)
    /\ LET g == [gen EXCEPT !.k = @ + 1]
       IN gen' = IF Freqs[g.index] * g.k * Ts >= CyclesPerFreq * Turn
                 THEN NextTone(g) ELSE g
    /\ UNCHANGED heard

\* wrap_pi(), to -Turn / 2 .. Turn / 2 - 1
Wrapped(phase) == ((phase + Turn \div 2) % Turn) - Turn \div 2

MultiSine ==
    [kind |-> "multi", phases |-> [i \in DOMAIN Tones |-> Wrapped(Tones[i].phase)]]

\* The sum of the tones, as the sequence of their phases.
MultiStep ==
    /\ gen.kind = "multi"
    /\ Emit(gen.phases)
    /\ gen' = [gen EXCEPT !.phases =
                  [i \in DOMAIN Tones |-> Wrapped(@[i] + Wrapped(Tones[i].f * Ts))]]
    /\ UNCHANGED heard

-----------------------------------------------------------------------------
Generators ==
    {Prbs(o, s) : o \in Orders, s \in Seeds}
    \cup {SingleStep(tol) : tol \in RateTols}
    \cup {Counting(k) : k \in {"train", "impulse", "chirp"}}
    \cup {Slewing(target) : target \in Targets}
    \cup {Sine, MultiSine}

ExcitationInit ==
    /\ gen \in Generators
    /\ out = <<>> /\ samples = 0 /\ heard = <<>>

\* done()
Done ==
    CASE gen.kind = "prbs"    -> gen.chips >= Period(gen.order)
      [] gen.kind = "train"   -> Time >= 2 * Cycles * Hold
      [] gen.kind = "ramp"    -> Time * Rate >= Magnitude(gen) + HoldAtEnd * Rate
      [] gen.kind = "impulse" -> gen.k >= Width
      [] gen.kind = "chirp"   -> Time >= Duration
      [] gen.kind = "multi"   -> FALSE
      [] OTHER                -> gen.finished

\* step() of a finished generator: silence, but a ramp holds its target.
StepDone ==
    /\ Done
    /\ out' = IF gen.kind = "ramp" THEN <<RampAt(gen, Time)>> ELSE <<>>
    /\ UNCHANGED <<gen, samples, heard>>

Step ==
    \/ PrbsStep \/ StepStep \/ TrainStep \/ RampStep \/ ImpulseStep
    \/ ChirpStep \/ SineStep \/ MultiStep \/ StepDone

\* reset(): every kind goes back to the state it was constructed in.
Fresh(g) ==
    CASE g.kind = "prbs" -> Prbs(g.order, g.seed)
      [] g.kind = "step" -> SingleStep(g.tol)
      [] g.kind = "ramp" -> Slewing(g.target)
      [] g.kind = "sine" -> Sine
      [] g.kind = "multi" -> MultiSine
      [] OTHER -> Counting(g.kind)

GeneratorReset ==
    /\ gen' = Fresh(gen)
    /\ out' = <<>> /\ samples' = 0 /\ heard' = <<>>

ExcitationNext == Step \/ (\E y \in Outputs : Observe(y)) \/ GeneratorReset

\* The control loop keeps its clock.
ExcitationSpec == ExcitationInit /\ [][ExcitationNext]_excitationVars /\ WF_excitationVars(Step)

-----------------------------------------------------------------------------
(***************************************************************************)
(* Properties                                                              *)
(***************************************************************************)

\* "The sequence period is 2^order - 1 chips": the register of every order is back
\* at its seed when the generator is done, and never before.
FullPeriod ==
    gen.kind = "prbs" =>
        (gen.state = gen.seed <=> gen.chips \in {0, Period(gen.order)})

\* The samples of tone i: the first count that completes its cycles.
Dwell(f) == (CyclesPerFreq * Turn + f * Ts - 1) \div (f * Ts)

Dwells == [i \in Nat |-> IF i \in DOMAIN Freqs THEN Dwell(Freqs[i]) ELSE 0]

\* However the samples fall on the chips, the tones and the turns, the generator is
\* where the time since its reset says: no chip, tone or phase is late or early.
ScheduleKept ==
    samples < MaxSamples =>
    /\ gen.kind = "prbs" => gen.chips = (samples * Ts) \div Clock
    /\ gen.kind = "sine" =>
         samples = SumTo(Dwells)[gen.index - 1] + gen.k
    /\ gen.kind = "multi" =>
         \A i \in DOMAIN Tones :
             (gen.phases[i] - Tones[i].phase - samples * Ts * Tones[i].f) % Turn = 0

\* Is the rate between observations i - 1 and i small?
Quiet(i) == Distance(heard[i].y, heard[i - 1].y) <= gen.tol * Ts

\* A step that watches its plant reports it settled exactly when the plant has been
\* quiet for the confirmation time, all of it after the minimum hold and before the
\* time-out; and it never waits longer than the maximum hold.
SettleIsReal ==
    gen.kind = "step" /\ gen.tol > 0 /\ samples < MaxSamples =>
        /\ gen.settled <=>
             \E first \in 2 .. Len(heard) :
                 /\ \A i \in first .. Len(heard) : Quiet(i) /\ heard[i].at * Ts >= MinHold
                 /\ (Len(heard) - first + 1) * Ts >= Confirm
        /\ gen.finished => gen.settled \/ gen.k * Ts >= MaxHold
        /\ (gen.k - 1) * Ts < MaxHold

\* Every generator but the open-ended MultiSine comes to its end, unless it is reset
\* again and again.
EveryRunEnds ==
    <>[][~GeneratorReset]_excitationVars => <>[](gen.kind = "multi" \/ Done)
=============================================================================
