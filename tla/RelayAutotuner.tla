--------------------------- MODULE RelayAutotuner ---------------------------
(***************************************************************************)
(* The Astrom-Hagglund relay experiment of                                 *)
(* src/inc/damp/estimation/relay_autotune.hpp: class RelayAutotuner, one   *)
(* step(y) per control tick.  The plant is arbitrary: every tick may read  *)
(* any error of Errors, so every limit cycle, every noisy crossing and     *)
(* every plant that never oscillates is a behaviour.                       *)
(*                                                                         *)
(* Units.  A sample is its error y - setpoint (the code adds the setpoint  *)
(* only to subtract it again); time is counted in sample periods Ts; a     *)
(* command is its deviation from u_bias (config.valid() keeps both relay   *)
(* levels inside u_lim, so saturate() leaves them alone).                  *)
(***************************************************************************)
EXTENDS Integers, Sequences, Iteration

CONSTANTS
    Errors,         \* the errors y - setpoint a sample may have
    Hysteresis,     \* config.hysteresis
    DPos, DNeg,     \* config.d_pos(), config.d_neg()
    WarmupCycles,   \* config.warmup_cycles (half-periods)
    MeasureCycles,  \* config.measure_cycles (half-periods)
    TolNum, TolDen, \* config.period_tolerance = TolNum / TolDen
    MaxDuration,    \* config.max_duration, in sample periods
    Huge,           \* numeric_limits<T>::max()
    MaxResets       \* bound on the resets of one behaviour

\* What design::relay_autotune() demands of a configuration (config.valid()),
\* and what "the largest number" means.
ASSUME ConfigAssumption ==
    /\ Errors \subseteq Int
    /\ Hysteresis \in Nat
    /\ DPos \in Nat \ {0} /\ DNeg \in Nat \ {0}
    /\ WarmupCycles \in Nat
    /\ MeasureCycles \in Nat /\ MeasureCycles >= 2
    /\ TolNum \in Nat \ {0} /\ TolDen \in Nat \ {0}
    /\ MaxDuration \in Nat \ {0}
    /\ Huge \in Nat /\ \A e \in Errors : -Huge < e /\ e < Huge
    /\ Huge > MaxDuration + 1
    /\ MaxResets \in Nat

VARIABLES
    valid_design,  \* the design the tuner was built from succeeded
    status,        \* RelayAutotuneStatus
    elapsed,       \* elapsed_
    since,         \* time_since_last_crossing_
    relay_sign,    \* relay_sign_
    warmup_count,  \* warmup_count_
    win,           \* the measuring window: counts, periods, peaks and averages
    result,        \* Ku_, Tu_, Ks_
    halves,        \* history: the half-periods the window has counted
    resets         \* number of resets so far

vars == <<valid_design, status, elapsed, since, relay_sign, warmup_count,
          win, result, halves, resets>>

Statuses == {"Idle", "Warmup", "Measuring", "Done", "Failed"}

(***************************************************************************)
(* The measuring window.  Cycle peaks are those of the half-period in      *)
(* progress, peaks those of the half-periods already completed.            *)
(***************************************************************************)
EmptyWindow(hi, lo) ==
    [count |-> 0, sum |-> 0, min |-> Huge, max |-> 0, prev |-> 0,
     peakPos |-> -Huge, peakNeg |-> Huge, cycPos |-> hi, cycNeg |-> lo,
     sumU |-> 0, sumY |-> 0, n |-> 0]

\* Tu_ doubles the mean half-period; kept as <<2 * sum, count>>.  Ku_ is a
\* decreasing function of the radicand a^2 - eps^2 alone (d is fixed): Ku
\* holds 4(a^2 - eps^2).  Ks_ = y_bar / u_bar is kept as <<sumY, sumU>>.
Unset == [Tu |-> <<0, 1>>, Ku |-> 0, Ks |-> <<0, 1>>]

Maximum(a, b) == IF a >= b THEN a ELSE b
Minimum(a, b) == IF a <= b THEN a ELSE b

\* step() line "if (y > cycle_peak_pos_)" and its mirror.
Peaked(w, y) ==
    [w EXCEPT !.cycPos = Maximum(@, y), !.cycNeg = Minimum(@, y)]

\* relay_half_amplitude()
Command(sign) == IF sign = 1 THEN DPos ELSE -DNeg

\* Mutant of DesiredSign: no band.
DesiredSignNoBand(sign, e) ==
    IF e > 0 THEN -1 ELSE IF e < 0 THEN 1 ELSE sign

\* The hysteresis relay: flip only beyond Hysteresis on the other side.
DesiredSign(sign, e) ==
    IF e > Hysteresis THEN -1 ELSE IF e < -Hysteresis THEN 1 ELSE sign

(***************************************************************************)
(* on_half_period_complete() and finalize(): what a completed half-period  *)
(* does to the window and to the result.                                   *)
(***************************************************************************)
Counted(w, half, y) ==
    LET full   == w.prev + half
        paired == (w.count + 1) % 2 = 0
    IN [w EXCEPT !.peakPos = Maximum(@, w.cycPos),
                 !.peakNeg = Minimum(@, w.cycNeg),
                 !.sum     = @ + half,
                 !.count   = @ + 1,
                 !.min     = IF paired THEN Minimum(@, full) ELSE @,
                 !.max     = IF paired THEN Maximum(@, full) ELSE @,
                 !.prev    = half,
                 !.cycPos  = y,
                 !.cycNeg  = y]

\* Mutant of WindowFull: the parity test is dropped.
WindowFullAnyParity(w) == w.count >= MeasureCycles

WindowFull(w) == w.count >= MeasureCycles /\ w.count % 2 = 0

\* spread = (max - min) / (2 * mean_half) <= period_tolerance
Settled(w) == (w.max - w.min) * w.count * TolDen <= TolNum * 2 * w.sum

\* 4 * arg = 4 * (a - eps) * (a + eps)
Radicand(w) ==
    (w.peakPos - w.peakNeg - 2 * Hysteresis)
        * (w.peakPos - w.peakNeg + 2 * Hysteresis)

\* finalize(): Tu_ is written before the amplitude check can fail.
FinalStatus(w) == IF Radicand(w) <= 0 THEN "Failed" ELSE "Done"

FinalResult(w) ==
    IF Radicand(w) <= 0
    THEN [result EXCEPT !.Tu = <<2 * w.sum, w.count>>]
    ELSE [Tu |-> <<2 * w.sum, w.count>>,
          Ku |-> Radicand(w),
          Ks |-> IF w.n > 0 /\ w.sumU # 0 THEN <<w.sumY, w.sumU>> ELSE <<0, 1>>]

(***************************************************************************)
(* The end of every step(): the clocks, the safety timeout and, while      *)
(* still Measuring, one more sample in the averages.  The clocks are       *)
(* capped at MaxDuration + 1, beyond which nothing reads them.             *)
(***************************************************************************)
Tick(t) == Minimum(t + 1, MaxDuration + 1)

TimedOut == elapsed + 1 > MaxDuration

Averaged(w, y, sign) ==
    [w EXCEPT !.sumU = @ + Command(sign), !.sumY = @ + y, !.n = @ + 1]

\* Mutants of Finish: the sample is averaged if the tuner WAS measuring; the
\* average takes the relay of the previous tick.
FinishAveragesOldStatus(st, w, y) ==
    /\ elapsed' = Tick(elapsed)
    /\ status' = IF TimedOut /\ st # "Done" THEN "Failed" ELSE st
    /\ win' = IF status = "Measuring" THEN Averaged(w, y, relay_sign') ELSE w

FinishAveragesOldRelay(st, w, y) ==
    /\ elapsed' = Tick(elapsed)
    /\ status' = IF TimedOut /\ st # "Done" THEN "Failed" ELSE st
    /\ win' = IF status' = "Measuring" THEN Averaged(w, y, relay_sign) ELSE w

Finish(st, w, y) ==
    /\ elapsed' = Tick(elapsed)
    /\ status' = IF TimedOut /\ st # "Done" THEN "Failed" ELSE st
    /\ win' = IF status' = "Measuring" THEN Averaged(w, y, relay_sign') ELSE w

Init ==
    /\ valid_design \in BOOLEAN
    /\ status = IF valid_design THEN "Idle" ELSE "Failed"
    /\ elapsed = 0 /\ since = 0 /\ relay_sign = 1 /\ warmup_count = 0
    /\ win = EmptyWindow(-Huge, Huge)
    /\ result = Unset
    /\ halves = <<>>
    /\ resets = 0

Switches(y) == DesiredSign(relay_sign, y) # relay_sign

\* Mutant of Start: the clock waits for the first error beyond the hysteresis.
StartWaits(y) ==
    /\ status = "Idle"
    /\ relay_sign' = IF y >= 0 THEN -1 ELSE 1
    /\ IF y > Hysteresis \/ y < -Hysteresis
         THEN /\ since' = since + 1
              /\ Finish(IF WarmupCycles > 0 THEN "Warmup" ELSE "Measuring",
                        [win EXCEPT !.cycPos = y, !.cycNeg = y], y)
         ELSE UNCHANGED <<status, elapsed, since, win>>
    /\ UNCHANGED <<valid_design, warmup_count, result, halves, resets>>

\* The first sample: the relay starts against the error, so it cannot switch
\* within the same step.
Start(y) ==
    /\ status = "Idle"
    /\ relay_sign' = IF y >= 0 THEN -1 ELSE 1
    /\ since' = since + 1
    /\ Finish(IF WarmupCycles > 0 THEN "Warmup" ELSE "Measuring",
              [win EXCEPT !.cycPos = y, !.cycNeg = y], y)
    /\ UNCHANGED <<valid_design, warmup_count, result, halves, resets>>

\* A sample within a half-period.
Hold(y) ==
    /\ status \in {"Warmup", "Measuring"}
    /\ ~Switches(y)
    /\ UNCHANGED <<valid_design, relay_sign, warmup_count, result, halves, resets>>
    /\ since' = since + 1
    /\ Finish(status, Peaked(win, y), y)

\* The relay switches while the transient is being discarded.
WarmupSwitch(y) ==
    /\ status = "Warmup"
    /\ Switches(y)
    /\ relay_sign' = DesiredSign(relay_sign, y)
    /\ since' = 1
    /\ warmup_count' = warmup_count + 1
    /\ IF warmup_count' >= WarmupCycles
         THEN Finish("Measuring", EmptyWindow(y, y), y)
         ELSE Finish("Warmup", [win EXCEPT !.cycPos = y, !.cycNeg = y], y)
    /\ UNCHANGED <<valid_design, result, halves, resets>>

\* The relay switches and the window needs more half-periods.
MeasureSwitch(y) ==
    LET w == Counted(Peaked(win, y), since, y) IN
    /\ status = "Measuring"
    /\ Switches(y)
    /\ ~WindowFull(w)
    /\ relay_sign' = DesiredSign(relay_sign, y)
    /\ since' = 1
    /\ halves' = Append(halves, since)
    /\ Finish("Measuring", w, y)
    /\ UNCHANGED <<valid_design, warmup_count, result, resets>>

\* The window is full but its periods still disagree: measure again.
Remeasure(y) ==
    LET w == Counted(Peaked(win, y), since, y) IN
    /\ status = "Measuring"
    /\ Switches(y)
    /\ WindowFull(w) /\ ~Settled(w)
    /\ relay_sign' = DesiredSign(relay_sign, y)
    /\ since' = 1
    /\ halves' = <<>>
    /\ Finish("Measuring", EmptyWindow(y, y), y)
    /\ UNCHANGED <<valid_design, warmup_count, result, resets>>

\* The window is full and its periods agree: finalize().
Settle(y) ==
    LET w == Counted(Peaked(win, y), since, y) IN
    /\ status = "Measuring"
    /\ Switches(y)
    /\ WindowFull(w) /\ Settled(w)
    /\ relay_sign' = DesiredSign(relay_sign, y)
    /\ since' = 1
    /\ halves' = Append(halves, since)
    /\ result' = FinalResult(w)
    /\ Finish(FinalStatus(w), w, y)
    /\ UNCHANGED <<valid_design, warmup_count, resets>>

\* After Done the relay keeps the loop oscillating and measures nothing.
StepDone(y) ==
    /\ status = "Done"
    /\ relay_sign' = DesiredSign(relay_sign, y)
    /\ since' = Tick(since)
    /\ Finish("Done", Peaked(win, y), y)
    /\ UNCHANGED <<valid_design, warmup_count, result, halves, resets>>

\* A Failed tuner returns saturate(u_bias) and keeps its state.
StepFailed ==
    /\ status = "Failed"
    /\ UNCHANGED vars

\* One control tick.
Step ==
    \E y \in Errors :
        \/ Start(y) \/ Hold(y) \/ WarmupSwitch(y) \/ MeasureSwitch(y)
        \/ Remeasure(y) \/ Settle(y) \/ StepDone(y) \/ StepFailed

\* reset(), at any point of the experiment.
Reset ==
    /\ resets < MaxResets
    /\ status' = IF valid_design THEN "Idle" ELSE "Failed"
    /\ elapsed' = 0 /\ since' = 0 /\ relay_sign' = 1 /\ warmup_count' = 0
    /\ win' = EmptyWindow(-Huge, Huge)
    /\ result' = Unset
    /\ halves' = <<>>
    /\ resets' = resets + 1
    /\ UNCHANGED valid_design

Next == Step \/ Reset

Spec == Init /\ [][Next]_vars

\* The control loop calls step() every sample period.
FairSpec == Spec /\ WF_vars(Step)

-----------------------------------------------------------------------------
(***************************************************************************)
(* Properties                                                              *)
(***************************************************************************)

Windows ==
    [count : Nat, sum : Nat, min : Nat, max : Nat, prev : Nat,
     peakPos : Int, peakNeg : Int, cycPos : Int, cycNeg : Int,
     sumU : Int, sumY : Int, n : Nat]

Results == [Tu : Nat \X Nat, Ku : Int, Ks : Int \X Int]

\* Every variable keeps its type; the clocks never pass the timeout by more
\* than the tick that detects it.
TypeOK ==
    /\ valid_design \in BOOLEAN
    /\ status \in Statuses
    /\ elapsed \in 0 .. MaxDuration + 1
    /\ since \in 0 .. MaxDuration + 1
    /\ relay_sign \in {-1, 1}
    /\ warmup_count \in Nat
    /\ win \in Windows
    /\ result \in Results
    /\ halves \in Seq(Nat)
    /\ resets \in 0 .. MaxResets

\* The averages behind Ks cover exactly the span the periods are measured
\* over: while Measuring, every sample since the window opened is averaged
\* once and belongs to a counted half-period or to the one in progress; when
\* Done, exactly the counted half-periods (whole periods) are averaged.
\* step() lines 367-384, begin_measuring().
WindowAccounting ==
    /\ status = "Measuring" => win.n = win.sum + since
    /\ status = "Done" => win.n = win.sum /\ win.sum > 0

\* A tuner built from a good design fails by timing out and no other way: the
\* amplitude check of finalize() cannot refuse, because a full window has seen
\* the error beyond the hysteresis on both sides.
FailsOnlyByTimeout ==
    status = "Failed" /\ valid_design => elapsed > MaxDuration

\* "Ku / Tu are populated only once status == Done" (RelayAutotuneOutput), and
\* a Done tuner has a usable gain and period.
ResultOnlyWhenDone ==
    /\ status # "Done" => result = Unset
    /\ status = "Done" => result.Ku > 0 /\ result.Tu[1] > 0 /\ result.Tu[2] > 0

\* What the relay commanded over each of the half-periods h: it alternates, and
\* the half-period in progress, after them, has the given sign.
Commanded(h, sign) ==
    [i \in 1 .. Len(h) |->
        Command(IF (Len(h) - i) % 2 = 0 THEN -sign ELSE sign) * h[i]]

\* The mean command behind Ks is aligned with the window: while Measuring, the
\* sum of applied deviations is the relay level of every counted half-period
\* weighted by its length, plus the half-period in progress.
CommandAccounting ==
    status = "Measuring" =>
        win.sumU = SeqSum(Commanded(halves, relay_sign)) + Command(relay_sign) * since

FullPeriods == {halves[2 * k - 1] + halves[2 * k] : k \in 1 .. Len(halves) \div 2}

\* "Done: limit cycle settled": the window holds at least measure_cycles
\* half-periods in pairs, Tu is twice their mean, and no two full periods of it
\* differ by more than period_tolerance of the mean period.
DoneMeansSettled ==
    status = "Done" =>
        /\ Len(halves) >= MeasureCycles
        /\ Len(halves) % 2 = 0
        /\ result.Tu = <<2 * SeqSum(halves), Len(halves)>>
        /\ \A p, q \in FullPeriods :
             (p - q) * TolDen * Len(halves) <= TolNum * 2 * SeqSum(halves)

\* A finished experiment keeps its result: no later sample, switch or timeout
\* changes the status or the gains, only reset() does.
DoneIsLatched ==
    [][status = "Done" =>
         \/ status' = "Done" /\ result' = result
         \/ resets' = resets + 1]_vars

\* The experiment ends: under a control loop that keeps ticking and stops
\* resetting, the tuner finishes or gives up (max_duration, "Safety timeout").
ExperimentEnds == <>[](status \in {"Done", "Failed"})
=============================================================================
