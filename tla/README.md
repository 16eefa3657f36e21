# A TLA+ model of damp

damp is a header-only C++20 control library (`src/inc/damp`): controllers,
estimators, filters, encoder interfaces, logic blocks and the design tools that
compute their gains.  It has no threads and no I/O of its own.  Its objects are
small state machines that an application steps from one or more periodic tasks,
and what is hard to get right in them is sequence: which call came before, which
sample belongs to which window, what a reset, a refused request, a dropped frame
or a hand-over between two modes leaves behind.  That is what these modules
model.  Floating-point accuracy is not modelled: numbers are integers, chosen so
that every comparison the code makes can go either way.

Contents: [inventory](#inventory) · [modules](#modules) · [runs](#runs) ·
[proofs](#proofs) · [findings](#findings) · [not modelled](#not-modelled) ·
[plan](#plan)

To check a run: `tlc -config RelayAutotuner.cfg MCRelayAutotuner`.  To check a
proof: `tlapm RelayAutotunerProofs.tla`.

## Inventory

Paths are relative to `src/inc/damp`.

| component | state it keeps | operations | what is hard | what makes it correct |
|---|---|---|---|---|
| Relay autotuner, `estimation/relay_autotune.hpp` | status, two clocks, relay sign, the measuring window (counts, periods, peaks, averages), Ku/Tu/Ks | `step(y)`, `reset()` | order within one `step()`; a full window that does not settle; timeout against completion; a plant that never oscillates | averages and periods cover the same samples; results exactly in Done; the experiment ends |
| PID controller, `controllers/pid.hpp` | integrator, derivative filter, runtime mode, last command | `control(r, y)`, `track`, `back_calculate`, `enable`, `disable`, `reset` | operator calls between ticks of the loop; two saturations in series | bumpless hand-over; bounded windup, charged once |
| Encoder gate, `encoder/gate.hpp` | last accepted and candidate reading, their ages, candidate count, lock, fault | `check`, `update`, `reset` | lost frames, glitches that agree, staleness and relock | the fault is the age of the last reading; a resync is confirmed; an axis at rest is found again |
| Encoder tracker, `encoder/tracker.hpp` | measured, estimated position, speed, time since | `predict`, `update`, `reset`, `position` | fast loop and frame handler interleave | follows the axis; no glitch leaves a trace |
| Frequency response estimator, `estimation/frequency_response.hpp` | table of points, one sequential correlator, one correlator per bank bin, shared cross-spectral sums | `begin_bin`, `push`, `configure_bin`, `push_bank`, `set_sample_rate`, `reset` | aborted and refused measurements; two usage modes with shared state; block boundaries | a point averages exactly the samples asked for |
| Timers and logic blocks, `toolbox/timing.hpp`, `logic.hpp`, `iec61131.hpp` | elapsed times, outputs, previous inputs | one call per scan, `reset()` | jittering and stalling scans; overflow of an integer time; two independent families | outputs switch in real time; no drift, no burst; the families agree |
| Conditioning and I/O, `toolbox/conditioning.hpp`, `io.hpp`, `scaling.hpp` | hysteresis and fault states, slewed values, debounced levels | one call per scan, `reset()` | bounce; readings that hover on an edge; two redundant channels of which one breaks | one debounced level behind every event; no chatter; no value from a broken wire |
| Controller composition, `controllers/composition.hpp` | the active mode, three laws, the last command | `control`, `set_mode`, `inject`, `reset` | switches, injections and ticks in any order | the law that owns the plant starts fresh |
| Encoder counting, `encoder/quadrature.hpp`, `unwrap.hpp`, `sincos.hpp`, `axis_position.hpp` | count, previous lines, turns | `update`, `index`, `reset`, and the combination of count and phase | missed edges; dithering; rollover; comparators early or late | a position that depends on the axis, not on its path |
| Excitation generators, `estimation/excitation/*.hpp` | position in a sequence, clocks, an LFSR | `step`, `observe`, `reset` | samples that do not divide chips and tones; confirmation of a quiet plant against the maximum hold | the promised sequence, on schedule, to its end |
| Ring-buffer filters, `filters/moving_average.hpp`, `delay.hpp`, `median.hpp` | a ring, an index, a running sum | one call per sample, `reset()`, a new window | first turn of the ring; the re-sum; what a reset leaves in it | the window of the last n samples |
| Laws with a record of the applied input: LQI, LQGI (`controllers/state_feedback_core.hpp`) and MPC (`mpc.hpp`) over `law_detail.hpp` | integrators, the error held for the next time update, last command, applied input and feedforward, limits | `predict`, `update`, `control`, `back_calculate`, `set_limits`, `reset` | what was really applied is known only after the command; reports that are left out; takeovers | the true error integrated once per tick; bounded windup; moves within both boxes |
| Smith predictor, repetitive controller, moving-horizon estimator (`controllers/smith_predictor.hpp`, `repetitive.hpp`, `estimation/mhe.hpp`) | rings and windows of commands, errors and measurements | one call per tick, `reset()` | capacity of the ring; a sample leaves the window as another enters | history exactly tiled |
| Simulation drivers and solvers, `simulation/*.hpp` | logs, held inputs, an integrator's history, step size and budgets | one run, one solve | two rates in one loop; schedules that stand still; rejection, floors and budgets; crossings; jumps | ends, and says how; logs one story; steps with a smooth history |
| Other estimators and advanced controllers, frequency-selective filters | matrices and vectors | numerical | rounding, conditioning | numerical |
| Design, analysis, mathematics, matrices, motor transforms, kinematics | none | pure functions | rounding | numerical |

How they interact.  An application owns the objects and calls them; there is no
callback into it and no object knows of another, with these exceptions: the gate
drives a tracker it is given (`EncoderGate::update`), a cascade and a
`SwitchedController` drive the controllers they own, `Button` owns a debounce and
an on-delay timer, a redundant pair owns two monitored channels, both timer
families share the arithmetic of `timing.hpp`, LQI, LQGI and MPC share
`AppliedRecord`, and a simulation driver or solver calls the plant, the laws, the
event schedule and the callbacks it is given.  Concurrency is therefore the
interleaving of the calls of several tasks on one object or on two that are
coupled, each call atomic: a control loop and an operator on one PID, a fast
loop and a frame handler on one tracker, an identification task that feeds a
sequential measurement and a bank.  Failures are lost or corrupt frames, scans
that stall, plants that do not respond, and requests the code refuses.

The hazards this leads to are listed in `PROJECT.json`, each at its line with
the properties that catch it going wrong.

## Modules

Each component has a module; `MC…` modules give it a small instance, `…Proofs`
modules hold theorems, of one component or of several that are near each other.
Components that share no state are checked in one run where that makes it shorter:
`MCLaws`, `MCTimers`, `MCSensing` and `MCSimulation` hold several, and a variable
`bench` says which of them a behaviour exercises; the names of such components are
therefore distinct, `SolverInit` beside `Init`.
Mutants (definitions with a comment "Mutant of …") are plausible bugs: every
property is violated when one of them replaces the definition it varies.
Variables that a comment calls *history* are not state of the code; no action
reads them to decide what the code does.

| module | extends or instantiates | models |
|---|---|---|
| Iteration | | what a loop computes, as a recursive function; running sums |
| RelayAutotuner | extends Iteration | the relay experiment |
| Extents | | magnitudes, in which the bounds of the laws are stated |
| Pid | extends Extents | the fixed-rate PID |
| AppliedRecord, StateFeedback, PredictiveControl | the latter two extend the first, StateFeedback also Extents | LQI and LQGI; MPC |
| EncoderGate | instantiates ConfirmedDelivery | the validator of encoder readings |
| GatedTracker | extends EncoderGate | gate and tracker at two rates |
| FrequencyResponse | | the frequency response estimator |
| Timers, Rhythm | | contact timers; clock-driven blocks |
| Excitation | extends Iteration | the excitation generators |
| AxisCounting | | the position of an axis from its edges and its phase |
| Windows, Conditioning, SignalPath | the last extends the first two | ring buffers; front end; the life of any of these blocks |
| Composition, Simulation | the second extends the first | SwitchedController inside the two-rate driver; the event-driven driver |
| Solver | extends Iteration | the ODE solvers |

### RelayAutotuner, MCRelayAutotuner

One `step(y)` of the code is one step of the model.  The branches of `step()`
and of `on_half_period_complete()` are its actions: `Start` (first sample),
`Hold` (no switch), `WarmupSwitch`, `MeasureSwitch`, `Remeasure` (a full window
whose periods disagree is emptied), `Settle` (`finalize()`), `StepDone`,
`StepFailed`; each ends in `Finish`, the clocks, the timeout and the averages,
in the order of lines 372–384.  The plant is the set `Errors`: every tick may
read any of them.  A sample is its error, time is counted in sample periods, the
commands are deviations from the bias, and the three results are kept as exact
fractions or, for Ku, as the radicand of the formula, of which it is a
monotone function.  The clocks are capped one past `MaxDuration`, beyond which
no guard distinguishes them.

### Pid

`ControlAuto` and `ControlTracking` are `control(r, y)` in its two runtime
modes, `Track` is `track(u, y)`, and `BackCalculate`, `Enable`, `Disable`, `Reset`
are the calls of the same names, in any order: the loop calls
`back_calculate()` at most once per tick (`charged`), with the command after a
downstream clamp.  Products with a fractional gain round toward zero.  `resume`
remembers the Tracking tick an integrator was preloaded for, `tick` the last Auto
tick before its own wind-back.

### EncoderGate, MCEncoderGate and GatedTracker

`check()` has four outcomes, each an action: `CheckInvalid`, `CheckAccepted`,
`CheckJump`, `CheckResync`.  A call carries any position, speed, time and
validity.  `GatedTracker` extends the gate and composes it with the tracker, as
`EncoderGate::update()` does: the gate's actions are conjoined with the
tracker's, and the speed the gate is given is the tracker's own.  There the axis
moves at constant speed, a fast loop calls `predict()` every tick and frames
arrive every one to `MaxPeriod` ticks, good, glitched or lost.

`ConfirmedDelivery` says what a validator of readings promises without a candidate
track or a flag: a reading is delivered because it is near the last delivered one,
which is not too old, or because it is the last of `ResyncCount` readings that each
lie near the one before.  `EncoderGate` implements it under a refinement mapping
that takes `pending`, the readings withheld, from the history `seen`.

### StateFeedback, PredictiveControl, AppliedRecord

A tick is `Predict`, `Update` (for MPC part of `Control`), `Control` and `Write`,
the application's: it adds a feedforward and the actuator clamps, or another
controller's input goes out instead (`Driven`), and `back_calculate()` reports the
outcome; when that is just the command, the report may be left out.  `Manual` is a
tick without `control()`: another controller drives the plant and its input is
recorded.  `Reset` comes between any two calls.  One input, one integrator, integer
gains.  The plant's state, an observer's estimate of it and the answer of the
quadratic program (any `QPStatus`, any first move, feasible or not) are arbitrary, so
nothing depends on their numerics.  `xi`, `e`, `held` are the integrator, its held
error and `integral.y` or `x_`; `due` is the reference of a `control()` that no
`predict()` has followed.

No guard keeps the application from a call the code accepts.  Where the code then does
not integrate the true error, a history says so and `IntegralIsTrue` names the
exception: a tick without `control()` under a feedthrough (`due` is empty), and the
first `control()` of LQGI after a `reset()` that took the measurement it reads, or the
input that measurement was taken under (`blind`).  `astray` is how far such ticks have
put the integrator off since the last `reset()`; `IntegralBounded` allows for it and no
more, and `MaxAstray` bounds it for TLC.  All of these are in Findings.

After a takeover from an input
outside the u box, or a `set_limits()` that leaves the held input outside it, the
command goes to the box in one move, whatever the Δu box: `MovesAreBounded` states
that exception, as the header does.

### FrequencyResponse

A block of samples stands for its sums: which bin it belongs to, how many
samples it has and which was its last.  A point of the table is the blocks it was
computed from.  The actions are the public calls, split by what `push()` does
with a sample (`PushSettle`, `PushSample`, `PushBlock`, `PushLast`).  `Spec`
allows every order of calls; `OneModeSpec` never pushes into the bank during a
sequential measurement.

### Timers

Every contact timer of the toolbox steps in one `Scan(in, dt)`: `OnDelay`,
`OffDelay`, `Pulse`, `Debounced` (logic.hpp), their IEC twins `Ton`, `Tof`, `Tp`
(iec61131.hpp) and `ButtonUpdate` (io.hpp), all over `Advance`, the shared
`timer_advance`.  Time is an unsigned integer of the time type and a plain
addition wraps at `MaxT`; the code's overflow-safe forms are modelled as written
(for a signed type an overflow is undefined, and the same forms avoid it).  The
histories `seen` and `age` count real time without a width.

### Rhythm

`Periodic` and `BLINK`, also with a wrapping addition.  `credit` is the time
Periodic has run less a period per fire, `time` and `cycle` are the time run
modulo the period and modulo the blink's cycle while no scan stalled.

### Excitation

A behaviour is the life of one generator of any kind (PRBS of every order, Step,
StepTrain, Ramp, Impulse, Chirp, SteppedSine, MultiSine) as one record `gen`;
`Step` is one `step()`, for a watched Step followed by `observe(y)` of any output,
and `GeneratorReset` is `reset()`.  A sine is its phase, in parts of a turn; the LFSR is
bits, with the feedback masks of the code.  `ExcitationAssumption` is what the
`design::` functions accept: a sample no longer than a chip, seeds that do not shift
to zero, at least one cycle per frequency, and frequencies below Nyquist.  `samples`
counts to `MaxSamples` and stays there; the two schedules, `ScheduleKept` and
`SettleIsReal`, speak of the samples counted.

### AxisCounting

`Sample` moves the axis and lets every decoder (X1, X2, X4) see lines whose
comparators switch up to `Lags` early or late; `Index` and `Reset` are the calls;
`Read` is a consumer that extends the count over rollovers with `wrapped_delta()`
and combines it with the fine phase.  The range of the counter is `HalfRange`, 2^31
in the code.

### Windows, Conditioning, SignalPath

`Windows` has one record and one tick operator per ring buffer: MovingAverage
(each update of its sum may be off by `Ulp`), MedianFilter, Delay,
RepetitiveController, SmithPredictor and the window of MHE, whose solver may answer
with any status.  `Conditioning` has SlewLimiter, Hysteresis, RangeMonitor,
`cross_check_analog` and RedundantAnalogPair.  `SignalPath` is the life of one such
block: any sample, a reset or a new configuration at any time.  Its properties
compare the block with its definition on the whole history `heard` of its samples.

### Composition, Simulation

`SetMode`, `Control`, `Inject` and `SwitchedReset` are the calls of
SwitchedController; what a law remembers is the set of the calls it has answered.
In `Simulation` it is the inner law of `simulate_two_rate()`, and a script makes
those calls between base ticks.  One turn of a driver's loop is one action: a base
tick (which laws fire, in which order, which fine steps are kept in the log) or a
segment to the next event.  `simulate_multirate()` is the same loop with one law.

### Solver

One solver's life: `Solve` starts, each turn of the loop is one action
(`FixedStep`; `Reject` or `AcceptStep`; the ways to end), and one solve follows
another.  The integrator may fail or err at every step, a callback may replace the
state or stop the run.  `past` is the history BDF2 keeps from step to step and from
solve to solve, `used` what it last stepped with.  A zero-crossing function is its
sign at every tick; `Located` is the bisection, `Iterated` from the bracket of the step,
which also counts its calls.

## Runs

| run | module, config | states | question |
|---|---|---|---|
| relay | MCRelayAutotuner, RelayAutotuner.cfg | 350,632 | does an experiment on any plant average what it measures, fail only by its timeout, and end? |
| laws | MCLaws, Laws.cfg | 779,641 | under a clamp, with takeovers and resets at any time: bumpless hand-over, bounded windup, errors integrated once and truly, moves in their boxes? |
| encoder_gate | MCEncoderGate, EncoderGate.cfg | 167,329 | is a resync confirmed, is an axis at rest found again, and does the gate implement ConfirmedDelivery? |
| gated_tracker | GatedTracker, GatedTracker.cfg | 725,501 | is the tracker undisturbed by what the gate should keep away? |
| frf_sequential | FrequencyResponse, FrequencyResponse.cfg | 47,450 | does a sequential point average exactly the blocks asked for? |
| timers | MCTimers, Timers.cfg | 14,339 | do timers measure real time, Periodic and BLINK keep their rate, a bounce leave no trace, the families agree? |
| excitation | MCExcitation, Excitation.cfg | 303,319 | is every PRBS maximal, is every chip, tone and phase on schedule, does a settled step rest on a quiet plant, does every generator end? |
| sensing | MCSensing, Sensing.cfg | 1,409,800 | are positions the truth, and do windows, predictors and conditioners answer what their samples say? |
| simulation | MCSimulation, Simulation.cfg | 1,139,202 | do runs and solves end, own up to failures, log one story, step with a smooth history and stop at the first event? |
| frf_mixed | FrequencyResponse, FrequencyMixed.cfg | violation | does the sequential average hold when both usage modes are mixed? |
| feedback_reset | StateFeedback, FeedbackReset.cfg | violation | does LQGI integrate the true error of every `control()`, also after a `reset()`? |
| solver_retry | MCSolver, SolverRetry.cfg | violation | is a rejected step retried with a smaller one? |

Only `simulation` turns deadlock checking off: a driver's run ends.

**Bounds, and why they suffice.**  *relay*: one error beyond the hysteresis on
either side, of different sizes, and one inside it on either side reach every
branch of the relay; unequal relay levels make command sums depend on alignment; a
window of 3 half-periods, odd, forces the parity rule; 11 sample periods
just allow a warm-up, a window whose periods disagree, another that settles
after it, and the timeout at any earlier point; one reset at any point.
*laws*: of the PID, the command limits, the plant's clamp and the upper integrator
limit all bind, and the lower integrator limit is out of reach, so that below only
the wind-back bounds the integrator.  Of LQI and LQGI, the actuator clamps from
either side, both signs of the gain occur, with and without a feedthrough.  Of MPC,
the moves a solver may answer with exceed both Δu boxes, which are off centre, a
takeover starts outside either u box, and one set of limits is refused.  The three state
spaces are finite without a bound in the guards, but for takeovers of LQI and LQGI
under a feedthrough: they come until the integrator is more than `MaxAstray` = 2 off,
which takes three such ticks with the smallest input, and lets one with the largest
follow two of them.
*encoder_gate*: the second position is outside the window after one tick and
inside it after two; `StaleTime` lies one below `MaxTime`; three readings confirm a
resync, so a track can be broken in its middle.  *gated_tracker*: the two
glitches are further off than the window can open, which the assumption of the
module states, and 12 ticks (`MaxNow`) contain a stale period, the resync after
it and frames after that; the run ends there (`TimeUp`).  *frf*: two bins and one
index out of range, blocks of one and two samples, one and two of them, with and
without settling.  *timers*: the time type holds 0 to 7 (0 to 15 for Periodic and
BLINK), a scan of the largest value wraps any running sum, and presets are reached
exactly and overshot.  *excitation*: all fifteen orders of PRBS, one seed each
(another starts elsewhere on the same orbit), with
samples that do not divide the chips; two cycles of three tones below
Nyquist (24 parts to a turn), the hold of Step up to 12 ticks, and ramps both ways.  *sensing*: `HalfRange` 4 with a travel of
`Span` 24 sixteenths either way rolls the counter over, moves of up to 7 miss
edges, and lags stay within the 3/8 period the header allows; rings of 4 slots and
7 samples (`MaxHeard`) turn every ring, the shorter ones three times, and readings
lie on every edge of both bands with and without the margin, which is 0, 2 or, wider than
the bands leave room for, 6.  *simulation*: up to
four base ticks of three units, the last one shorter, divisors 0 (refused) to 3,
logs with and without fine steps, up to eleven events; solves over seven ticks with
floors above, below and equal to what is left, and budgets both of calls and of
rejections that run out; pairs of functions that cross together, apart, or rest on
zero.

**Type invariants.**  A run holds none: those of the proved modules are theorems
(`TypeCorrect`), and a run has properties that say more.

**Fairness.**  `FairSpec` of the relay and the specification of Excitation state
weak fairness of `Step`: the control loop calls `step()` every sample period, which
is what a sample period is.  The bound on resets (relay), or the hypothesis that
resets stop (`EveryRunEnds`), is needed: a loop that resets for ever need not end.
`FairSpec` of the gate states weak fairness of a valid
reading of the axis at rest, which the encoder interface delivers every frame, with a
speed of 0 as the caller's estimate for it;
`SteadyAxisLocks` assumes that from some time on nothing but such readings
arrives, and no shorter assumption would do, since glitches for ever unlock the
gate for ever.  The drivers and solvers state weak fairness of `Loop`: a `while`
loop takes its next turn; that the loop is left is what `LoopsEnd` says.  No other
module states liveness: their objects move only when called.

## Proofs

TLAPS proves the following for every value of the constants the assumptions of
the modules admit.  A property in brackets is one a run checks on a small instance.

| module | theorems |
|---|---|
| CommonLemmas | Inductive, IteratedUnfolds, IteratedAgree, SumUnfolds, SumsAgree, SeqSumType, SeqSumGrows |
| RelayAutotunerProofs | TypeCorrect, AveragesCoverPeriods (`WindowAccounting`), TimeoutIsTheOnlyFailure (`FailsOnlyByTimeout`), CommandIsAccounted (`CommandAccounting`), DoneIsSettled (`DoneMeansSettled`), ResultsOnlyWhenDone, DoneStaysDone, ExperimentsRunOut |
| EncoderProofs (gate and tracker) | GateTypeCorrect, FaultIsAge, TrackStaysShort, ResyncsAreConfirmed (`ResyncIsConfirmed`), GateKeepsPromise (`KeepsPromise`), GlitchesLeaveNoTrace (`TrackerUndisturbed`), IntervalsAreReal, SteadyReadingsLock |
| LawsProofs (PID, LQI and LQGI, MPC) | TypeCorrect, HandoverIsBumpless (`Bumpless`), WindupIsChargedOnce (`ChargedOnce`), WindupStaysBounded (`WindupBounded`), FeedbackTypeCorrect, ErrorsAreTrue (`IntegralIsTrue`), IntegralStaysBounded (`IntegralBounded`), PredictiveTypeCorrect, MovesStayInBoxes (`MovesAreBounded`) |
| IdentificationProofs (frequency response, excitation) | TypeCorrect, BankPointsAreOneBlock, MeasurementsEnd, SequentialAverages (`SequentialAverage`), SchedulesAreKept (`ScheduleKept`), SettlingIsReal (`SettleIsReal`), GeneratorsRunOut |
| TimersProofs (Timers and Rhythm) | TypeCorrect, TimersAreReal (`DelaysAreReal`), TwinsAgree (`FamiliesAgree`), HeldIsDown (`HeldMeansDown`), DebounceIsFaithful (`DebounceFollows`), RhythmTypeCorrect, PeriodicKeepsItsRate (`FiresOncePerPeriod`), BlinkHasNoDrift (`BlinkKeepsTime`) |
| SensingProofs (counting, signal path) | TypeCorrect, CountsAreTruth (`CountsTruth`), PositionIsTruth (`AbsoluteIsTruth`), DistanceIsShortest (`ShortestWay`), FrontEndIsSound (`FrontEndSound`), MonitorsAreQuiet (`NoChatter`), PredictionIsExact (`PredictorsExact`), WindowsAreExact (`WindowsExact`) |
| SimulationProofs (SwitchedController, drivers, solvers) | OwnerStaysFresh (`OwnerIsFresh`), ShortRunsFail (`ShortMeansFailed`), LogsAreConsistent (`LogIsConsistent`), SolversAreHonest (`SolveIsHonest`), HistoriesAreSmooth (`HistoryIsSmooth`), CrossingsEndSteps (`CrossingEndsStep`), DriversRunOut, SolversRunOut |

Six of these state properties that no run repeats: `ResultOnlyWhenDone`,
`DoneIsLatched`, `StaleIsAge`, `IntervalIsReal`, `NotOverdue` and
`BankPointIsOneBlock`.

*Recursion.*  The library's induction rule takes an operator as a parameter, which no
installed prover can instantiate.  `CommonLemmas` proves the rule for a set instead:
every set of naturals has a least element (`LeastNatural`, from the library's theorem
that `<` is well founded), so a set that holds 0 and the successor of each of its
elements is `Nat` (`Inductive`).  From it follows that the function `Iteration` defines
by recursion exists and unfolds, turn by turn, for a turn that may depend on its number
(`IteratedUnfolds`), and what that means for running sums.  A loop over a history is
written with `Iterated` or `SumTo` wherever a theorem speaks of it.  The module also has
the arithmetic of quotients and remainders that the other proofs share.

*Relay.*  From `ConfigAssumption`, which is `config.valid()`.  The invariant adds
`Clocks` (the half-period in progress is no longer than the experiment, which has
not timed out), `IdleEmpty` (needed when `WarmupCycles = 0` opens the window on
the first sample) and `PeaksReach`: a switch can only happen beyond the
hysteresis, so two counted half-periods have peaks beyond it on both sides, the
radicand of a full window is positive and `finalize()` cannot refuse.  That is why
the timeout is the only failure.  A second invariant, `HistoryInv`, ties the window to
the history of half-periods: `WindowOf` says that count, sum, last half-period and the
extremes of the full periods are those of the sequence, which `SeqSumGrows` carries over
a switch; `CommandIsAccounted` and `DoneIsSettled` are what it says of the averages
and of a result.

*PID.*  From `GainsAssumption`.  `Preloaded` says what a Tracking tick leaves:
the derivative's input has not changed and the integrator is the command less the
terms the next tick will add.  Every call but those that clear `resume` preserves
it, and an Auto tick at the same inputs then adds up to the command.  `Uncharged` says
that between an Auto tick and its `back_calculate()`, whatever the operator calls in
between, command and integrator are those of the tick, wound back once for the
controller's own saturation; charging the rest then charges the whole difference once.

*PID, windup.*  `WindupStaysBounded` has a hypothesis, `Windable`: finitely many
references, measurements, commands and feedforwards, limits that contain 0, and
`0 < Ki/Kbc <= 1` (gains of the fixed-rate law), a wind-back that takes no more than the
windup it answers.  That is a tracking time of a sample or more: placement at a rate sees
to it (`pid_design.hpp:1094`), the other designs choose the integral time, and a Kbc set
by hand that is below Ki would overshoot.  The
integral alone is not inductive: a tick and the `back_calculate()` after it wind back for
one windup in two roundings, so `WindInv` also says what `back_calculate()` would make of
the integral for the command in force, until it is called.  `OwnWindBack` and
`BothWindBacks` bound the low side: a wind-back upward for a difference beyond `Reach` is
more than the largest increment, and one downward is at most its difference, which stops
where the command meets the limit; rounded shares of a sum and the sum of rounded shares
(`FractionIs`) let the two together be treated as one.  The high side is the low side
with every sign changed.  `DerivWithin` bounds the derivative term by what its filter
settles at (`FilterSettles`).

*Gate.*  From `GateAssumption`.  `TrackMirrors` is the heart: the gate keeps one
candidate, its age and a count, and these are the tail of the true history of
readings, whose last `candidates` follow each other over the real time between
them.  Dropped frames age both sides alike.  With it a resync is a chain of
`resync_count` readings, and the count stays below that, hence within its 16 bits.
The shape of the window is never used.  `GateKeepsPromise` is the refinement: each
action of the gate is the action of ConfirmedDelivery that the tail justifies.

*Gated tracker.*  The invariant is `TrackerType`, `Clocks` (no clock of the
gate saturates within the run), `LastIsTrue` (a locked gate compares with
a true position), `TrackIsKnown` (a candidate track ends in a true position, or is
made of the glitches since the last one, too few to confirm each other) and `TrackerUndisturbed` itself: the window is centred on the
truth only while the tracker is undisturbed, and the tracker is undisturbed only
while the window excludes glitches.

*Axis.*  From `AxisAssumption`.  Integers modulo the counter's range carry the
proof: `Tracks` (the decoder has seen the quarter the lines show), `Counted` (each
count is the number of edges of its mode modulo the range) and `Parity`, that a
missed sample costs X4 an even number of edges.  `PositionIsTruth` adds that the fine
phase decides between the two periods a late or early edge leaves possible.

*Conditioners.*  From `ConditioningAssumption`.  `VoteHolds` and `SlewHolds` say of a pair
and a slew limiter what their last call did, which is all they are asked.
`TriggerFollows`: a trigger is where the last reading outside its band put it, or has
heard none.  `MonitorFollows`: the status of a monitor is the one it last reported, and each
reading was classified from the status before it.  `NoChatter` is then a statement about
three readings: the one that left a status, the one before the return, and the return
(`LeavingCosts`).  It held as first written neither for margins wider than the valid
band nor for those wider than the gap to a fault: a reading may then leave a band on
one side, cross to the other and come back nearer than the margin, and the property says so
(`NarrowMargin`).

*Smith predictor.*  From `WindowsAssumption`.  `SmithFollows`: the d + 1 slots in
use hold the last d + 1 commands, 0 where there were fewer, the head points at the newest,
and the model is the one of the command d samples ago.  A turn of the ring keeps the first
(`RingTurns`, for any period: the slot overwritten is the one whose sample leaves), and
carrying the model over the slots from the head on is then carrying it over the
commands in flight, in their order (`PredictedIs`, by induction over the turns).

*Windows.*  From `WindowsAssumption`.  `DelayFollows`, `AverageFollows`, `RepetitiveFollows`
and `MedianFollows` say that the slots in use hold the last samples, in the places the ring
gives them (`RingGoesOn`).  The running sum of an average differs from the window's
(`StretchSlides`: the window gains a value and loses one) by at most one `Ulp` for each sample
since the ring turned, where the sum is made afresh.  The memory of a repetitive
controller holds the last values of its internal model, so the filter reads the model
wherever it fits the ring (`FilteredIs`); that it never reads what the tick writes is
`FilteredKeeps`.  A median's sorted copy exists by induction over its length
(`SortingExists`: the greatest changes places with the last); it ranks the recent samples
(`RanksExist`), and of a ranked set at least half lies on either side of the middle
(`CountedOff`).

*Moving horizon.*  `MheFollows`: a primed estimator's window holds, place by place, the
samples up to the last, the first one standing for all before it, and the prior the pairs
that left it.  `reset()` leaves the old samples behind, so it says nothing of an estimator
that is not primed; the first call fills every place.

*Frequency response.*  From `FrfAssumption`.  `Progress` accounts for every
sample pushed (settling, blocks done, block under way); the correlators are
`Honest`, they sum the samples they count.  In one usage mode at a time,
`Averaged` says that the sums of an active measurement are its blocks, in order.

*Excitation.*  From `ExcitationAssumption`.  `ExcitationInv` has one part per kind that
keeps a schedule.  `ChipsOnTime`: chips counted and time into the chip make up the time
since the reset.  `TonesOnTime`: the samples are the dwells of the tones done, as a
running sum, and those of the tone under way, which lacks cycles; that the first count
to complete them is `Dwell` is arithmetic.  `PhasesOnTime`: each phase is whole turns
away from where the time says, which wrapping keeps.  `Watching`: until a step is over,
`settle_k` is exactly the length of the run of quiet observations its history ends with
(`Trail`) and `prev` the last observation; a `step()` that does not observe changes
neither, so a plant is settled exactly when its observations rest.

*Timers.*  From `TimersAssumption`.  Each block has a predicate relating it to
the history of its contact (`OnFollows`, `OffFollows`, `PulseFollows`, `Counts`)
and a lemma that one call preserves it, for every block the predicate fits:
`Button` is proved by the lemmas of the two blocks it owns.  `AdvanceIsReal`, that
`timer_advance` is the smaller of the real sum and the preset whatever the width
of the time type, carries all of them.

*Rhythm* (the second half of TimersProofs).  From `RhythmAssumption`.  `PhaseIsCredit` identifies the phase
Periodic stores with the credit it owes; `WithinPhase` says that an unstalled
BLINK has not used up the phase it is in, without which the carried overshoot
could be cut.

*State feedback.*  From `FeedbackAssumption`; `reset()` comes between any two calls and
other controllers drive the plant with or without a feedthrough.  `ErrorIsHeld` says that
between `control()` and `predict()` the law holds the reference against the state, unless
that `control()` was blind; `RecordIsTrue`, that what `predict()` will take for the
applied input is the input in force, or none where a `reset()` forgot it, and after a
`control()` what it will take for command and feedforward are that input's parts; it
rests on `ReportIsTaken`, that no report outlives the `predict()` that takes it.
`FedIsTrue` relates a measurement to the input it was taken under, which is what
`control()` takes out.  `PredictTakesTheError` draws the conclusion for a tick with a
`control()`: the clamp is judged truly even if the error is blind; `PredictTakesNoError`,
for a tick without one.
`IntegralStaysBounded` adds `Integrable`:
finitely many states, references, inputs and feedthroughs, and a gain on xi that is not 0.
Its invariant says that the command in force was made of some state and of the integral
as it still is (`CommandMadeOf`).  So an integral beyond what clamp, state and feedforward
explain has put the command beyond the clamp, on the side its sign and the gain's give,
and an error of its own sign is held (`HoldsAbove`, `HoldsBelow`); an error of the other
sign brings it back.  That argument needs no true error, only a bound on the one taken: a
blind error exceeds `MaxError` by what it adds to `astray`, and so does a feedthrough
taken without a `control()` (`BoundGrows`).

*MPC.*  From `PredictiveAssumption`.  `InputIsRecorded`: unless a `reset()` has
intervened, the input in force and the feedforward in it are what the next `predict()`
takes and `control()` plans from.  A command is then within Δu of that input, clipped
to the u box last, which is the exception the property states.

*SwitchedController and drivers.*  From `SimulationAssumption`.
`SwitchedInv`: what the active law remembers are the calls since it took over, however the
script of a run switches, injects and resets.  `SimInv` has one part per driver.
`TwoRateInv`: times grow, each logged state is the integral of the logged inputs, and
each input was computed at the tick its divisor gives; `AtTick` says the same of the
state between two ticks.  `PiecewiseInv`: each sample follows from the one before
within the same segment or through one event, and the count of events is the number of
distinct commands in the log.  `ShortMeansFailed` is needed by both.

*Solvers.*  From `SolverAssumption`.  `SolverInv` is the three properties and `Solving`, what
holds between two turns of the loop: the last state accepted is where the next step
starts, and a history, if the integrator has one, ends there on the same smooth piece.
`Bracketed` is the invariant of the bisection: after n turns the bracket is narrower
by n or has shrunk to one tick, and its lower end is still on the side of the start; so
what `Located` returns is a crossing, and the earliest of all functions ends the step.

*Why things end.*  Fairness is out of the prover's reach, the argument behind each liveness
property is not.  Five theorems name a natural number that is 0 exactly when the thing is
over and that every turn makes smaller:

| theorem | the number | 0 when | behind |
|---|---|---|---|
| ExperimentsRunOut | `TicksLeft`: the ticks before the safety timeout, and one | the tuner is Done or Failed | `ExperimentEnds` |
| SteadyReadingsLock | `ReadingsToGo`: what the track lacks of `resync_count` | the gate just locked on the axis at rest | `SteadyAxisLocks` |
| GeneratorsRunOut | `RunLeft`: samples, ticks, ramp or tones ahead | the generator is done | `EveryRunEnds` |
| DriversRunOut | `TurnsLeft`: ticks or events, and the turn that leaves | the loop is left | `LoopsEnd` |
| SolversRunOut | `SolveTurnsLeft`: points of the grid, or ticks times the rejections allowed in a row | the loop is left | `LoopsEnd` |

So they are bounds, for every configuration, on how long each takes once its turns come:
an axis at rest is found after at most `resync_count` readings of it (one, if that is 0).
What is left to TLC is that the turns do come.  An adaptive solve is bounded without its
budget of calls: an accepted step gains at least one tick of time, and only
`MaxRejections` attempts in a row may fail (`SolverAssumption` has it positive, the code's
constant is 100); a step too small to move the time, which floating point
allows, is left to `max_nfev`.  The theorem on generators leaves out
MultiSine, which never ends, and says that observations give nothing back.

**Only model-checked.**  The fair halves of `ExperimentEnds`, `SteadyAxisLocks`,
`EveryRunEnds` and `LoopsEnd`.  `FullPeriod`, that the feedback masks are those of primitive polynomials, which
is a fact of fifteen polynomials that TLC computes.

## Findings

`push_bank()` and the sequential path share one set of cross-spectral sums, and
`push_bank()` clears it whenever a bin of the bank completes a block
(`frequency_response.hpp:315`).  `begin_bin()` promises to average a number of
successive blocks (`frequency_response.hpp:212`), and nothing in the header
confines the bank to the time between sequential measurements.  Run `frf_mixed`
configures a bank bin, begins a sequential bin, completes a bank block while it
is active and ends with a valid sequential point averaged from other blocks than
those asked for.  Used one mode at a time, the promise holds
(`SequentialAverages`), and the bank is right in any order
(`BankPointsAreOneBlock`).

`reset()` of an LQGI law clears the input that the last `predict()` took
(`state_feedback_core.hpp:382`) along with the integrators.  The measurement of the
next tick still carries that input's feedthrough, which `control()` then does not
take out (`:330`), although the header says it reads "the measurement less the
feedthrough D·u of the input it was taken under" (`:173`).  Run `feedback_reset` drives
the plant with a feedforward of 1, resets after the `predict()` of that tick, measures 1
under it and integrates -2 over a tick whose true error is -1: the feedthrough is
subtracted twice.

Two more sequences of calls in which LQI or LQGI does not integrate
"xi += Ts·(r − Ci·y) per tick" (`:170`); the model takes both, `IntegralIsTrue` states
them as exceptions, and no run repeats them.  A `reset()` between the `update()` and the
`control()` of LQGI clears the measurement (`integral.y`, `:391`), so that the error held
is the reference alone, whatever the plant put out.  And `predict()` after a tick without
a `control()`, because another controller drove the plant or a `reset()` came after
`control()` and before `back_calculate()`, still subtracts Ci·D·u of the input applied
(`:476`), although no error is held it could belong to: under a feedthrough a long
takeover can wind the integrator up by D·u a tick; whether conditional integration
holds it depends on a command made before the takeover.  In every other
sequence the integrator is exact (`IntegralIsTrue` in run `laws`, `ErrorsAreTrue` for all
values).

The adaptive solver promises a rejected step to be retried "with a smaller step"
(`solver.hpp:535`).  When no more than `min_step` is left of the span, the step is what is
left, and the next one is again what is left: the same `evolve()` is repeated until
the limit of consecutive rejections fails the solve, also with
`fail_on_min_step = false`.  Run `solver_retry` shows it.

Things the models show that no run repeats: `locate_crossing()`
(`solver.hpp:763`) spends its `evolve()` calls without looking at `max_nfev`, so that
"Cap on evolve() calls" holds only between turns of the loop (`AcceptStep` counts
them).  Two things the models show that are no disagreement but worth knowing: the
amplitude check of `finalize()` can never fail in a tuner built from a valid
configuration, so a failed experiment always timed out; and `reset()` of the PID
keeps `u_cmd`, so that a `back_calculate()` right after it charges the fresh
integrator for the old command.

## Not modelled

- Floating-point rounding, NaN and infinity.  The gate's rejection of readings
  that are not finite is part of an invalid frame.
- What is numerical: Kalman filters and the other recursive estimators, ADRC,
  sliding-mode, H-infinity and resonant laws, steady-state targets, frequency-selective
  filters, the quadratic program itself, the stages of an integrator and the matrix
  exponential, design, analysis, matrices, motor transforms.  Their state is a vector
  and their correctness is about its value.
- Of the modelled components: the PI, P, PD specialisations and `ContinuousPID`;
  the tracker's interpolation and bandwidth change; the least-squares fits over a
  finished table and a new sample rate under running phasors; `Timeout`,
  `Stopwatch` and the clockless logic blocks; the decoding and calibration of sin/cos;
  the logarithmic chirp; generators built from a failed design; dead zones, joystick
  shaping and mixers; delayed plants of LQI and MPC; `Cascade`, which keeps no state.
- The default-constructed relay tuner, whose clock does not run (`Ts = 0`).
- A gate whose `stale_time` is not below the limit its clocks saturate at: its
  fault can never show, and `GateAssumption` excludes it.

## Plan

Done: all the components above with their runs, and theorems for relay, PID, LQI, LQGI,
MPC, gate and tracker, frequency response, excitation, timers, counting, conditioners,
windows, predictors, SwitchedController, drivers and solvers.  What would add most next:

1. `ContinuousPid`, shown to implement `Pid` at a constant sample time.
2. The estimator's anchor (`SteadyStateTarget`) that OFLQG and offset-free MPC move
   every tick: an estimate in deviations must not jump with it.
3. `Timeout`, `Stopwatch` and the latches and counters of `iec61131.hpp`.
