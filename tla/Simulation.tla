------------------------------ MODULE Simulation ------------------------------
(***************************************************************************)
(* The simulation drivers of src/inc/damp/simulation/: simulate_two_rate() *)
(* (multirate.hpp), whose inner law here is a SwitchedController that the  *)
(* experiment's script switches between the ticks, and the event-driven    *)
(* simulate_piecewise_lti() (hybrid.hpp).  A behaviour is one run; a turn  *)
(* of a driver's loop is one action.  The plant's solver, the event        *)
(* schedule and the event callback are the user's: they may answer         *)
(* anything, fail, stand still or name a mode that does not exist.         *)
(*                                                                         *)
(* Times are integers.  A state is the time it was integrated to and the   *)
(* number of events that have replaced it; a reference is the tick that    *)
(* computed it, a command the tick and the reference it was computed from. *)
(***************************************************************************)
EXTENDS Composition, Integers, Sequences, SequencesExt

CONSTANTS
    Spans,              \* what tf may be; t0 is 0, and a span may be empty
    TsBase, Divs,       \* MultiRateConfig and the divisors of the two laws
    Strides, MaxTicks,  \* log_stride, and max_base_ticks (0: unlimited)
    NModes, MaxEvents,  \* PiecewiseLTI, and what max_events may be
    HFine               \* what h_fine may be; 0 logs the events only

ASSUME SimulationAssumption ==
    /\ Spans \subseteq Int /\ MaxTicks \cup MaxEvents \cup HFine \cup Strides \cup Divs \subseteq Nat
    /\ {TsBase, NModes} \subseteq Nat \ {0}

VARIABLES
    run,       \* the arguments of the run: a record of its driver and settings
    running,   \* the driver's loop has not ended
    success, log, k, t, x, u, r, m
    \* k counts base ticks or events; m is the plant's mode

sim == <<run, running, success, log, k, t, x, u, r, m>>
vars == <<sim, switched>>

TwoRateRuns ==
    [driver : {"two_rate"}, tf : Spans, outer : Divs, inner : Divs,
     stride : Strides, limit : MaxTicks]

PiecewiseRuns ==
    [driver : {"piecewise"}, tf : Spans, h : HFine, limit : MaxEvents, mode0 : 0 .. NModes]

\* The checks on entry: a refused run has an empty log.
Refused(c) ==
    \/ c.tf <= 0
    \/ c.driver = "two_rate" /\ (c.outer = 0 \/ c.inner = 0)
    \/ c.driver = "piecewise" /\ c.mode0 >= NModes

None == [tick |-> -1, from |-> -1]

Sample(at, state, command, reference, plantMode) ==
    [t |-> at, x |-> state, u |-> command, r |-> reference, mode |-> plantMode,
     y |-> <<state, command, plantMode>>]

Start(at) == [at |-> at, event |-> 0]

Init ==
    /\ SwitchedInit
    /\ run \in TwoRateRuns \cup PiecewiseRuns
    /\ running = ~Refused(run) /\ success = ~Refused(run)
    /\ k = 0 /\ t = 0 /\ x = Start(0) /\ u = None /\ r = -1
    /\ m = IF run.driver = "piecewise" THEN run.mode0 ELSE 0
    /\ log = IF run.driver = "piecewise" /\ running
             THEN <<Sample(0, x, u, r, m)>> ELSE <<>>

\* Mutant of Stop: the loop is left, and nothing said.
StopQuietly == running' = FALSE /\ UNCHANGED success

Stop == running' = FALSE /\ success' = FALSE

-----------------------------------------------------------------------------
\* step_count() and grid_time(): the last step ends at the end of the span.
StepCount(from, to, h) == (to - from + h - 1) \div h
GridTime(from, to, h, i) == IF i >= StepCount(from, to, h) THEN to ELSE from + i * h

FiresAt(tick, divisor) == divisor # 0 /\ tick % divisor = 0

Stride == IF run.stride = 0 THEN 1 ELSE run.stride

\* A solver may choose its fine steps and stop short, at the last good state.
Segments(from, to) ==
    UNION {{seg \in [1 .. n -> from + 1 .. to] : \A i, j \in 1 .. n : i < j => seg[i] < seg[j]} :
              n \in 0 .. to - from}

\* Every Stride-th of them is logged, and the last.
Kept(seg) ==
    [i \in 1 .. StepCount(0, Len(seg), Stride) |-> seg[GridTime(0, Len(seg), Stride, i)]]

\* Mutant of TickLimit: the run is held up at the limit instead of ended.
TickLimitHolds ==
    /\ running /\ run.driver = "two_rate"
    /\ k < StepCount(0, run.tf, TsBase)
    /\ run.limit # 0 /\ k >= run.limit
    /\ success' = FALSE
    /\ UNCHANGED <<run, running, log, k, t, x, u, r, m, switched>>

TickLimit ==
    /\ running /\ run.driver = "two_rate"
    /\ k < StepCount(0, run.tf, TsBase)
    /\ run.limit # 0 /\ k >= run.limit
    /\ Stop
    /\ UNCHANGED <<run, log, k, t, x, u, r, m, switched>>

\* Mutant of InnerReference: the inner law is fired first.
InnerReferenceBefore == r

\* Slow before fast: the inner law is given the reference of its own tick.
InnerReference == r'

\* The laws that are due, then the plant's segment under the held command.  The first
\* sample of the log is taken after the laws have fired.
BaseTick ==
    /\ running /\ run.driver = "two_rate"
    /\ k < StepCount(0, run.tf, TsBase)
    /\ ~(run.limit # 0 /\ k >= run.limit)
    /\ r' = IF FiresAt(k, run.outer) THEN k ELSE r
    /\ IF FiresAt(k, run.inner)
       THEN /\ u' = [tick |-> k, from |-> InnerReference]
            /\ Control
       ELSE UNCHANGED <<u, switched>>
    /\ LET from == GridTime(0, run.tf, TsBase, k)
           to   == GridTime(0, run.tf, TsBase, k + 1)
           first == IF log = <<>> THEN <<Sample(from, x, u', r', m)>> ELSE <<>>
       IN \E seg \in Segments(from, to) :
            /\ log' = log \o first
                   \o [j \in DOMAIN Kept(seg) |->
                         Sample(Kept(seg)[j], [x EXCEPT !.at = @ + (Kept(seg)[j] - from)], u', r', m)]
            /\ x' = IF seg = <<>> THEN x ELSE [x EXCEPT !.at = @ + (Last(seg) - from)]
            /\ IF seg # <<>> /\ Last(seg) = to
               THEN k' = k + 1 /\ UNCHANGED <<running, success>>
               ELSE Stop /\ UNCHANGED k
    /\ UNCHANGED <<run, t, m>>

TwoRateEnd ==
    /\ running /\ run.driver = "two_rate"
    /\ k >= StepCount(0, run.tf, TsBase)
    /\ running' = FALSE
    /\ UNCHANGED <<run, success, log, k, t, x, u, r, m, switched>>

-----------------------------------------------------------------------------
EventLimit ==
    /\ running /\ run.driver = "piecewise"
    /\ k >= run.limit
    /\ Stop
    /\ UNCHANGED <<run, log, k, t, x, u, r, m, switched>>

\* The next event, held at tf, if the schedule advances.
NextEvent(next) == IF next > run.tf THEN run.tf ELSE next

StandStill ==
    /\ running /\ run.driver = "piecewise"
    /\ k < run.limit
    /\ \E next \in 0 .. t : ~(NextEvent(next) > t)
    /\ Stop
    /\ UNCHANGED <<run, log, k, t, x, u, r, m, switched>>

\* The samples inside a segment, every h_fine from its start.
Fine(to) ==
    [i \in 1 .. (IF run.h = 0 THEN 0 ELSE StepCount(t, to, run.h) - 1) |->
        LET at == GridTime(t, to, run.h, i)
        IN Sample(at, [x EXCEPT !.at = @ + (at - t)], u, r, m)]

\* The sample at the event is logged again with what the event left.
Relogged(samples, sample) == [samples EXCEPT ![Len(samples)] = sample]

\* A segment, the sample at its end and, before tf, the event there: the callback's
\* mode, input and state replace the old ones.
Segment ==
    /\ running /\ run.driver = "piecewise"
    /\ k < run.limit
    /\ \E next \in t + 1 .. run.tf + 1, newMode \in 0 .. NModes :
         LET to    == NextEvent(next)
             end   == [x EXCEPT !.at = @ + (to - t)]
             upTo  == log \o Fine(to) \o <<Sample(to, end, u, r, m)>>
             event == [at |-> end.at, event |-> k + 1]
             newU  == [tick |-> to, from |-> -1]
         IN /\ t' = to
            /\ IF to >= run.tf
               THEN /\ running' = FALSE
                    /\ log' = upTo /\ x' = end
                    /\ UNCHANGED <<success, k, u, m>>
               ELSE IF newMode >= NModes
               THEN /\ Stop
                    /\ log' = upTo /\ x' = end
                    /\ UNCHANGED <<k, u, m>>
               ELSE /\ m' = newMode /\ u' = newU /\ x' = event /\ k' = k + 1
                    /\ log' = Relogged(upTo, Sample(to, event, newU, r, newMode))
                    /\ UNCHANGED <<running, success>>
    /\ UNCHANGED <<run, r, switched>>

-----------------------------------------------------------------------------
\* The script of the experiment, between two ticks of a two-rate run.
Script ==
    /\ running /\ run.driver = "two_rate"
    /\ (\E new \in SwitchMode : SetMode(new)) \/ Inject \/ SwitchedReset
    /\ UNCHANGED sim

Loop == TickLimit \/ BaseTick \/ TwoRateEnd \/ EventLimit \/ StandStill \/ Segment

Next == Loop \/ Script

\* The driver's loop runs on its own thread of control until it ends.
Spec == Init /\ [][Next]_vars /\ WF_vars(Loop)

-----------------------------------------------------------------------------
(***************************************************************************)
(* Properties                                                              *)
(***************************************************************************)

\* "success: false when the run stopped before tf": a run that has ended did not fail
\* if and only if its log reaches tf, whichever of its ways to stop early it took; and
\* base_tick_count and event_count count what was completed.
ShortMeansFailed ==
    ~running =>
        /\ success <=> log # <<>> /\ Last(log).t = run.tf
        /\ success /\ run.driver = "two_rate" => k = StepCount(0, run.tf, TsBase)
        /\ run.driver = "piecewise" /\ log # <<>> =>
             k = Cardinality({u0.tick : u0 \in {log[i].u : i \in DOMAIN log}} \ {-1})

\* The base tick whose segment ends at or after a time.
TickOf(at) == IF at = 0 THEN 0 ELSE (at - 1) \div TsBase

LatestFiring(tick, divisor) == (tick \div divisor) * divisor

\* A log tells one story: its times start at t0 and strictly increase; every sample's
\* state was integrated to the sample's time, and its output was measured from that
\* state and command.  In a two-rate run the command and the reference are those of the
\* latest firing of their laws, however the divisors, the fine steps and the stride
\* fall, and the command was computed from the reference of its own tick.  In a
\* piecewise run the sample at an event already shows what the event left.
LogIsConsistent ==
    \A i \in DOMAIN log :
        LET s == log[i] IN
        /\ IF i = 1 THEN s.t = 0 ELSE s.t > log[i - 1].t
        /\ s.x.at = s.t /\ s.y = <<s.x, s.u, s.mode>>
        /\ run.driver = "two_rate" =>
             /\ s.u.tick = LatestFiring(TickOf(s.t), run.inner)
             /\ s.r = LatestFiring(TickOf(s.t), run.outer)
             /\ s.u.from = LatestFiring(s.u.tick, run.outer)
        /\ run.driver = "piecewise" /\ i > 1 =>
             IF s.u = log[i - 1].u THEN s.mode = log[i - 1].mode /\ s.x.event = log[i - 1].x.event
             ELSE s.u.tick = s.t /\ s.x.event = log[i - 1].x.event + 1

\* Every run comes to its end.
RunEnds == <>~running
=============================================================================
