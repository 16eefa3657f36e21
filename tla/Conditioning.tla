----------------------------- MODULE Conditioning -----------------------------
(***************************************************************************)
(* The front end of an analog input: SlewLimiter, Hysteresis, RangeMonitor *)
(* and cross_check_analog of src/inc/damp/toolbox/conditioning.hpp, and    *)
(* RedundantAnalogPair of src/inc/damp/toolbox/io.hpp, which composes two  *)
(* monitored channels with the cross-check.  Readings are integers.        *)
(***************************************************************************)
EXTENDS Integers

CONSTANTS
    RateUp, RateDown,   \* SlewLimiter
    TripLow, TripHigh,  \* Hysteresis
    Valid, Fault,       \* SignalRange: the records [lower, upper] of the two bands
    Margins,            \* what the hysteresis of a RangeMonitor may be
    CalGain, CalOffset, \* AffineCal of a channel
    Tol, PairSpan       \* the cross-check's tolerance and, for opposite slopes, span

ASSUME ConditioningAssumption ==
    /\ {RateUp, RateDown, Tol} \subseteq Nat /\ Margins \subseteq Nat
    /\ {TripLow, TripHigh, CalGain, CalOffset, PairSpan} \subseteq Int /\ TripLow <= TripHigh
    /\ {Valid, Fault} \subseteq [lower : Int, upper : Int]
    /\ Fault.lower <= Valid.lower /\ Valid.lower <= Valid.upper /\ Valid.upper <= Fault.upper

Distance(a, b) == IF a < b THEN b - a ELSE a - b

-----------------------------------------------------------------------------
Slew == [kind |-> "slew", y |-> 0, init |-> FALSE]

\* The first sample seeds the output; an interval that is not positive holds it.
SlewTick(b, target, dt) ==
    LET delta == target - b.y
        y == CASE ~b.init -> target
               [] b.init /\ dt <= 0 -> b.y
               [] b.init /\ dt > 0 /\ delta > RateUp * dt -> b.y + RateUp * dt
               [] b.init /\ dt > 0 /\ delta < -RateDown * dt -> b.y - RateDown * dt
               [] OTHER -> target
    IN {[block |-> [b EXCEPT !.y = y, !.init = TRUE], out |-> y]}

Schmitt == [kind |-> "schmitt", state |-> FALSE]

SchmittTick(b, x) ==
    LET state == IF b.state THEN ~(x < TripLow) ELSE x > TripHigh
    IN {[block |-> [b EXCEPT !.state = state], out |-> state]}

-----------------------------------------------------------------------------
Faults == {"FaultLow", "FaultHigh"}
Usable == {"Valid", "UnderRange", "OverRange"}
SignalStatus == Faults \cup Usable

\* classify_range()
Classified(x, valid, fault) ==
    CASE x < fault.lower -> "FaultLow"
      [] ~(x < fault.lower) /\ x > fault.upper -> "FaultHigh"
      [] x \in fault.lower .. fault.upper /\ x < valid.lower -> "UnderRange"
      [] x \in fault.lower .. fault.upper /\ ~(x < valid.lower) /\ x > valid.upper -> "OverRange"
      [] OTHER -> "Valid"

\* Mutant of Monitored: entering a band costs the margin, leaving it does not.
MonitoredInward(status, margin, x) ==
    Classified(x,
        [lower |-> Valid.lower + (IF status = "Valid" THEN margin ELSE 0),
         upper |-> Valid.upper - (IF status = "Valid" THEN margin ELSE 0)], Fault)

\* RangeMonitor::operator(): the band the reading is in is widened by the margin.
Monitored(status, margin, x) ==
    LET Out(S) == IF status \in S THEN margin ELSE 0
    IN Classified(x,
        [lower |-> Valid.lower - Out({"Valid"}) + Out({"UnderRange"}),
         upper |-> Valid.upper + Out({"Valid"}) - Out({"OverRange"})],
        [lower |-> Fault.lower - Out({"UnderRange"}) + Out({"FaultLow"}),
         upper |-> Fault.upper + Out({"OverRange"}) - Out({"FaultHigh"})])

Monitor(margin) == [kind |-> "monitor", margin |-> margin, status |-> "Valid"]

MonitorTick(b, x) ==
    LET status == Monitored(b.status, b.margin, x)
    IN {[block |-> [b EXCEPT !.status = status], out |-> status]}

-----------------------------------------------------------------------------
Calibrated(raw) == CalGain * raw + CalOffset

\* Mutant of CrossChecked: any two readings are averaged.
CrossCheckedAverages(a, sa, b, sb, opposite) ==
    LET other == IF opposite THEN PairSpan - b ELSE b
    IN IF sa \in Usable /\ sb \in Usable THEN [status |-> "Agree", twice |-> a + other]
       ELSE IF sa \in Usable THEN [status |-> "ChannelAOnly", twice |-> 2 * a]
       ELSE IF sb \in Usable THEN [status |-> "ChannelBOnly", twice |-> 2 * b]
       ELSE [status |-> "BothUnusable"]

\* cross_check_analog().  A result with a value carries twice the value; other is
\* channel B's estimate of the quantity channel A reads.
CrossChecked(a, sa, b, sb, opposite) ==
    LET other == IF opposite THEN PairSpan - b ELSE b IN
    CASE sa \notin Usable /\ sb \notin Usable -> [status |-> "BothUnusable"]
      [] sa \in Usable /\ sb \notin Usable -> [status |-> "ChannelAOnly", twice |-> 2 * a]
      [] sa \notin Usable /\ sb \in Usable -> [status |-> "ChannelBOnly", twice |-> 2 * b]
      [] sa \in Usable /\ sb \in Usable /\ Distance(a, other) <= Tol ->
            [status |-> "Agree", twice |-> a + other]
      [] OTHER -> [status |-> "Disagree"]

Pair(margin, opposite) ==
    [kind |-> "pair", margin |-> margin, opposite |-> opposite, a |-> "Valid", b |-> "Valid"]

\* update(raw_a, raw_b): the range check is of the raw reading, the vote of the
\* calibrated one.
PairTick(p, rawA, rawB) ==
    LET sa == Monitored(p.a, p.margin, rawA)
        sb == Monitored(p.b, p.margin, rawB)
    IN {[block |-> [p EXCEPT !.a = sa, !.b = sb],
         out |-> CrossChecked(Calibrated(rawA), sa, Calibrated(rawB), sb, p.opposite)]}
=============================================================================
