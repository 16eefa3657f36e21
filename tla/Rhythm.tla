------------------------------- MODULE Rhythm -------------------------------
(***************************************************************************)
(* The clock-driven blocks of the toolbox: Periodic                        *)
(* (src/inc/damp/toolbox/timing.hpp) and BLINK (iec61131.hpp), stepped by  *)
(* one scan loop whose scan time dt varies, up to the largest value of the *)
(* unsigned time type: a plain addition wraps at TimeMax.                     *)
(***************************************************************************)
EXTENDS Integers

CONSTANTS
    TimeMax,             \* numeric_limits<T>::max() of the time type
    ScanTimes,              \* times between two scans
    Period,           \* of Periodic
    TimeOn, TimeOff   \* of BLINK

ASSUME RhythmAssumption ==
    /\ TimeMax \in Nat
    /\ ScanTimes \subseteq 0 .. TimeMax
    /\ Period \in 1 .. TimeMax
    /\ TimeOn \in 1 .. TimeMax /\ TimeOff \in 1 .. TimeMax

VARIABLES
    phase, fired,  \* Periodic: phase_, and what its last call returned
    elapsed, q,    \* BLINK: elapsed_, Q
    credit,        \* history: the time Periodic has run less a period per fire
    steady,        \* history: Periodic has seen no stall since its reset
    time,          \* history: the time it has run, modulo Period
    lit,           \* history: BLINK has seen no stall since it was enabled
    cycle          \* history: the time it is enabled, modulo its cycle

periodic == <<phase, fired, credit, steady, time>>
blinker == <<elapsed, q, lit, cycle>>
rhythm == <<periodic, blinker>>

\* The time t on a clock of n.
Around(t, n) == IF t >= n THEN t - n ELSE t

\* The sum of two times in the time type.
Summed(a, b) == Around(a + b, TimeMax + 1)

Lesser(a, b) == IF a <= b THEN a ELSE b

\* Mutant of Phased: the phase wraps.
PhasedWraps(dt) == Summed(phase, dt)

\* The phase of Periodic after dt, saturated.
Phased(dt) == IF phase > 0 /\ dt > TimeMax - phase THEN TimeMax ELSE Summed(phase, dt)

Fires(dt) == Phased(dt) >= Period

\* The phase a call leaves: the remainder, at most one period of it.
Carried(dt) ==
    IF Fires(dt) THEN Lesser(Phased(dt) - Period, Period) ELSE Phased(dt)

RhythmInit ==
    /\ phase = 0 /\ fired = FALSE
    /\ elapsed = 0 /\ q = FALSE
    /\ credit = 0 /\ steady = TRUE /\ time = 0
    /\ lit = TRUE /\ cycle = 0

(***************************************************************************)
(* Periodic.  Of a stall no more than two periods count as time it has run *)
(* (the fire of that call and the backlog it carries), and no more than    *)
(* the time type holds.                                                    *)
(***************************************************************************)
Run(dt) ==
    /\ phase' = Carried(dt)
    /\ fired' = Fires(dt)
    /\ credit' = Lesser(credit + dt, Lesser(2 * Period, TimeMax))
                   - (IF fired' THEN Period ELSE 0)
    /\ steady' = (steady /\ dt <= Period /\ phase + dt <= TimeMax)
    /\ time' = IF steady' THEN Around(time + dt, Period) ELSE 0
    /\ UNCHANGED blinker

ResetPeriodic ==
    /\ phase' = 0
    /\ fired' = FALSE /\ credit' = 0 /\ steady' = TRUE /\ time' = 0
    /\ UNCHANGED blinker

-----------------------------------------------------------------------------
(* BLINK.                                                                  *)

Now(dt) == Summed(elapsed, dt)
PhaseTime == IF q THEN TimeOn ELSE TimeOff
NextPhase == IF q THEN TimeOff ELSE TimeOn

Cycle == TimeOn + TimeOff

\* A scan no longer than a phase, and no wrap of elapsed_.
InStep(dt) == dt <= TimeOn /\ dt <= TimeOff /\ elapsed + dt <= TimeMax

Metred(dt) ==
    /\ lit' = (lit /\ InStep(dt))
    /\ cycle' = IF lit' THEN Around(cycle + dt, Cycle) ELSE 0
    /\ UNCHANGED periodic

BlinkHold(dt) ==
    /\ Now(dt) < PhaseTime
    /\ elapsed' = Now(dt)
    /\ q' = q
    /\ Metred(dt)

\* Mutant of BlinkToggle: the overshoot past a phase is dropped.
BlinkToggleDrops(dt) ==
    /\ Now(dt) >= PhaseTime
    /\ elapsed' = 0
    /\ q' = ~q
    /\ Metred(dt)

BlinkToggle(dt) ==
    /\ Now(dt) >= PhaseTime
    /\ elapsed' = Lesser(Now(dt) - PhaseTime, NextPhase)
    /\ q' = ~q
    /\ Metred(dt)

\* A call with enable false, or reset().
BlinkOff ==
    /\ elapsed' = 0 /\ q' = FALSE
    /\ lit' = TRUE /\ cycle' = 0
    /\ UNCHANGED periodic

RhythmNext ==
    \/ \E dt \in ScanTimes : Run(dt) \/ BlinkHold(dt) \/ BlinkToggle(dt)
    \/ ResetPeriodic \/ BlinkOff

RhythmSpec == RhythmInit /\ [][RhythmNext]_rhythm

-----------------------------------------------------------------------------
(***************************************************************************)
(* Properties                                                              *)
(***************************************************************************)

\* Types; "the stored phase stays bounded by one period" (Periodic), and BLINK's
\* by the phase it is in.
RhythmType ==
    /\ phase \in 0 .. Period /\ fired \in BOOLEAN
    /\ q \in BOOLEAN /\ elapsed \in 0 .. PhaseTime
    /\ credit \in Int
    /\ steady \in BOOLEAN /\ time \in 0 .. Period - 1
    /\ lit \in BOOLEAN /\ cycle \in 0 .. Cycle - 1

\* Periodic "fires once per elapsed period": never before the time for it has
\* passed, however many scans stalled ("a stall does not replay a burst of
\* fires"), and whenever a period of it is there; and while nothing stalls,
\* "the average rate has no drift".
FiresOncePerPeriod ==
    /\ credit >= 0
    /\ ~fired => credit < Period
    /\ steady => phase = time

\* "The overshoot past each phase boundary carries into the next phase, so the
\* average period is time_on + time_off even when dt does not divide them"
\* (BLINK): while no scan is longer than a phase, the output is where the time
\* enabled, modulo the cycle, puts it.
BlinkKeepsTime ==
    lit => elapsed + (IF q THEN TimeOff ELSE 0) = cycle
=============================================================================
