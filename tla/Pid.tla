-------------------------------- MODULE Pid --------------------------------
(***************************************************************************)
(* The fixed-rate 2-DOF PID of src/inc/damp/controllers/pid.hpp:           *)
(* PIDController<T, PIDMode::PID> with the integral and output stage it    *)
(* shares with ContinuousPID (pid_step, pid_wind_back, pid_delta).         *)
(*                                                                         *)
(* The environment is the control loop and an operator: the loop calls     *)
(* control(r, y) with any reference and measurement, clamps what it got    *)
(* plus a feed-forward into the plant's limits and may then call           *)
(* back_calculate() once; the operator calls enable(), disable(), track()  *)
(* and reset() between any two calls of the loop.                          *)
(*                                                                         *)
(* Numbers are integers, and the two products with a fractional gain (the  *)
(* derivative pole d_a and the back-calculation ratio Ki/Kbc) round toward *)
(* zero, as any fixed arithmetic rounds somehow.                           *)
(***************************************************************************)
EXTENDS Integers, Extents

CONSTANTS
    Kp, Ki, Db,       \* gains; Ki and d_b are those of DiscretePIDGains
    DaNum, DaDen,     \* d_a = DaNum / DaDen
    KwNum, KwDen,     \* Ki / Kbc = KwNum / KwDen; 0 when Kbc = 0
    B, C,             \* setpoint weights b and c
    ULo, UHi,         \* u_lim
    ILo, IHi,         \* integral_lim
    PLo, PHi,         \* the clamp of the stage downstream of the controller
    Refs, Meas,       \* references and measurements
    Tracks, Forwards  \* commands to follow; feed-forward added downstream

\* d_a is in [0, 1); a Kbc against Ki's sign is refused at construction
\* (pid_kbc_winds_up), so the back-calculation ratio is not negative.
ASSUME GainsAssumption ==
    /\ Kp \in Int /\ Ki \in Int /\ Db \in Int /\ B \in Int /\ C \in Int
    /\ DaNum \in Nat /\ DaDen \in Nat \ {0} /\ DaNum < DaDen
    /\ KwNum \in Nat /\ KwDen \in Nat \ {0}
    /\ ULo \in Int /\ UHi \in Int /\ ULo <= UHi
    /\ ILo \in Int /\ IHi \in Int /\ ILo <= IHi
    /\ PLo \in Int /\ PHi \in Int /\ PLo <= PHi
    /\ Refs \subseteq Int /\ Meas \subseteq Int
    /\ Tracks \subseteq Int /\ Forwards \subseteq Int

VARIABLES
    integral,      \* integral term I
    prev_x,        \* previous c*r - y
    deriv,         \* filtered derivative term D
    first,         \* the next tick seeds prev_x
    runtime_mode,  \* PIDRuntimeMode
    u_track,       \* the command followed in Tracking
    u_cmd,         \* the last command control() returned
    charged,       \* the loop has called back_calculate() since control()
    resume,        \* history: the Tracking tick the integrator is loaded for
    tick           \* history: the last Auto tick before its wind-back

pid == <<integral, prev_x, deriv, first, runtime_mode, u_track, u_cmd>>
vars == <<pid, charged, resume, tick>>

\* num / den of x, rounded toward zero.
Scaled(num, den, x) ==
    IF x >= 0 THEN (num * x) \div den ELSE -((num * (-x)) \div den)

Clamp(x, lo, hi) == IF x < lo THEN lo ELSE IF x > hi THEN hi ELSE x
SatU(x) == Clamp(x, ULo, UHi)  \* u_lim.saturate

SatI(x) == Clamp(x, ILo, IHi)  \* integral_lim.saturate, in pid_set_integral

Decay(d) == Scaled(DaNum, DaDen, d)

\* pid_delta: the change of x since the last tick, zero on the first.
Delta(x) == IF first THEN 0 ELSE x - prev_x

NextDeriv(r, y) == Decay(deriv) + Db * Delta(C * r - y)
Prop(r, y) == Kp * (B * r - y)
DI(r, y) == Ki * (r - y)

\* pid_wind_back: the integral i after a command u_unsat became u_sat.
WoundBack(i, u_sat, u_unsat) ==
    IF KwNum = 0 \/ u_sat = u_unsat THEN i
    ELSE SatI(i + Scaled(KwNum, KwDen, u_sat - u_unsat))

\* Nothing the integrator is preloaded for; no Auto tick to charge.
NoResume == [ok |-> FALSE, r |-> 0, y |-> 0, u |-> 0]
NoTick == [ok |-> FALSE, pre |-> 0, unsat |-> 0]

Init ==
    /\ integral = 0 /\ prev_x = 0 /\ deriv = 0 /\ first = TRUE
    /\ runtime_mode = "Auto" /\ u_track = 0 /\ u_cmd = 0
    /\ charged = TRUE
    /\ resume = NoResume /\ tick = NoTick

\* The derivative filter, run by every control().
Differentiate(r, y) ==
    /\ deriv' = NextDeriv(r, y)
    /\ prev_x' = C * r - y
    /\ first' = FALSE

\* Mutant of ControlAuto: its own saturation does not wind the integrator back.
ControlAutoNoWindBack(r, y) ==
    LET pre   == SatI(integral + DI(r, y))
        unsat == Prop(r, y) + NextDeriv(r, y) + pre
    IN
    /\ runtime_mode = "Auto"
    /\ Differentiate(r, y)
    /\ u_cmd' = SatU(unsat)
    /\ integral' = pre
    /\ charged' = FALSE
    /\ resume' = NoResume
    /\ tick' = [ok |-> TRUE, pre |-> pre, unsat |-> unsat]
    /\ UNCHANGED <<runtime_mode, u_track>>

\* control(r, y) in Auto: integrate, saturate, wind back.
ControlAuto(r, y) ==
    LET pd    == Prop(r, y) + NextDeriv(r, y)
        pre   == SatI(integral + DI(r, y))
        unsat == pd + pre
    IN
    /\ runtime_mode = "Auto"
    /\ Differentiate(r, y)
    /\ u_cmd' = SatU(unsat)
    /\ integral' = WoundBack(pre, SatU(unsat), unsat)
    /\ charged' = FALSE
    /\ resume' = NoResume
    /\ tick' = [ok |-> TRUE, pre |-> pre, unsat |-> unsat]
    /\ UNCHANGED <<runtime_mode, u_track>>

\* Mutant of Follow: the preload forgets that D decays by the next tick.
FollowWithoutDecay(r, y, u) ==
    LET pd      == Prop(r, y) + NextDeriv(r, y)
        preload == u - pd - DI(r, y)
    IN
    /\ Differentiate(r, y)
    /\ integral' = SatI(preload)
    /\ u_cmd' = SatU(u)
    /\ charged' = FALSE
    /\ resume' = [ok |-> SatI(preload) = preload /\ SatI(u - pd) = u - pd,
                  r |-> r, y |-> y, u |-> u]
    /\ tick' = NoTick

\* control(r, y) in Tracking of u: hold u and preload the integrator so that the
\* next Auto tick at the same (r, y) emits u.
Follow(r, y, u) ==
    LET pd_next == Prop(r, y) + Decay(NextDeriv(r, y))
        preload == u - pd_next - DI(r, y)
    IN
    /\ Differentiate(r, y)
    /\ integral' = SatI(preload)
    /\ u_cmd' = SatU(u)
    /\ charged' = FALSE
    /\ resume' = [ok |-> /\ SatI(preload) = preload
                         /\ SatI(u - pd_next) = u - pd_next,
                  r |-> r, y |-> y, u |-> u]
    /\ tick' = NoTick

ControlTracking(r, y) ==
    /\ runtime_mode = "Tracking"
    /\ Follow(r, y, u_track)
    /\ UNCHANGED <<runtime_mode, u_track>>

\* track(u, y): disable(u), then a tick that assumes r = y.
Track(u, y) ==
    /\ runtime_mode' = "Tracking"
    /\ u_track' = u
    /\ Follow(y, y, u)

\* Mutant of BackCalculate: it charges from the command before the controller's
\* own saturation, which control() has already wound back for.
BackCalculateFromUnsat(u_ff) ==
    LET u_sat == Clamp(u_cmd + u_ff, PLo, PHi)
        u     == IF tick.ok THEN tick.unsat ELSE u_cmd
    IN
    /\ ~charged
    /\ charged' = TRUE
    /\ integral' = WoundBack(integral, u_sat, u + u_ff)
    /\ resume' = IF integral' = integral THEN resume ELSE NoResume
    /\ UNCHANGED <<prev_x, deriv, first, runtime_mode, u_track, u_cmd, tick>>

\* back_calculate(u_sat, u_ff), after the stage that clamps u_cmd + u_ff.
BackCalculate(u_ff) ==
    LET u_sat == Clamp(u_cmd + u_ff, PLo, PHi) IN
    /\ ~charged
    /\ charged' = TRUE
    /\ integral' = WoundBack(integral, u_sat, u_cmd + u_ff)
    /\ resume' = IF integral' = integral THEN resume ELSE NoResume
    /\ UNCHANGED <<prev_x, deriv, first, runtime_mode, u_track, u_cmd, tick>>

\* reset() keeps the runtime mode, u_track and u_cmd.
Reset ==
    /\ integral' = 0 /\ prev_x' = 0 /\ deriv' = 0 /\ first' = TRUE
    /\ resume' = NoResume /\ tick' = NoTick
    /\ UNCHANGED <<runtime_mode, u_track, u_cmd, charged>>

Enable ==
    /\ runtime_mode' = "Auto"
    /\ UNCHANGED <<integral, prev_x, deriv, first, u_track, u_cmd, charged, resume, tick>>

Disable(u) ==
    /\ runtime_mode' = "Tracking"
    /\ u_track' = u
    /\ UNCHANGED <<integral, prev_x, deriv, first, u_cmd, charged, resume, tick>>

Next ==
    \/ \E r \in Refs, y \in Meas : ControlAuto(r, y) \/ ControlTracking(r, y)
    \/ \E u \in Tracks, y \in Meas : Track(u, y)
    \/ \E u_ff \in Forwards : BackCalculate(u_ff)
    \/ \E u \in Tracks : Disable(u)
    \/ Enable
    \/ Reset

Spec == Init /\ [][Next]_vars

-----------------------------------------------------------------------------
(***************************************************************************)
(* Properties                                                              *)
(***************************************************************************)

\* Types; the integral term stays in its limits and the command in u_lim once
\* control() has run (both start at 0, which the limits need not contain).
TypeOK ==
    /\ integral \in (ILo .. IHi) \cup {0}
    /\ prev_x \in Int /\ deriv \in Int
    /\ first \in BOOLEAN /\ charged \in BOOLEAN
    /\ runtime_mode \in {"Auto", "Tracking"}
    /\ u_track \in Int
    /\ u_cmd \in (ULo .. UHi) \cup {0}
    /\ resume \in [ok : BOOLEAN, r : Int, y : Int, u : Int]
    /\ tick \in [ok : BOOLEAN, pre : Int, unsat : Int]

\* "Tracking preloads I so the next Auto tick at the same (r, y) emits exactly
\* u_track" (pid_step): whatever enable(), disable() and back_calculate() calls
\* come between, unless back_calculate() moved the integrator or the integrator
\* limits cut the preload short.
Bumpless ==
    [][resume.ok /\ ControlAuto(resume.r, resume.y) => u_cmd' = SatU(resume.u)]_vars

\* The windup of one tick is charged to the integrator once, in total: the
\* wind-back of control() for its own saturation and the back_calculate() that
\* follows for the downstream clamp together take Ki/Kbc times the difference
\* between what the plant got and what the law wanted (each rounds once).
ChargedOnce ==
    [][\A u_ff \in Forwards :
         /\ tick.ok
         /\ BackCalculate(u_ff)
         /\ ILo < integral /\ integral < IHi
         /\ ILo < integral' /\ integral' < IHi
         => LET total == Clamp(u_cmd + u_ff, PLo, PHi) - (tick.unsat + u_ff)
                err   == KwDen * (integral' - tick.pre) - KwNum * total
            IN -2 * KwDen < err /\ err < 2 * KwDen]_vars

\* track() takes a measurement for its reference.
Setpoints == Refs \cup Meas

\* The largest command, proportional and derivative term and integral increment that
\* limits, references and measurements can produce.
MaxCommand == Extent({ULo, UHi, PLo, PHi} \cup Tracks)
MaxProp == Extent({Prop(r, y) : r \in Setpoints, y \in Meas})
MaxMove == Extent({(C * r - y) - (C * s - z) : r, s \in Setpoints, y, z \in Meas})
MaxDeriv == (Abs(Db) * MaxMove * DaDen) \div (DaDen - DaNum)
MaxDI == Extent({DI(r, y) : r \in Setpoints, y \in Meas})

\* Back-calculation keeps the integrator bounded without any help from its own
\* limits, however long the command stays saturated and whatever the operator
\* does: the wind-back balances the largest increment within
\* MaxDI * Kbc / Ki of the command limits.
WindupBounded ==
    Abs(integral) <= MaxCommand + Extent(Forwards) + MaxProp + MaxDeriv + MaxDI
                       + ((MaxDI + 1) * KwDen) \div KwNum
=============================================================================
