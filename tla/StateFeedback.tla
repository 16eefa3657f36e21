---------------------------- MODULE StateFeedback ----------------------------
(***************************************************************************)
(* The runtime behind LQI and LQGI: StateFeedbackCore with integral action *)
(* (src/inc/damp/controllers/state_feedback_core.hpp) and the record of    *)
(* the applied input it shares with MPC (law_detail.hpp), in the loop that *)
(* calls it.  One input, one integrator, integer gains; C and Ts are 1.    *)
(*                                                                         *)
(* A tick is predict(), update(), control(), and the write of the command: *)
(* step() begins with predict(), the interrupt form begins with update()   *)
(* and ends with it.  The actuator adds a feedforward and clamps, or       *)
(* another controller drives it; the application reports the outcome with  *)
(* back_calculate() whenever it differs from the command.  reset() may     *)
(* come between any two calls.  The plant's state, and an observer's       *)
(* estimate of it, may be anything.                                        *)
(***************************************************************************)
EXTENDS AppliedRecord, Extents, Sequences

CONSTANTS
    States, Targets,    \* of the plant; references
    Gains,              \* what the gain on xi may be
    Feedthroughs,       \* what D may be: y = x + D * u
    MaxAstray           \* bound: takeovers under a feedthrough, by what they put astray

ASSUME FeedbackAssumption ==
    /\ States \subseteq Int /\ Targets \subseteq Int
    /\ Gains \subseteq Int /\ Feedthroughs \subseteq Int
    /\ MaxAstray \in Nat

VARIABLES
    law,      \* its design: [estimated, Ki, D]
    record,   \* AppliedRecord: command, applied, feedforward, recorded
    xi, e,    \* the integrator, and the error held for the next predict
    held,     \* integral.y, or x_ without an estimator
    plant,    \* the state, and the input in force, with its command and feedforward
    call,     \* the call that comes next
    due,      \* history: <<the reference>> of a control() no predict() has followed
    blind,    \* history: reset() took what the next control() of LQGI reads, the sample
              \* or the input in force when it was taken
    astray    \* history: since reset(), how far ticks without a control(), or with a
              \* blind one, have put the integrator off

feedbackVars == <<law, record, xi, e, held, plant, call, due, blind, astray>>

FeedbackInit ==
    /\ law \in [estimated : BOOLEAN, Ki : Gains, D : Feedthroughs]
    /\ record = Forgotten
    /\ xi = 0 /\ e = 0 /\ held = 0
    /\ plant = [x |-> 0, u |-> 0, cmd |-> 0, ff |-> 0]
    /\ call \in {"predict", "update"}
    /\ due = <<>> /\ blind = FALSE /\ astray = 0

-----------------------------------------------------------------------------
\* Mutant of WindsUp: back_calculate() serves the observer only.
WindsUpNever(rec, err) == FALSE

\* The error would drive the command further into the clamp.
WindsUp(rec, err) ==
    law.Ki * err * (rec.applied - (rec.command + rec.feedforward)) > 0

\* What predict() integrates: the error held, less the feedthrough of the input.
Taking == e - law.D * Taken(record).applied

\* What it should: the error of the tick that ends, of the reference given to its
\* control(), against what the plant put out under what it received; none without one.
TrueError ==
    IF due = <<>> THEN 0 ELSE due[1] - (plant.x + law.D * plant.u)

\* The time update.
FeedbackPredict ==
    /\ call = "predict"
    /\ record' = Taken(record)
    /\ xi' = IF WindsUp(record', Taking) THEN xi ELSE xi + Taking
    /\ e' = 0
    /\ call' = "update" /\ due' = <<>>
    /\ blind' = (blind /\ due = <<>> /\ ~record.recorded)
    /\ astray' = IF WindsUp(record', Taking) \/ (due # <<>> /\ ~blind) THEN astray
                 ELSE astray + Abs(Taking - TrueError)
    /\ UNCHANGED <<law, held, plant>>

\* The plant has moved; a sample carries the input held over the period before it.
FeedbackUpdate ==
    /\ call = "update"
    /\ \E x \in States :
         /\ plant' = [plant EXCEPT !.x = x]
         /\ held' = x + (IF law.estimated THEN law.D * plant.u ELSE 0)
    /\ call' = "control"
    /\ blind' = (blind /\ law.D # 0)
    /\ UNCHANGED <<law, record, xi, e, due, astray>>

\* The feedthrough that a measurement carries, of the input the last predict took.
Fed == IF law.estimated THEN law.D * record.applied ELSE 0

\* The command about x* = 0, u* = 0, and the part of the error known now.
FeedbackControl ==
    /\ call = "control"
    /\ \E r \in Targets, x \in (IF law.estimated THEN States ELSE {held}) :
         /\ record' = [record EXCEPT !.command = -x - law.Ki * xi]
         /\ e' = r - held + Fed
         /\ due' = <<r>>
    /\ plant' = [plant EXCEPT !.cmd = record'.command]
    /\ call' = "write"
    /\ UNCHANGED <<law, xi, held, blind, astray>>

-----------------------------------------------------------------------------
(* The application.                                                        *)

\* What may go out: the command as the actuator clamps it, or another controller's input.
Driven(u_ff) == {Saturated(plant.cmd + u_ff, ActLo, ActHi)} \cup Manuals

\* back_calculate() is called with what became of the command.
FeedbackWrite ==
    /\ call = "write"
    /\ \E u_ff \in Added : \E u \in Driven(u_ff) :
         /\ plant' = [plant EXCEPT !.u = u, !.ff = u_ff]
         /\ \/ record' = Recorded(record, u, u_ff)
            \/ u = plant.cmd /\ u_ff = 0 /\ UNCHANGED record
    /\ call' = "predict"
    /\ UNCHANGED <<law, xi, e, held, due, blind, astray>>

\* A tick without control(): another controller drives the plant and reports its input.
FeedbackManual ==
    /\ call = "update"
    /\ \E u \in Manuals :
         /\ law.D * u = 0 \/ astray <= MaxAstray
         /\ plant' = [plant EXCEPT !.u = u, !.cmd = u, !.ff = 0]
         /\ record' = Recorded(record, u, 0)
    /\ call' = "predict"
    /\ UNCHANGED <<law, xi, e, held, due, blind, astray>>

\* LQGI is about to read a sample, or to take out of one the feedthrough of an input.
ReadsAhead ==
    /\ law.estimated
    /\ \/ call = "control"
       \/ law.D # 0 /\ (plant.u # 0 \/ call = "write")

\* reset(), between any two calls.
FeedbackReset ==
    /\ record' = Forgotten
    /\ xi' = 0 /\ e' = 0
    /\ held' = IF law.estimated THEN 0 ELSE held
    /\ due' = <<>> /\ blind' = (blind \/ ReadsAhead) /\ astray' = 0
    /\ UNCHANGED <<law, plant, call>>

FeedbackNext ==
    \/ FeedbackPredict \/ FeedbackUpdate \/ FeedbackControl
    \/ FeedbackWrite \/ FeedbackManual \/ FeedbackReset

FeedbackSpec == FeedbackInit /\ [][FeedbackNext]_feedbackVars

-----------------------------------------------------------------------------
(***************************************************************************)
(* Properties                                                              *)
(***************************************************************************)

Asked == plant.cmd + plant.ff

\* One error is integrated, once: unless the actuator is clamped and the error would
\* push the command further beyond the clamp.
Integrated(err) ==
    xi' = IF law.Ki * err * (plant.u - Asked) > 0 THEN xi ELSE xi + err

\* "xi += Ts * (r - Ci * y) per tick, y = C * x + D * u the output over the period, u the
\* input applied over it, unless the applied input shows the actuator clamping against
\* it": a tick with a control() moves the integrator by exactly its true error, once,
\* whoever drove the plant and whichever reports the application left out, and a
\* feedforward is not taken for a clamp.  LQGI's first control() after a reset() that
\* took the sample it reads, or the input that sample carries, is excepted
\* (ErrorOutlivesReset).  A tick without control() has no error: it moves the
\* integrator by at most the feedthrough of the input in force, not at all if D = 0.
IntegralIsTrue ==
    [][FeedbackPredict =>
         /\ due # <<>> /\ ~blind => Integrated(TrueError)
         /\ due = <<>> => xi' \in {xi, xi - law.D * plant.u}]_feedbackVars

\* The same of every control(), as the header has it: "from the measurement less the
\* feedthrough D*u of the input it was taken under".
ErrorOutlivesReset ==
    [][FeedbackPredict /\ due # <<>> => Integrated(TrueError)]_feedbackVars

\* However long the command of LQI or LQGI stays beyond the clamp, its integral stays
\* within what the clamp, the state and the feedforward explain, one error, and what
\* the ticks that IntegralIsTrue excepts have put astray since the last reset().
IntegralBounded ==
    LET u == Extent({ActLo, ActHi} \cup Manuals)
        x == Extent(States)
    IN Abs(xi) <= u + x + Extent(Added)
                  + (Extent(Targets) + x + Extent(Feedthroughs) * u) + astray
=============================================================================
