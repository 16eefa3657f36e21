-------------------------- MODULE PredictiveControl --------------------------
(***************************************************************************)
(* The runtime of the model predictive controllers, MPCCore                *)
(* (src/inc/damp/controllers/mpc.hpp), in the loop that calls it.  One     *)
(* input; the solver of the quadratic program may answer with any status   *)
(* and any first move.                                                     *)
(*                                                                         *)
(* The plan is the total input.  The application adds a feedforward to the *)
(* command, the actuator clamps the sum, and back_calculate() reports the  *)
(* outcome whenever it differs from the command.  Between any two calls    *)
(* the limits may change, and another controller may have a tick.          *)
(***************************************************************************)
EXTENDS AppliedRecord

CONSTANTS
    Boxes,      \* limits on u and du: [lo, hi, down, up]
    Moves       \* first moves a solver may answer with, in physical units

ASSUME PredictiveAssumption ==
    /\ Boxes \subseteq [lo : Int, hi : Int, down : Int, up : Int]
    /\ Moves \subseteq Int

VARIABLES
    design,   \* [success, invariant_set, hard]
    limits, last_status,
    base,     \* AppliedRecord
    drive,    \* the input in force, its command and its feedforward
    turn,     \* the call that comes next
    known     \* history: no reset() since the input in force was written

predictiveVars == <<design, limits, last_status, base, drive, turn, known>>

QPStatus ==
    {"Success", "MaxIterations", "Infeasible", "Degenerate", "NotPositiveDefinite",
     "Unbounded", "NonFinite"}

Valid(box) == box.lo <= box.hi /\ box.down <= box.up

PredictiveInit ==
    /\ design \in [success : BOOLEAN, invariant_set : BOOLEAN, hard : BOOLEAN]
    /\ limits \in {box \in Boxes : Valid(box)}
    /\ last_status = "Success"
    /\ base = Forgotten
    /\ drive = [u |-> 0, cmd |-> 0, ff |-> 0]
    /\ turn = "predict" /\ known = TRUE

PredictivePredict ==
    /\ turn = "predict"
    /\ base' = Taken(base)
    /\ turn' = "control"
    /\ UNCHANGED <<design, limits, last_status, drive, known>>

\* The solution is used, or the input held: with hard outputs or a terminal set an
\* unfinished solution must satisfy the constraints.
Takes(status, feasible) ==
    \/ status = "Success"
    \/ status \in {"MaxIterations", "Degenerate"}
       /\ (feasible \/ ~(design.hard \/ design.invariant_set))

\* Mutant of Share: the law's share is clamped, not the total.
ShareClamped(move) ==
    Saturated(base.applied - base.feedforward + Saturated(move, limits.down, limits.up),
              limits.lo, limits.hi)

\* The planned total less the feedforward that is added outside.
Share(move) ==
    Saturated(base.applied + Saturated(move, limits.down, limits.up), limits.lo, limits.hi)
        - base.feedforward

\* update() and control(): a failed design holds the last input.
PredictiveControl ==
    /\ turn = "control"
    /\ IF design.success
       THEN \E status \in QPStatus, move \in Moves, feasible \in BOOLEAN :
              /\ last_status' = status
              /\ base' = [base EXCEPT !.command =
                               Share(IF Takes(status, feasible) THEN move ELSE 0)]
       ELSE /\ base' = [base EXCEPT !.command = base.applied - base.feedforward]
            /\ UNCHANGED last_status
    /\ drive' = [drive EXCEPT !.cmd = base'.command]
    /\ turn' = "write"
    /\ UNCHANGED <<design, limits, known>>

PredictiveWrite ==
    /\ turn = "write"
    /\ \E u_ff \in Added :
         /\ drive' = [drive EXCEPT !.u = Saturated(drive.cmd + u_ff, ActLo, ActHi), !.ff = u_ff]
         /\ \/ base' = Recorded(base, drive'.u, u_ff)
            \/ drive'.u = base.command /\ u_ff = 0 /\ UNCHANGED base
    /\ turn' = "predict" /\ known' = TRUE
    /\ UNCHANGED <<design, limits, last_status>>

\* A tick in which another controller drives the plant: its input seeds the next move.
PredictiveManual ==
    /\ turn = "control"
    /\ \E u \in Manuals :
         /\ drive' = [u |-> u, cmd |-> u, ff |-> 0]
         /\ base' = Recorded(base, u, 0)
    /\ turn' = "predict" /\ known' = TRUE
    /\ UNCHANGED <<design, limits, last_status>>

\* set_limits(): refused limits change nothing.
SetLimits ==
    /\ \E box \in Boxes : limits' = IF design.invariant_set \/ ~Valid(box) THEN limits ELSE box
    /\ UNCHANGED <<design, last_status, base, drive, turn, known>>

PredictiveReset ==
    /\ base' = Forgotten /\ last_status' = "Success"
    /\ known' = (turn = "write")
    /\ UNCHANGED <<design, limits, drive, turn>>

PredictiveNext ==
    \/ PredictivePredict \/ PredictiveControl \/ PredictiveWrite
    \/ PredictiveManual \/ SetLimits \/ PredictiveReset

PredictiveSpec == PredictiveInit /\ [][PredictiveNext]_predictiveVars

-----------------------------------------------------------------------------
(***************************************************************************)
(* Properties                                                              *)
(***************************************************************************)

\* "Adding u_ff back outside the law applies the plan, and the total lies in the u box",
\* "clamped to the configured u and du boxes": whatever the solver answers, whoever drove
\* the plant before and whichever reports were left out, a command together with the
\* feedforward in force lies in the u box of the moment, and moves the plant's real input
\* within the du box, or, from an input outside the u box, to its nearest end at most.
\* A failed design holds the real input.
MovesAreBounded ==
    [][PredictiveControl /\ known =>
         LET total == base'.command + drive.ff IN
         IF design.success
         THEN /\ limits.lo <= total /\ total <= limits.hi
              /\ \/ drive.u + limits.down <= total /\ total <= drive.u + limits.up
                 \/ drive.u + limits.up < limits.lo /\ total = limits.lo
                 \/ drive.u + limits.down > limits.hi /\ total = limits.hi
         ELSE total = drive.u]_predictiveVars
=============================================================================
