---------------------------- MODULE AppliedRecord ----------------------------
(***************************************************************************)
(* A law's memory of its last command and of the input that really went    *)
(* out (src/inc/damp/controllers/law_detail.hpp), shared by the            *)
(* state-feedback and the predictive controllers, and what can make the    *)
(* two differ: the application adds a feedforward, the actuator clamps,    *)
(* and another controller may drive the plant for a tick.                  *)
(***************************************************************************)
EXTENDS Integers

CONSTANTS
    Added,         \* feedforwards the application adds to a command
    ActLo, ActHi,  \* the actuator's limits
    Manuals        \* inputs another controller may drive the plant with

ASSUME ActuatorAssumption ==
    /\ Added \subseteq Int /\ Manuals \subseteq Int
    /\ ActLo \in Int /\ ActHi \in Int

Forgotten == [command |-> 0, applied |-> 0, feedforward |-> 0, recorded |-> FALSE]

Recorded(record, u_sat, u_ff) ==
    [record EXCEPT !.applied = u_sat, !.feedforward = u_ff, !.recorded = TRUE]

\* Mutant of Taken: the record is not cleared.
TakenAgain(record) ==
    IF record.recorded THEN record
    ELSE [record EXCEPT !.applied = record.command, !.feedforward = 0]

\* The recorded input, else the last command; the record is cleared.
Taken(record) ==
    IF record.recorded THEN [record EXCEPT !.recorded = FALSE]
    ELSE [record EXCEPT !.applied = record.command, !.feedforward = 0]

\* Bounds::saturate()
Saturated(v, lo, hi) == IF v < lo THEN lo ELSE IF v > hi THEN hi ELSE v
=============================================================================
