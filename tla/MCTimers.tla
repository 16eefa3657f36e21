------------------------------ MODULE MCTimers ------------------------------
(***************************************************************************)
(* One scan loop steps the contact timers or the clock-driven blocks,      *)
(* which share no state: a behaviour exercises one of the two.             *)
(***************************************************************************)
EXTENDS Timers, Rhythm

VARIABLE bench  \* which blocks are stepped

MCInit == Init /\ RhythmInit /\ bench \in {"contacts", "clocks"}

MCNext ==
    \/ bench = "contacts" /\ Next /\ UNCHANGED <<rhythm, bench>>
    \/ bench = "clocks" /\ RhythmNext /\ UNCHANGED <<vars, bench>>

MCSpec == MCInit /\ [][MCNext]_<<vars, rhythm, bench>>
=============================================================================
