------------------------------ MODULE MCSensing ------------------------------
(***************************************************************************)
(* Sensing, from the counts of an axis to the conditioned signal.  An axis *)
(* over three periods, its counter of 3 bits, so that it rolls over every  *)
(* two; or a block of the signal path, its ring of 4 slots fed seven       *)
(* samples, so that every ring turns and the shorter windows turn three    *)
(* times.  The two share no state: a behaviour exercises one.              *)
(***************************************************************************)
EXTENDS AxisCounting, SignalPath

VARIABLE bench  \* "axis" or "path"

MCMoves == {-7, -1, 3}
MCLags == {-6, 5}
MCWraps == {1, 2, 3}

MCSamples == {0, 1, 3}
\* Every edge of the two bands, from either side, with and without the margin.
MCReadings == {0, 3, 5, 7, 8, 13}
MCIntervals == {-1, 0, 1, 2}
MCCalOffset == -1
MCQTaps == <<2, 1>>
MCMargins == {0, 2, 6}
MCValid == [lower |-> 5, upper |-> 9]
MCFault == [lower |-> 3, upper |-> 11]

MCInit ==
    /\ Init /\ PathInit
    /\ bench \in {"axis", "path"} /\ (bench = "axis" => block = Slew)

MCNext ==
    \/ bench = "axis" /\ Next /\ UNCHANGED <<path, bench>>
    \/ bench = "path" /\ PathNext /\ UNCHANGED <<vars, bench>>

MCSpec == MCInit /\ [][MCNext]_<<vars, path, bench>>
=============================================================================
