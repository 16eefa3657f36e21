---------------------------- MODULE MCExcitation ----------------------------
(***************************************************************************)
(* All fifteen PRBS orders, with samples that do not divide the chips, and *)
(* short runs of the other generators.                                     *)
(***************************************************************************)
EXTENDS Excitation

MCOrders == 2 .. 16
MCSeeds == {{0}}
MCRateTols == {0, 1}
MCOutputs == {0, 2, 5}
MCTargets == {-7, 0, 5}
MCFreqs == <<3, 5, 4>>
MCTones == <<[f |-> 5, phase |-> 3], [f |-> 1, phase |-> -9]>>
=============================================================================
