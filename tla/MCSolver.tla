------------------------------- MODULE MCSolver -------------------------------
(***************************************************************************)
(* A solve over seven ticks, with a function that crosses zero after the   *)
(* third.                                                                  *)
(***************************************************************************)
EXTENDS Solver

MCOneCrossing == {{[i \in 0 .. 7 |-> IF i <= 3 THEN -1 ELSE 1]}}
=============================================================================
