------------------------------ MODULE Extents -------------------------------
(***************************************************************************)
(* Magnitudes, for the bounds of the control laws.                         *)
(***************************************************************************)
EXTENDS Integers, FiniteSetsExt

Abs(x) == IF x < 0 THEN -x ELSE x

\* The greatest magnitude of a finite set of integers.
Extent(S) == Max({Abs(s) : s \in S})
=============================================================================
