-------------------------- MODULE MCRelayAutotuner --------------------------
(***************************************************************************)
(* The relay experiment on a small instance.                               *)
(***************************************************************************)
EXTENDS RelayAutotuner

\* Two errors beyond the hysteresis on either side of different sizes, and one
\* inside it on either side.
MCErrors == {-3, -1, 1, 2}
=============================================================================
