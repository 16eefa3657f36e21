--------------------------- MODULE MCEncoderGate ---------------------------
(***************************************************************************)
(* The encoder gate on two positions: 3 is outside the window around 0     *)
(* after one tick and inside it after two.                                 *)
(***************************************************************************)
EXTENDS EncoderGate

MCPositions == {0, 3}
MCSpeeds == {0, 1}
MCDts == {0, 1, 2}
=============================================================================
