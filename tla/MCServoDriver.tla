---------------------------- MODULE MCServoDriver ----------------------------
(* Positions for TLC: none, one nearer to zero than BackOff, one a long    *)
(* move away, and one beyond the chip's twelve bits.                       *)
EXTENDS ServoDriver

FarPositions == {0, 40, 20000}
NearPositions == {0, 200}
=============================================================================
