---------------------------- MODULE MCUltrasonic ----------------------------
(***************************************************************************)
(* Small instances of the Ultrasonic round robin: two sensor objects, and  *)
(* one or two program threads.                                             *)
(***************************************************************************)
EXTENDS Ultrasonic, TLC

CONSTANTS s1, s2, u1, u2

MCSensors == {s1, s2}
MCOneUser == {u1}
MCTwoUsers == {u1, u2}
=============================================================================
