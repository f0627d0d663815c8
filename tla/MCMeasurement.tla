---------------------------- MODULE MCMeasurement ----------------------------
(* Measurement for TLC.                                                      *)
EXTENDS Measurement

CONSTANT c1
=============================================================================
