--------------------------- MODULE MCMeasurements ---------------------------
(* Measurements on a small instance.                                         *)
EXTENDS Measurements
=============================================================================
