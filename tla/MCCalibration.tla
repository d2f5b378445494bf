--------------------------- MODULE MCCalibration ---------------------------
(* Values for the constants of Calibration.                                *)
EXTENDS Calibration

\* erased flash, a small number, one that overflows the product, a negative
MCTyped == {-1, 5, 30, -7}
MCDefault == [calib |-> 14, offset |-> 1]
=============================================================================
