-------------------------------- MODULE MCSlab --------------------------------
(* Five slots in words of two bits: three words, the last one with a single *)
(* slot and a padding bit, so that the scan from lindex, its wrap-around    *)
(* and the partial last word are all exercised.                             *)
EXTENDS Slab

MCObjects == 5
MCBits == 2
=============================================================================
