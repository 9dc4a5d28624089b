---------------------------- MODULE MCInputLayer ----------------------------
(* InputLayer with the threshold of InputLayer.h.  The list of eight keys   *)
(* is shortened to four, so that it fills and empties in every way.         *)
EXTENDS InputLayer
=============================================================================
