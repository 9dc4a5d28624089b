------------------------------ MODULE MCBringUp ------------------------------
(* BringUp with the failures the configurations choose from.               *)
EXTENDS BringUp

AllFaults == BringUpFaults
BothBuilds == BOOLEAN
=============================================================================
