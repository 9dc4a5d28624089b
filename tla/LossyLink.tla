------------------------------ MODULE LossyLink ------------------------------
(***************************************************************************)
(* What LoRaInterface promises Reticulum for one sender: packets go up     *)
(* whole, each at most once and in the order they were sent; any of them   *)
(* may be missing.  Packets are numbered as they are sent.                 *)
(***************************************************************************)
EXTENDS Naturals

VARIABLES
  sent,   \* number of the last packet sent, 0 before the first
  rcvd    \* number of the last packet handed up, 0 before the first

lvars == <<sent, rcvd>>

Init == sent = 0 /\ rcvd = 0

Send == sent' = sent + 1 /\ UNCHANGED rcvd

Deliver == rcvd' \in (rcvd + 1)..sent /\ UNCHANGED sent

Next == Send \/ Deliver

Spec == Init /\ [][Next]_lvars
=============================================================================
