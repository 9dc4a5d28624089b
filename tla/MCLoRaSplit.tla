----------------------------- MODULE MCLoRaSplit -----------------------------
(* LoRaSplit at the lengths where the framing changes: nothing, the longest *)
(* single frame, the shortest and the longest split packet.                 *)
EXTENDS LoRaSplit

EdgeLens == {0, 254, 255, 508}
=============================================================================
