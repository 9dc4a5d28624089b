------------------------------- MODULE Screen -------------------------------
(***************************************************************************)
(* What the display promises its callers: an image they draw, an image the *)
(* panel shows, and a polarity that only VCOM toggles change.  An update   *)
(* makes the panel show exactly what was drawn, a wipe whitens both.       *)
(***************************************************************************)
CONSTANTS Images, White

VARIABLES drawn, shown, polarity

Init ==
  /\ drawn \in Images
  /\ shown = White
  /\ polarity = FALSE

Draw ==
  /\ drawn' \in Images
  /\ UNCHANGED <<shown, polarity>>

Update ==
  /\ shown' = drawn
  /\ UNCHANGED <<drawn, polarity>>

Wipe ==
  /\ drawn' = White
  /\ shown' = White
  /\ UNCHANGED polarity

Invert ==
  /\ polarity' = ~polarity
  /\ UNCHANGED <<drawn, shown>>

Next == Draw \/ Update \/ Wipe \/ Invert

Spec == Init /\ [][Next]_<<drawn, shown, polarity>>
=============================================================================
