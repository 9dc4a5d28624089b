----------------------------- MODULE MCTca8418 -----------------------------
(* Tca8418 with two corners of the matrix and one GPI pin, on a board       *)
(* where everything works and on one where nothing can be relied on.        *)
EXTENDS Tca8418

Corners == {[row |-> 0, col |-> 9, pressed |-> TRUE],
            [row |-> 7, col |-> 0, pressed |-> FALSE],
            [gpi |-> 97, pressed |-> TRUE]}

GoodAndBad == {[busFails |-> FALSE, kIntHeld |-> TRUE],
               [busFails |-> TRUE, kIntHeld |-> FALSE]}
=============================================================================
