----------------------------- MODULE MCSharpLcd -----------------------------
(* SharpLcd on a panel of fourteen lines of 24 pixels, with fonts of a few *)
(* glyphs each, drawn on at the byte boundaries, over the right and bottom *)
(* edges and with text of one to four bytes a character, whole and cut     *)
(* short.                                                                  *)
EXTENDS SharpLcd

Rows(first, bits) == [r \in 1..13 |-> IF r \in first..first + 1 THEN bits ELSE 0]
Tall(bits) == [r \in 1..26 |-> IF r \in 3..4 THEN bits ELSE 0]

Ascii == <<Rows(2, 16), Rows(3, 254)>>                          \* A, B
Extra == <<[cp |-> 169, rows |-> Rows(5, 40)], [cp |-> 9472, rows |-> Rows(7, 254)],
           [cp |-> 9675, rows |-> Rows(9, 84)]>>
Smile == <<[cp |-> 128512, rows |-> Rows(11, 170)]>>
Faces == [big    |-> [adv |-> 12, ink |-> 14, top |-> 15,
                      table |-> <<[cp |-> 65, rows |-> Tall(32772)],
                                  [cp |-> 66, rows |-> Tall(4)]>>],
          inline |-> [adv |-> 6, ink |-> 8, top |-> 7,
                      table |-> <<[cp |-> 65, rows |-> SubSeq(Rows(2, 129), 1, 12)]>>]]

\* cps are the characters of s; U+FFFD stands for a sequence cut short, once by
\* the character after it and once by the end of the string.
Text(x, y, scale, cps, s) ==
  [op |-> "draw_text", x |-> x, y |-> y, black |-> TRUE, scale |-> scale, cps |-> cps, s |-> s]

AllCalls == {
  Text(0, 1, 1, <<169, 65533, 10431, 128512, 9472>>,
       <<194, 169, 226, 148, 226, 162, 191, 240, 159, 152, 128, 226, 148, 128>>),
  Text(11, 4, 2, <<9675, 65533>>, <<226, 151, 139, 195>>),
  [op |-> "draw_text_big", x |-> 2, y |-> 0, black |-> TRUE, cps |-> <<65, 9472, 66>>,
   s |-> <<65, 226, 148, 128, 66>>],
  [op |-> "draw_text_bold", x |-> 13, y |-> 6, black |-> TRUE, face |-> "inline",
   cps |-> <<8205, 65>>, s |-> <<226, 128, 141, 65>>],
  [op |-> "fill_rect", x |-> 7, y |-> 2, black |-> FALSE, w |-> 20, h |-> 14],
  [op |-> "fill_dither", x |-> 5, y |-> 9, black |-> TRUE, w |-> 30, h |-> 9, level |-> 120],
  [op |-> "draw_hline", x |-> 0, y |-> 13, black |-> TRUE, w |-> 25] }
=============================================================================
