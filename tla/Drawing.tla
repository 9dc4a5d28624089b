------------------------------- MODULE Drawing -------------------------------
(***************************************************************************)
(* The drawing operations of SharpLcd: text in its five faces, scaled and  *)
(* not, rectangles, rules and dither.  Each is the set of pixels it sets,  *)
(* all to one colour; what of it is off the panel set_pixel ignores.       *)
(*                                                                         *)
(* The font tables are data: constants here, with the sizes that matter.   *)
(***************************************************************************)
EXTENDS Integers, Sequences, SequencesExt

CONSTANTS
  LCD_WIDTH, LCD_HEIGHT,
  FONT_FIRST,  \* 32
  FONT,        \* the rows of the glyphs from FONT_FIRST on
  FONT_EXTRA,  \* the body face's other glyphs, [cp, rows], sorted by cp
  EMOJI,       \* those above U+FFFF, in the same form
  Face         \* big and bold: name -> [adv, ink, top, table]

FONT_W == 6
FONT_INK_W == 7
FONT_H == 13
FONT_LAST == FONT_FIRST + Len(FONT) - 1

Sorted(table) == \A i, j \in DOMAIN table : i < j => table[i].cp < table[j].cp

ASSUME FontAssumption ==
  /\ \A i \in DOMAIN FONT : Len(FONT[i]) = FONT_H
  /\ \A t \in {FONT_EXTRA, EMOJI} :
       Sorted(t) /\ \A i \in DOMAIN t : Len(t[i].rows) = FONT_H
  /\ \A f \in DOMAIN Face : Sorted(Face[f].table)

uint16(n) == n % 65536
BitOf(v, i) == (v \div 2^i) % 2

-----------------------------------------------------------------------------
\* UTF-8.

\* The byte at i of a string; past its end is the terminator.
ByteAt(s, i) == IF i <= Len(s) THEN s[i] ELSE 0

\* How many continuation bytes a first byte asks for, and its own bits.
Lead(c) ==
  CASE c < 128       -> [extra |-> 0, cp |-> c]
    [] c \div 32 = 6  -> [extra |-> 1, cp |-> c % 32]
    [] c \div 16 = 14 -> [extra |-> 2, cp |-> c % 16]
    [] c \div 8 = 30  -> [extra |-> 3, cp |-> c % 8]
    [] OTHER         -> [extra |-> 0, cp |-> 65533]

IsContinuation(c) == c \div 64 = 2

\* Mutant: the bytes after the first are taken for continuation bytes unseen.
next_cp_trusting(s, i) ==
  LET lead == Lead(s[i])
      Take(acc, j) == 64 * acc + (ByteAt(s, i + j) % 64)
  IN  [cp |-> FoldLeft(Take, lead.cp, [j \in 1..lead.extra |-> j]),
       next |-> i + 1 + lead.extra]

\* One codepoint from position i.  A sequence that is cut short is U+FFFD, and
\* the byte that cut it is read again.
next_cp(s, i) ==
  LET lead == Lead(s[i])
      good == {n \in 0..lead.extra : \A j \in 1..n : IsContinuation(ByteAt(s, i + j))}
      n == CHOOSE k \in good : \A j \in good : j <= k
      Take(acc, j) == 64 * acc + (s[i + j] % 64)
  IN  [cp |-> IF n < lead.extra THEN 65533
              ELSE FoldLeft(Take, lead.cp, [j \in 1..n |-> j]),
       next |-> i + 1 + n]

\* What the drawing loops see of a string.
codepoints(s) ==
  LET from[i \in 1..Len(s) + 4] ==
        IF i > Len(s) THEN <<>> ELSE <<next_cp(s, i).cp>> \o from[next_cp(s, i).next]
  IN  from[1]

-----------------------------------------------------------------------------
\* Glyphs.

Missing == <<>>

\* The binary search of every face, between lo and hi, hi excluded.
search(table, cp) ==
  LET found[w \in (0..Len(table)) \X (0..Len(table))] ==
        LET mid == (w[1] + w[2]) \div 2
        IN  IF w[1] >= w[2] THEN Missing
            ELSE IF table[mid + 1].cp = cp THEN table[mid + 1].rows
            ELSE IF table[mid + 1].cp < cp THEN found[<<mid + 1, w[2]>>]
            ELSE found[<<w[1], mid>>]
  IN  found[<<0, Len(table)>>]

\* Braille is computed: four rows of two dots, each two pixels high.
braille_for(cp) ==
  LET n == cp - 10240
      lmask == <<0, 1, 2, 6>>
      rmask == <<3, 4, 5, 7>>
      ytop == <<1, 4, 7, 10>>
      bits(d) == 192 * BitOf(n, lmask[d]) + 24 * BitOf(n, rmask[d])
  IN  [row \in 1..FONT_H |->
         LET d == {e \in 1..4 : row - 1 \in ytop[e]..ytop[e] + 1}
         IN  IF d = {} THEN 0 ELSE bits(CHOOSE e \in d : TRUE)]

\* Joiners and variation selectors are there and blank.
zero_glyph == [row \in 1..FONT_H |-> 0]

glyph_for(cp) ==
  CASE cp \in FONT_FIRST..FONT_LAST -> FONT[cp - FONT_FIRST + 1]
    [] cp \in 10240..10495          -> braille_for(cp)
    [] cp \in {8205, 65038, 65039}  -> zero_glyph
    [] cp > 65535                   -> search(EMOJI, cp)
    [] OTHER                        -> search(FONT_EXTRA, cp)

MISSING_BOX == <<0, 0, 0, 0, 120, 72, 72, 72, 72, 72, 120, 0, 0>>

-----------------------------------------------------------------------------
\* Pixels.

\* The pixels of a glyph at <<x, y>>; top is the bit of the leftmost column.
GlyphPixels(rows, x, y, ink, top, scale) ==
  {<<uint16(x + d[2] * scale + d[3]), uint16(y + (d[1] - 1) * scale + d[4])>> :
     d \in {e \in (DOMAIN rows) \X (0..ink - 1) \X (0..scale - 1) \X (0..scale - 1) :
              BitOf(rows[e[1]], top - e[2]) = 1}}

\* Glyphs side by side: cell k begins adv further on than cell k - 1.
TextPixels(glyphs, x, y, adv, ink, top, scale) ==
  UNION {GlyphPixels(glyphs[k], uint16(x + (k - 1) * adv * scale), y, ink, top, scale) :
           k \in DOMAIN glyphs}

\* The box is drawn where there is no glyph; the other faces, and this one scaled,
\* draw nothing there.
draw_text(x, y, s) ==
  LET Shown(cp) == IF glyph_for(cp) = Missing THEN MISSING_BOX ELSE glyph_for(cp)
      cps == codepoints(s)
  IN  TextPixels([k \in DOMAIN cps |-> Shown(cps[k])], x, y, FONT_W, FONT_INK_W, 7, 1)

draw_text_scaled(x, y, s, scale) ==
  LET cps == codepoints(s)
  IN  IF scale <= 1 THEN draw_text(x, y, s)
      ELSE TextPixels([k \in DOMAIN cps |-> glyph_for(cps[k])], x, y,
                      FONT_W, FONT_INK_W, 7, scale)

draw_text_big(x, y, s) ==
  LET cps == codepoints(s)
  IN  TextPixels([k \in DOMAIN cps |-> search(Face.big.table, cps[k])], x, y,
                 Face.big.adv, Face.big.ink, Face.big.top, 1)

bold_glyph(cp, face) == search(Face[face].table, cp)

draw_text_bold(x, y, s, face) ==
  LET cps == codepoints(s)
  IN  TextPixels([k \in DOMAIN cps |-> bold_glyph(cps[k], face)], x, y,
                 Face[face].adv, Face[face].ink, Face[face].top, 1)

\* A uint16_t counter from a while it is below a + n, a sum that does not wrap: a
\* counter that passes 65535 begins again at 0 and the loop never ends.
Ends(a, n) == a + n <= 65535
Counted(a, n) == IF Ends(a, n) THEN a..a + n - 1 ELSE 0..65535

\* A row without end keeps the rows after it from being drawn.
fill_rect(x, y, w, h) ==
  Counted(x, w) \X (IF Ends(x, w) \/ h = 0 THEN Counted(y, h) ELSE {y})

draw_hline(x, y, w) == Counted(x, w) \X {y}

BAYER4 == <<8, 136, 40, 168, 200, 72, 232, 104, 56, 184, 24, 152, 248, 120, 216, 88>>

dither_on(x, y, level) == level <= BAYER4[(y % 4) * 4 + (x % 4) + 1]

\* Positioned in absolute coordinates, and clipped here already, so that the
\* counters do not come near their limit.
fill_dither(x, y, w, h, level) ==
  IF level >= 249 THEN {}
  ELSE {xy \in (x..x + w - 1) \X (y..y + h - 1) :
          xy[1] < LCD_WIDTH /\ xy[2] < LCD_HEIGHT /\ dither_on(xy[1], xy[2], level)}
=============================================================================
