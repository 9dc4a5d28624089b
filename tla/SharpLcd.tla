------------------------------ MODULE SharpLcd ------------------------------
(***************************************************************************)
(* The memory LCD: the SharpLcd driver with its framebuffer and dirty      *)
(* lines, and the panel at the other end of the wire as VirtualPanel       *)
(* decodes it, byte by byte.  Each operation of the driver is one action:  *)
(* everything runs on one thread.                                          *)
(*                                                                         *)
(* Every drawing operation sets pixels to one colour; Drawing says which.  *)
(***************************************************************************)
EXTENDS Drawing, FiniteSets

CONSTANTS
  LCD_LINE_BYTES,  \* 50
  Calls,           \* the drawing calls: [op, x, y, black] and the op's own fields
  MaxDraws         \* bound: drawing calls since the framebuffer was whitened

LCD_M0_WRITE == 128
LCD_M1_VCOM == 64
LCD_M2_CLEAR == 32
TX_MAX == 1 + LCD_HEIGHT * (1 + LCD_LINE_BYTES + 1) + 1

Byte == 0..255
UInt16 == 0..256 * 256 - 1
Lines == 0..LCD_HEIGHT - 1
Line == [1..LCD_LINE_BYTES -> Byte]
Image == [Lines -> Line]
White == [y \in Lines |-> [i \in 1..LCD_LINE_BYTES |-> 255]]
Black == [y \in Lines |-> [i \in 1..LCD_LINE_BYTES |-> 0]]

\* A call that returns: see Ends.  The texts' and the dither's loops always do.
Returns(c) ==
  /\ c.op \in {"fill_rect", "draw_hline"} => c.w \in UInt16 /\ Ends(c.x, c.w)
  /\ c.op = "fill_rect" => c.h \in UInt16 /\ Ends(c.y, c.h)

ASSUME LcdAssumption ==
  /\ LCD_LINE_BYTES \in Nat \ {0}
  /\ MaxDraws \in Nat
  /\ LCD_WIDTH = 8 * LCD_LINE_BYTES
  /\ LCD_HEIGHT \in 1..255
  /\ \A c \in Calls : /\ c.x \in UInt16 /\ c.y \in UInt16 /\ c.black \in BOOLEAN
                      /\ c.op = "fill_dither" => c.black /\ c.level \in Byte
                      /\ c.op = "fill_dither" => c.w \in UInt16 /\ c.h \in UInt16
                      /\ Returns(c)

VARIABLES
  fb,          \* _fb
  dirty,       \* _dirty, as the set of dirty lines
  vcom,        \* _vcom
  img,         \* the panel's image
  panel_vcom,  \* the panel's polarity
  primed,      \* the caller has called fill_white() or clear() once
  draws        \* history: drawing calls since then, for the bound

vars == <<fb, dirty, vcom, img, panel_vcom, primed, draws>>

\* The framebuffer is a static array; the panel powers up white.
Init ==
  /\ fb = Black
  /\ dirty = {}
  /\ vcom = FALSE
  /\ img = White
  /\ panel_vcom = FALSE
  /\ primed = FALSE
  /\ draws = 0

-----------------------------------------------------------------------------
(* Bits.                                                                   *)

\* The bit of v that a mask of one bit selects.
Bit(v, mask) == (v \div mask) % 2

reverse_bits(v) ==
  128 * Bit(v, 1) + 64 * Bit(v, 2) + 32 * Bit(v, 4) + 16 * Bit(v, 8)
    + 8 * Bit(v, 16) + 4 * Bit(v, 32) + 2 * Bit(v, 64) + Bit(v, 128)

\* Line number to gate address: an 8-bit value sent low bit first.
line_address(line) == reverse_bits(line % 256)

\* A pixel's bit is cleared for black, set for white.
Inked(black) == IF black THEN 0 ELSE 1

\* The pixels each call sets.
Pixels(c) ==
  CASE c.op = "draw_text"      -> draw_text_scaled(c.x, c.y, c.s, c.scale)
    [] c.op = "draw_text_big"  -> draw_text_big(c.x, c.y, c.s)
    [] c.op = "draw_text_bold" -> draw_text_bold(c.x, c.y, c.s, c.face)
    [] c.op = "fill_rect"      -> fill_rect(c.x, c.y, c.w, c.h)
    [] c.op = "draw_hline"     -> draw_hline(c.x, c.y, c.w)
    [] c.op = "fill_dither"    -> fill_dither(c.x, c.y, c.w, c.h, c.level)

PixelsOf == [c \in Calls |-> Pixels(c)]

\* The leftmost pixel of a byte is its highest bit.
PixelMask == <<128, 64, 32, 16, 8, 4, 2, 1>>

\* One of the pixels px is pixel k of byte i of line y.
Lands(px, y, i, k) == <<8 * (i - 1) + k, y>> \in px

\* set_pixel over the pixels px; those off the panel are ignored.
AfterDrawing(px, black) ==
  LET touched == {xy[2] : xy \in px}
      After(y, i) ==
        LET b(k) == IF Lands(px, y, i, k) THEN Inked(black)
                    ELSE Bit(fb[y][i], PixelMask[k + 1])
        IN  128 * b(0) + 64 * b(1) + 32 * b(2) + 16 * b(3) + 8 * b(4) + 4 * b(5)
              + 2 * b(6) + b(7)
  IN  [y \in Lines |-> IF y \in touched THEN [i \in 1..LCD_LINE_BYTES |-> After(y, i)]
                       ELSE fb[y]]

\* The code's pixels, looked at the way get_pixel and VirtualPanel::pixel do.
PixelIsBlack(image, x, y) ==
  x < LCD_WIDTH /\ y < LCD_HEIGHT /\ Bit(image[y][(x \div 8) + 1], PixelMask[(x % 8) + 1]) = 0

-----------------------------------------------------------------------------
(* The panel: VirtualPanel::select, write and apply_transaction.           *)

\* The lines of a data update: at i the address, then the bytes, then a gap.
UpdateLines(tx) ==
  LET At(n) == 2 + n * (LCD_LINE_BYTES + 2)
      n_lines == {n \in 0..LCD_HEIGHT : Len(tx) - (At(n) - 1) > 1 + LCD_LINE_BYTES}
  IN  {[line |-> reverse_bits(tx[At(n)]),
        data |-> [b \in 1..LCD_LINE_BYTES |-> tx[At(n) + b]]] : n \in n_lines}

apply_transaction(tx) ==
  LET mode == tx[1]
  IN  /\ panel_vcom' = (Bit(mode, LCD_M1_VCOM) = 1)
      /\ img' = IF Bit(mode, LCD_M2_CLEAR) = 1 THEN White
                ELSE IF Bit(mode, LCD_M0_WRITE) = 0 THEN img
                ELSE [y \in Lines |->
                       LET new == {u \in UpdateLines(tx) : u.line = y + 1}
                       IN  IF new = {} THEN img[y] ELSE (CHOOSE u \in new : TRUE).data]

\* select(true), the writes, select(false): the panel drops what passes TX_MAX.
Transaction(bytes) ==
  LET tx == SubSeq(bytes, 1, IF Len(bytes) < TX_MAX THEN Len(bytes) ELSE TX_MAX)
  IN  apply_transaction(tx)

-----------------------------------------------------------------------------
(* The driver.                                                             *)

VcomBit(on) == IF on THEN LCD_M1_VCOM ELSE 0

fill_white ==
  /\ fb' = White
  /\ dirty' = Lines
  /\ primed' = TRUE
  /\ draws' = 0
  /\ UNCHANGED <<vcom, img, panel_vcom>>

\* Mutant: only lines that turn black count as changed.
DrawDarkerOnly(c) ==
  /\ primed
  /\ draws < MaxDraws
  /\ fb' = AfterDrawing(PixelsOf[c], c.black)
  /\ dirty' = dirty \cup {y \in Lines : \E i \in 1..LCD_LINE_BYTES : fb'[y][i] < fb[y][i]}
  /\ UNCHANGED <<vcom, img, panel_vcom, primed>>
  /\ draws' = draws + 1

\* set_pixel marks a line only if its byte changes, so a call that draws what is
\* there already marks none.
Draw(c) ==
  /\ primed
  /\ draws < MaxDraws
  /\ fb' = AfterDrawing(PixelsOf[c], c.black)
  /\ dirty' = dirty \cup {y \in Lines : fb'[y] # fb[y]}
  /\ UNCHANGED <<vcom, img, panel_vcom, primed>>
  /\ draws' = draws + 1

\* The n-th dirty line is the one with n - 1 before it.
DirtyInOrder ==
  [n \in 1..Cardinality(dirty) |->
     CHOOSE y \in dirty : Cardinality({l \in dirty : l < y}) = n - 1]

\* A line on the wire: its address, its bytes, a gap.
LineBytes(y) ==
  [i \in 1..LCD_LINE_BYTES + 2 |-> IF i = 1 THEN line_address(y + 1)
                                   ELSE IF i = LCD_LINE_BYTES + 2 THEN 0
                                   ELSE fb[y][i - 1]]

\* The mode, the dirty lines one after the other, a trailer.
UpdateBytes(mode) ==
  LET each == LCD_LINE_BYTES + 2
      size == Cardinality(dirty) * each
  IN  [i \in 1..size + 2 |-> IF i = 1 THEN mode
                             ELSE IF i = size + 2 THEN 0
                             ELSE LineBytes(DirtyInOrder[((i - 2) \div each) + 1])
                                    [((i - 2) % each) + 1]]

\* Mutant: the VCOM flag does not ride along on a data update.
FlushBytesNoVcom == UpdateBytes(LCD_M0_WRITE)

FlushBytes == UpdateBytes(LCD_M0_WRITE + VcomBit(vcom))

\* Mutant: one line for each call.
flush_one ==
  /\ primed
  /\ dirty # {}
  /\ LET y == CHOOSE l \in dirty : \A m \in dirty : l <= m
     IN  /\ Transaction(<<LCD_M0_WRITE + VcomBit(vcom)>> \o LineBytes(y) \o <<0>>)
         /\ dirty' = dirty \ {y}
  /\ UNCHANGED <<fb, vcom, primed, draws>>

flush ==
  /\ primed
  /\ dirty # {}
  /\ Transaction(FlushBytes)
  /\ dirty' = {}
  /\ UNCHANGED <<fb, vcom, primed, draws>>

toggle_vcom ==
  /\ vcom' = ~vcom
  /\ Transaction(<<VcomBit(~vcom), 0>>)
  /\ UNCHANGED <<fb, dirty, primed, draws>>

clear ==
  /\ Transaction(<<LCD_M2_CLEAR + VcomBit(vcom), 0>>)
  /\ fb' = White
  /\ dirty' = {}
  /\ primed' = TRUE
  /\ draws' = 0
  /\ UNCHANGED vcom

Next ==
  \/ fill_white
  \/ \E c \in Calls : Draw(c)
  \/ flush
  \/ toggle_vcom
  \/ clear

Spec == Init /\ [][Next]_vars

-----------------------------------------------------------------------------
(* A line that is not dirty is on the panel as it is in the framebuffer:   *)
(* no order of drawing, flushing, clearing and VCOM toggling leaves a line *)
(* stale that flush() would not send.                                      *)
CleanLinesAgree == primed => \A y \in Lines \ dirty : img[y] = fb[y]

(* The panel and the driver agree on the polarity: every transaction       *)
(* carries the flag, so data updates neither undo nor repeat an inversion. *)
VcomAgrees == panel_vcom = vcom

(* A pixel drawn is on the panel after the next flush, at the same place   *)
(* and in the same colour: what the driver's bit order, line addresses and *)
(* framing put on the wire, the panel's decoding takes back off it.        *)
Scr == INSTANCE Screen WITH Images <- Image, White <- White,
                            drawn <- fb, shown <- img, polarity <- panel_vcom
ImplementsScreen == Scr!Spec

(* SharpLcd.h promises cells side by side, drawn from the face asked for,  *)
(* and pixels off the panel "ignored, not wrapped".  After any call, the   *)
(* panel's pixels are those the call's text and shape ask for, in its      *)
(* colour, and all others keep theirs.  What is asked for is said without  *)
(* the code's decoding, searching and shifting: a call's text is the       *)
(* sequence cps of the characters it was spelled from, a glyph the one     *)
(* entry of its table, and U+FFFD what cannot be read.                     *)
(*                                                                         *)
(* For a character a face has no glyph for the source contradicts itself,  *)
(* and the property says what draw_text does: the body face, unscaled,     *)
(* draws the box that SharpLcd.cpp:135-138 wants "instead of a silent      *)
(* hole", though SharpLcd.h:74-76 says "the hole is silent" and            *)
(* MicronRender.cpp:213-215 that it "draws blank".  The other faces do     *)
(* leave a hole, and advance: not what SharpLcd.h:69-71 says of the big    *)
(* face (it "returns 0 so the caller can fall back") and SharpLcd.h:85-87  *)
(* of the bold ones ("returns false").                                     *)
Entry(table, cp) ==
  LET e == {i \in DOMAIN table : table[i].cp = cp}
  IN  IF e = {} THEN Missing ELSE table[CHOOSE i \in e : TRUE].rows

BodyInk(cp, col, row) ==
  IF cp \in 10240..10495
  THEN LET dots == [d \in {<<0, 0>>, <<0, 1>>, <<0, 2>>, <<1, 0>>, <<1, 1>>, <<1, 2>>,
                            <<0, 3>>, <<1, 3>>} |->
                      IF d[2] = 3 THEN 6 + d[1] ELSE 3 * d[1] + d[2]]
       IN  \E d \in DOMAIN dots : /\ BitOf(cp, dots[d]) = 1
                                 /\ col \in 3 * d[1]..3 * d[1] + 1
                                 /\ row \in 3 * d[2] + 1..3 * d[2] + 2
  ELSE LET rows == IF cp \in FONT_FIRST..FONT_LAST THEN FONT[cp - FONT_FIRST + 1]
                   ELSE Entry(FONT_EXTRA \o EMOJI, cp)
       IN  /\ rows # Missing /\ row < FONT_H /\ col < FONT_INK_W
           /\ BitOf(rows[row + 1], 7 - col) = 1

BoxInk(cp, col, row) ==
  /\ cp \notin FONT_FIRST..FONT_LAST \cup 10240..10495 \cup {8205, 65038, 65039}
  /\ Entry(FONT_EXTRA \o EMOJI, cp) = Missing
  /\ \/ col \in {1, 4} /\ row \in 4..10
     \/ col \in 1..4 /\ row \in {4, 10}

FaceInk(face, cp, col, row) ==
  LET f == Face[face]
      rows == Entry(f.table, cp)
  IN  row + 1 \in DOMAIN rows /\ col < f.ink /\ BitOf(rows[row + 1], f.top - col) = 1

AskedFor(c, x, y) ==
  LET Cell(k, adv) == x - (c.x + (k - 1) * adv)
      InRect(w, h) == x \in c.x..c.x + w - 1 /\ y \in c.y..c.y + h - 1
  IN  CASE c.op = "draw_text" ->
             \E k \in DOMAIN c.cps :
               /\ Cell(k, 6 * c.scale) >= 0 /\ y >= c.y
               /\ LET col == Cell(k, 6 * c.scale) \div c.scale
                      row == (y - c.y) \div c.scale
                  IN  \/ BodyInk(c.cps[k], col, row)
                      \/ c.scale = 1 /\ BoxInk(c.cps[k], col, row)
        [] c.op \in {"draw_text_big", "draw_text_bold"} ->
             LET face == IF c.op = "draw_text_big" THEN "big" ELSE c.face
             IN  \E k \in DOMAIN c.cps :
                   /\ Cell(k, Face[face].adv) >= 0 /\ y >= c.y
                   /\ FaceInk(face, c.cps[k], Cell(k, Face[face].adv), y - c.y)
        [] c.op = "fill_rect" -> InRect(c.w, c.h)
        [] c.op = "draw_hline" -> InRect(c.w, 1)
        [] c.op = "fill_dither" -> InRect(c.w, c.h) /\ c.level < 249 /\ dither_on(x, y, c.level)

Asked == [c \in Calls |->
  {xy \in (0..LCD_WIDTH - 1) \X Lines : AskedFor(c, xy[1], xy[2])}]

DrawsWhatIsAskedFor ==
  [][\A c \in Calls : Draw(c) =>
       \A x \in 0..LCD_WIDTH - 1, y \in Lines :
         PixelIsBlack(fb', x, y) =
           IF <<x, y>> \in Asked[c] THEN c.black ELSE PixelIsBlack(fb, x, y)]_vars
=============================================================================
