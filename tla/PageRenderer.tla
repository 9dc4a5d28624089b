---------------------------- MODULE PageRenderer ----------------------------
(***************************************************************************)
(* MicronRender: a page laid out on the panel, one parser callback at a    *)
(* time, with no layout tree.  The page is re-flowed for every frame and   *)
(* only the rows inside the scroll window are drawn, so what holds the     *)
(* frames together is that every pass lays the page out alike.  The model  *)
(* runs the passes for several scroll offsets side by side over one page.  *)
(*                                                                         *)
(* Text is cells: a run is a sequence of words with the spaces in front of *)
(* them, a table cell a sequence of marks and blanks.  Colours, bold and   *)
(* underline change no position and are left out.  The parser is external: *)
(* its callbacks come in any order a line of Micron can give.              *)
(***************************************************************************)
EXTENDS Integers, Sequences, FiniteSets, SequencesExt

CONSTANTS
  LCD_WIDTH, LCD_HEIGHT,
  MARGIN_X,      \* 2
  INDENT_PX,     \* 12
  MAX_DEPTH,     \* 4
  FONT_ADVANCE,  \* 6
  LineH,         \* line_h(): 13 and the leading
  HeadW, HeadH,  \* per heading face 1, 2, 3: its advance, its height and leading
  MAX_LINKS,     \* 48
  T_ROWS, T_COLS, T_BYTES,  \* 16, 6, 1024
  Scrolls,       \* the scroll offsets of the passes compared
  Styles,        \* line styles: depth, heading, align, literal
  Runs,          \* text runs: sequences of [lead, word]
  Labels,        \* the runs that label a box, an image or a partial
  Widths,        \* the widths of text fields
  Rows,          \* table rows: sequences of cells
  MaxEvents      \* bound: callbacks in a pass

PARA_GAP == 4
HEAD_GAP_BIG == 9
GAP == 1
MaxLines == 32
Word16 == 65536

ASSUME PageAssumption ==
  /\ {LCD_WIDTH, LCD_HEIGHT, MARGIN_X, INDENT_PX, MAX_DEPTH, FONT_ADVANCE, LineH} \subseteq Nat
  /\ {MAX_LINKS, T_ROWS, T_COLS, T_BYTES, MaxEvents} \subseteq Nat
  /\ HeadW \in [1..3 -> Nat] /\ HeadH \in [1..3 -> Nat]
  /\ MARGIN_X + MAX_DEPTH * INDENT_PX + FONT_ADVANCE <= LCD_WIDTH - MARGIN_X
  /\ Scrolls \subseteq Nat
  /\ \A run \in Runs \cup Labels : run \in Seq([lead : Nat, word : Nat])

VARIABLES
  view,    \* per scroll offset: the renderer's state and what it drew
  line,    \* the parser: "start", "in" or "full" of a line, in a "table", or "eof"
  style,   \* the style of the line
  events,  \* history: callbacks in this pass
  given    \* history: marks given to the renderer in this pass

vars == <<view, line, style, events, given>>

\* A fresh renderer.  ink is the set of rectangles drawn, in page coordinates;
\* led, cut, wide and the cells' kind are history; cut also stands for
\* _table_overflowed, and wide is the row of the first table that is wider than
\* the panel at two cells a column.
Blank == [x |-> 0, y |-> 0, open |-> FALSE, depth |-> 0, head |-> 0, row_h |-> 0,
          literal |-> FALSE, blank_pending |-> TRUE,
          links |-> <<>>, links_overflowed |-> FALSE,
          table |-> <<>>, tlen |-> 0,
          ink |-> {}, led |-> FALSE, cut |-> FALSE, wide |-> Word16]

Plain == [depth |-> 0, heading |-> FALSE, align |-> "left", literal |-> FALSE]

Init ==
  /\ view = [s \in Scrolls |-> Blank]
  /\ line = "start"
  /\ style = Plain
  /\ events = 0
  /\ given = 0

-----------------------------------------------------------------------------
(* The pen.                                                                *)

Least(a, b) == IF a < b THEN a ELSE b
Right == LCD_WIDTH - MARGIN_X
left_edge(v) == MARGIN_X + Least(v.depth, MAX_DEPTH) * INDENT_PX
row_h(v) == IF v.row_h = 0 THEN LineH ELSE v.row_h
advance(v) == IF v.head = 0 THEN FONT_ADVANCE ELSE HeadW[v.head]
row_visible(v, s) == v.y >= s /\ v.y < s + LCD_HEIGHT

\* Draw a rectangle at the pen if its row is in the window.
Ink(v, s, w, kind) ==
  IF row_visible(v, s)
  THEN [v EXCEPT !.ink = @ \cup {[x |-> v.x, y |-> v.y, w |-> w, h |-> row_h(v),
                                  kind |-> IF v.led /\ kind = "glyph" THEN "led" ELSE kind]}]
  ELSE v

Step(v, w) == [v EXCEPT !.x = @ + w, !.open = TRUE]

newline(v) ==
  [v EXCEPT !.y = (@ + row_h(v)) % Word16, !.x = left_edge(v), !.open = FALSE, !.led = FALSE]

ToLeft(v) == IF v.open THEN v ELSE [v EXCEPT !.x = left_edge(v)]

wrap_if_needed(v, w) ==
  IF v.x > left_edge(v) /\ v.x + w > Right THEN newline(v) ELSE v

\* n glyphs from the pen on.
Glyphs(v, s, n) ==
  LET f[k \in 0..n] == IF k = 0 THEN v
                       ELSE Step(Ink(f[k - 1], s, advance(v), "glyph"), advance(v))
  IN  f[n]

\* A word too long for a row, with the spaces before it, broken at the margin.
BreakWord(v, s, t) ==
  LET f[k \in 0..t.lead + t.word] ==
        IF k = 0 THEN v
        ELSE LET w == wrap_if_needed(f[k - 1], advance(v))
             IN  Step(IF k <= t.lead THEN w ELSE Ink(w, s, advance(v), "glyph"), advance(v))
  IN  f[t.lead + t.word]

\* Mutant: a long word is not broken.
EmitWord_whole(v, s, t) ==
  LET lead == t.lead * advance(v)
      width == t.word * advance(v)
  IN  Glyphs(IF v.x + lead + width > Right /\ v.x > left_edge(v) THEN newline(v)
             ELSE IF lead > 0 THEN [Step(v, lead) EXCEPT !.led = @ \/ v.x <= left_edge(v)]
             ELSE v, s, t.word)

\* One word of emit_run: broken, or moved to the next row, or set after its
\* spaces.  Spaces at the left edge are kept whatever follows them.
EmitWord(v, s, t) ==
  LET lead == t.lead * advance(v)
      width == t.word * advance(v)
  IN  IF width > LCD_WIDTH - 2 * MARGIN_X - (left_edge(v) - MARGIN_X)
      THEN BreakWord(v, s, t)
      ELSE Glyphs(IF v.x + lead + width > Right /\ v.x > left_edge(v) THEN newline(v)
                  ELSE IF lead > 0 THEN [Step(v, lead) EXCEPT !.led = @ \/ v.x <= left_edge(v)]
                  ELSE v, s, t.word)

CellsOf(run) == FoldLeft(LAMBDA n, t : n + t.lead + t.word, 0, run)
MarksOf(run) == FoldLeft(LAMBDA n, t : n + t.word, 0, run)

\* The mark that says a literal line goes on replaces what is under it.
ClipMark(v, s) ==
  LET cell == [x |-> Right - FONT_ADVANCE, y |-> v.y, w |-> FONT_ADVANCE, h |-> row_h(v),
               kind |-> "mark"]
  IN  [v EXCEPT !.open = TRUE, !.cut = TRUE,
                !.ink = IF row_visible(v, s)
                        THEN {c \in @ : c.y # v.y \/ c.x + c.w <= cell.x} \cup {cell}
                        ELSE @]

\* emit_literal: words as they stand, up to the margin.
EmitLiteral(v, s, run) ==
  LET room == IF ToLeft(v).x > Right THEN 0 ELSE (Right - ToLeft(v).x) \div FONT_ADVANCE
      put(n) == FoldLeft(
        LAMBDA a, t :
          LET lead == Least(t.lead, a.left)
              word == Least(t.word, a.left - lead)
              led == IF lead > 0 THEN Step(a.v, lead * FONT_ADVANCE) ELSE a.v
          IN  [v |-> Glyphs([led EXCEPT !.head = 0], s, word), left |-> a.left - lead - word],
        [v |-> ToLeft(v), left |-> n], run).v
      set == [put(Least(CellsOf(run), room)) EXCEPT !.head = v.head]
  IN  IF CellsOf(run) > room THEN ClipMark(set, s) ELSE set

\* A pen left of the edge is pulled to it; one right of it is alignment.
emit_run(v, s, run) ==
  IF v.literal THEN EmitLiteral(v, s, run)
  ELSE FoldLeft(LAMBDA w, t : EmitWord(w, s, t),
                IF ~v.open /\ v.x < left_edge(v) THEN [v EXCEPT !.x = left_edge(v)] ELSE v,
                run)

-----------------------------------------------------------------------------
(* Tables: collected, then fitted to the panel and drawn.                  *)

\* The end of the slice of p that starts after at, in a column of w cells: back
\* to a blank if that leaves two thirds of the line.
SliceEnd(p, at, w) ==
  LET e == Least(at + w, Len(p))
      blanks == {b \in at + 1..e : p[b] = " "}
      brk == CHOOSE b \in blanks : \A a \in blanks : a <= b
  IN  IF e < Len(p) /\ p[e + 1] # " " /\ blanks # {} /\ (brk - at) * 3 >= (e - at) * 2
      THEN brk ELSE e

SkipBlanks(p, at) ==
  CHOOSE j \in at..Len(p) : /\ j = Len(p) \/ p[j + 1] # " "
                           /\ \A i \in at + 1..j : p[i] = " "

\* Where line n of the cell p starts.
SliceStart(p, w, n) ==
  LET f[k \in 0..n] == IF k = 0 THEN 0
                       ELSE IF f[k - 1] >= Len(p) THEN f[k - 1]
                       ELSE SkipBlanks(p, SliceEnd(p, f[k - 1], w))
  IN  f[n]

\* Mutant: the lines a plain division predicts.
LinesOf_divide(p, w) == IF w = 0 THEN 0 ELSE Least(MaxLines, (Len(p) + w - 1) \div w)

\* Lines a cell needs, up to 32.
LinesOf(p, w) ==
  Cardinality({n \in 0..Least(MaxLines, Len(p)) - 1 : SliceStart(p, w, n) < Len(p)})

\* The words of a slice.
WordsOf(p) ==
  LET starts == {i \in DOMAIN p : i = 1 \/ (p[i] = " " /\ p[i - 1] # " ")}
      at == SetToSortSeq(starts, <)
      end(k) == IF k = Len(at) THEN Len(p) ELSE at[k + 1] - 1
      lead(k) == Cardinality({i \in at[k]..end(k) : p[i] = " "})
  IN  [k \in 1..Len(at) |-> [lead |-> lead(k), word |-> end(k) - at[k] + 1 - lead(k)]]

Total(w) == FoldLeft(+, 0, w)
Widest(w) == CHOOSE c \in DOMAIN w : \A d \in DOMAIN w : w[d] < w[c] \/ (w[d] = w[c] /\ c <= d)

\* Columns no wider than half the panel, scaled down if they do not fit, with a
\* floor of two cells and what rounding left over given to the widest.
FitColumns(natural, avail) ==
  LET capped == [c \in DOMAIN natural |-> Least(natural[c], avail \div 2)]
      room == avail - Len(natural) * GAP
      scaled == [c \in DOMAIN natural |->
                   LET w == (capped[c] * room) \div Total(capped) IN IF w < 2 THEN 2 ELSE w]
  IN  IF Total(capped) + Len(natural) * GAP <= avail \/ Total(capped) = 0 THEN capped
      ELSE IF Total(scaled) < room
      THEN [scaled EXCEPT ![Widest(scaled)] = @ + room - Total(scaled)]
      ELSE scaled

\* Where each column starts.
ColumnX(v, w, c) == left_edge(v) + (Total(SubSeq(w, 1, c - 1)) + (c - 1) * GAP) * FONT_ADVANCE

\* One line of a row in the window: each cell's slice, then the gutters' rules.
DrawLine(v, s, row, w, n) ==
  LET cell(u, c) ==
        LET p == row[c]
            from == SliceStart(p, w[c], n)
            to == SliceEnd(p, from, w[c])
        IN  IF c > Len(row) \/ from >= to THEN u
            ELSE emit_run([u EXCEPT !.x = ColumnX(v, w, c), !.open = TRUE], s,
                          WordsOf(SubSeq(p, from + 1, to)))
      rule(u, c) == Ink([u EXCEPT !.x = ColumnX(v, w, c) - (GAP * FONT_ADVANCE) \div 2 - 1],
                        s, 1, "rule")
      cells == FoldLeft(cell, v, [c \in 1..Len(w) |-> c])
  IN  FoldLeft(rule, cells, [c \in 1..Len(w) - 1 |-> c + 1])

\* Mutant: a line that is not in the window takes no height.
TableLine_hidden(v, s, row, w, n) ==
  IF row_visible(v, s)
  THEN [DrawLine(v, s, row, w, n) EXCEPT !.y = (@ + LineH) % Word16, !.x = left_edge(v),
                                         !.open = FALSE, !.led = FALSE]
  ELSE v

TableLine(v, s, row, w, n) ==
  LET u == IF row_visible(v, s) THEN DrawLine(v, s, row, w, n) ELSE v
  IN  [u EXCEPT !.y = (@ + LineH) % Word16, !.x = left_edge(v), !.open = FALSE, !.led = FALSE]

TableRow(v, s, row, w) ==
  LET need == {LinesOf(row[c], w[c]) : c \in DOMAIN row} \cup {1}
      lines == CHOOSE n \in need : \A m \in need : m <= n
  IN  FoldLeft(LAMBDA u, n : TableLine(u, s, row, w, n - 1), v, [n \in 1..lines |-> n])

table_flush(v, s) ==
  LET columns == LET n == {Len(v.table[r]) : r \in DOMAIN v.table}
                 IN  CHOOSE k \in n : \A j \in n : j <= k
      widths(c) == {Len(v.table[r][c]) : r \in {q \in DOMAIN v.table : c <= Len(v.table[q])}}
      natural == [c \in 1..columns |-> CHOOSE k \in widths(c) : \A j \in widths(c) : j <= k]
      avail == (Right - left_edge(v)) \div FONT_ADVANCE
      w == FitColumns(natural, avail)
      noted == IF Total(w) + (columns - 1) * GAP > avail THEN [v EXCEPT !.wide = Least(@, v.y)] ELSE v
      drawn == FoldLeft(LAMBDA u, row : TableRow(u, s, row, w), noted, v.table)
  IN  IF v.table = <<>> THEN v ELSE [drawn EXCEPT !.y = (@ + PARA_GAP) % Word16]

\* A cell is kept up to 255 bytes and to the end of the buffer.
StoreCell(a, cell) ==
  LET n == Least(Least(Len(cell), 255), T_BYTES - a.tlen)
  IN  [cells |-> Append(a.cells, SubSeq(cell, 1, n)), tlen |-> a.tlen + n,
       over |-> a.over \/ n < Least(Len(cell), 255)]

-----------------------------------------------------------------------------
(* The callbacks, for the pass at scroll offset s.                         *)

\* The face a heading of this depth asks for.
Face(depth) == IF depth <= 1 THEN 1 ELSE IF depth = 2 THEN 2 ELSE 3

\* onText: all says that the face has every codepoint of the run.  The width an
\* aligned run is placed by is taken before the heading's face is.
onText(v, s, st, run, all) ==
  LET d == ToLeft([v EXCEPT !.depth = st.depth, !.blank_pending = FALSE,
                            !.literal = st.literal])
      width == CellsOf(run) * advance(d)
      avail == Right - left_edge(d)
      at == IF st.align = "centre" THEN left_edge(d) + (avail - width) \div 2
            ELSE Right - width
      placed == IF ~d.open /\ st.align # "left" /\ width <= avail
                THEN [d EXCEPT !.x = at] ELSE d
      faced == IF st.heading /\ ~d.open /\ all /\ run # <<>>
               THEN [placed EXCEPT !.head = Face(st.depth), !.row_h = HeadH[Face(st.depth)]]
               ELSE placed
  IN  emit_run(faced, s, run)

\* Record the box of a link that began at the pen of d and ended at that of e.
\* label, page_y and end_y are history: what was drawn, and on which rows.
BoxLink(d, e, s, y0) ==
  LET box == [x |-> d.x, y |-> y0, w |-> IF e.x > d.x THEN e.x - d.x ELSE 0, h |-> row_h(e),
              label |-> e.ink \ d.ink, page_y |-> d.y, end_y |-> e.y]
  IN  IF ~row_visible(e, s) THEN e
      ELSE IF Len(e.links) < MAX_LINKS THEN [e EXCEPT !.links = Append(@, box)]
      ELSE [e EXCEPT !.links_overflowed = TRUE]

\* Mutant: the box is kept in page coordinates.
onLink_page(v, s, st, run) ==
  LET d == ToLeft([v EXCEPT !.depth = st.depth])
  IN  BoxLink(d, emit_run(d, s, run), s, d.y)

onLink(v, s, st, run) ==
  LET d == ToLeft([v EXCEPT !.depth = st.depth])
  IN  BoxLink(d, emit_run(d, s, run), s, (d.y - s) % Word16)

onDivider(v, s, st) ==
  LET d == ToLeft([v EXCEPT !.depth = st.depth])
      n == (Right - left_edge(d)) \div FONT_ADVANCE
      drawn == Ink([d EXCEPT !.x = left_edge(d)], s, n * FONT_ADVANCE, "divider")
  IN  [drawn EXCEPT !.x = d.x, !.open = TRUE]

\* A text field of width cells: cut at the margin.  bar is its background.
onTextField(v, s, st, width) ==
  LET d == ToLeft([v EXCEPT !.depth = st.depth])
      bar == IF d.x + width * FONT_ADVANCE <= Right THEN width * FONT_ADVANCE
             ELSE (Right - d.x) % Word16
      n == IF d.x > Right THEN 0 ELSE Least(width, (Right - d.x) \div FONT_ADVANCE)
      f[k \in 0..n] == IF k = 0 THEN Ink(d, s, bar, "bar")
                       ELSE Step(Ink(f[k - 1], s, FONT_ADVANCE, "slot"), FONT_ADVANCE)
  IN  f[n]

\* A checkbox or a radio button, then a space and its label.
onBox(v, s, st, label) ==
  LET d == ToLeft([v EXCEPT !.depth = st.depth])
      box == Step(Ink(d, s, FONT_ADVANCE, "box"), FONT_ADVANCE)
  IN  IF label = <<>> THEN box
      ELSE emit_run(emit_run(box, s, <<[lead |-> 1, word |-> 0]>>), s, label)

\* onImage, onPartial: a marker that does not restart the pen, then the text.
onImage(v, s, st, alt) ==
  emit_run(emit_run([v EXCEPT !.depth = st.depth], s,
                    <<[lead |-> 0, word |-> 5], [lead |-> 1, word |-> 0]>>), s, alt)

onPartial(v, s, st, url) ==
  onLink(emit_run([v EXCEPT !.depth = st.depth], s,
                  <<[lead |-> 0, word |-> 3], [lead |-> 1, word |-> 0]>>), s, st, url)

\* Mutant: the row's height is forgotten before it is used.
onLineEnd_early(v, st) ==
  LET e == [newline([v EXCEPT !.depth = st.depth, !.row_h = 0]) EXCEPT !.head = 0]
  IN  IF st.heading
      THEN [e EXCEPT !.y = (@ + IF v.head = 1 THEN HEAD_GAP_BIG ELSE PARA_GAP) % Word16]
      ELSE e

onLineEnd(v, st) ==
  LET e == [newline([v EXCEPT !.depth = st.depth]) EXCEPT !.row_h = 0, !.head = 0]
  IN  IF st.heading
      THEN [e EXCEPT !.y = (@ + IF v.head = 1 THEN HEAD_GAP_BIG ELSE PARA_GAP) % Word16]
      ELSE e

\* An empty source line: one gap for a run of them.
blankLine(v) ==
  IF v.blank_pending THEN v
  ELSE [v EXCEPT !.y = (@ + LineH) % Word16, !.blank_pending = TRUE]

onTableBegin(v, st) ==
  [v EXCEPT !.depth = st.depth, !.table = <<>>, !.tlen = 0]

\* onTableRow: a separator, here <<>>, is skipped; rows past T_ROWS are
\* reported; columns past T_COLS are left out.
onTableRow(v, st, row) ==
  LET d == [v EXCEPT !.depth = st.depth]
      kept == FoldLeft(StoreCell, [cells |-> <<>>, tlen |-> v.tlen, over |-> FALSE],
                       SubSeq(row, 1, Least(Len(row), T_COLS)))
  IN  IF row = <<>> THEN d
      ELSE IF Len(v.table) >= T_ROWS THEN [d EXCEPT !.cut = TRUE]
      ELSE [d EXCEPT !.table = Append(@, kept.cells), !.tlen = kept.tlen, !.cut = @ \/ kept.over]

\* The rows stay in the buffer until the next table; nothing reads them.
onTableEnd(v, s, st) ==
  [table_flush([v EXCEPT !.depth = st.depth], s) EXCEPT !.table = <<>>, !.tlen = 0]

\* begin, on a cleared panel: the face, the row's height and literal are left
\* from the page before.
begin(v) == [Blank EXCEPT !.head = v.head, !.row_h = v.row_h, !.literal = v.literal]

-----------------------------------------------------------------------------
(* A page, line by line: every pass gets the same callbacks.               *)

Pass(f(_, _)) == view' = [s \in Scrolls |-> f(view[s], s)]

\* A callback inside a line; the line's style is chosen with its first one.
InLine(next) ==
  /\ line \in {"start", "in"} /\ line' = next
  /\ style' \in IF line = "start" THEN Styles ELSE {style}
  /\ events < MaxEvents /\ events' = events + 1

Text == \E run \in Runs, all \in BOOLEAN :
  /\ InLine("in")
  /\ all => style'.heading
  /\ Pass(LAMBDA v, s : onText(v, s, style', run, all))
  /\ given' = given + MarksOf(run)

Link == \E run \in Runs :
  /\ InLine("in")
  /\ Pass(LAMBDA v, s : onLink(v, s, style', run))
  /\ given' = given + MarksOf(run)

Divider ==
  /\ line = "start" /\ InLine("full")
  /\ Pass(LAMBDA v, s : onDivider(v, s, style'))
  /\ UNCHANGED given

TextField == \E width \in Widths :
  /\ InLine("in")
  /\ Pass(LAMBDA v, s : onTextField(v, s, style', width))
  /\ UNCHANGED given

Box == \E label \in Labels \cup {<<>>} :
  /\ InLine("in")
  /\ Pass(LAMBDA v, s : onBox(v, s, style', label))
  /\ given' = given + MarksOf(label)

Image == \E alt \in Labels :
  /\ InLine("in")
  /\ Pass(LAMBDA v, s : onImage(v, s, style', alt))
  /\ given' = given + 5 + MarksOf(alt)

Partial == \E url \in Labels :
  /\ InLine("in")
  /\ Pass(LAMBDA v, s : onPartial(v, s, style', url))
  /\ given' = given + 3 + MarksOf(url)

LineEnd ==
  /\ line \in {"in", "full"} /\ line' = "start"
  /\ Pass(LAMBDA v, s : onLineEnd(v, style))
  /\ style' = Plain /\ UNCHANGED <<events, given>>

\* compose_page hands an empty source line to the renderer past the parser.
BlankLine ==
  /\ line \in {"start", "table"}
  /\ events < MaxEvents /\ events' = events + 1
  /\ Pass(LAMBDA v, s : blankLine(v))
  /\ UNCHANGED <<line, style, given>>

TableBegin ==
  /\ line = "start" /\ line' = "table" /\ events < MaxEvents
  /\ style' \in {st \in Styles : ~st.heading}
  /\ Pass(LAMBDA v, s : onTableBegin(v, style'))
  /\ UNCHANGED <<events, given>>

TableRowIn == \E row \in Rows :
  /\ line = "table"
  /\ events < MaxEvents /\ events' = events + 1
  /\ Pass(LAMBDA v, s : onTableRow(v, style, row))
  /\ given' = given + FoldLeft(LAMBDA n, cell : n + Cardinality({i \in DOMAIN cell : cell[i] # " "}),
                               0, row)
  /\ UNCHANGED <<line, style>>

TableEnd ==
  /\ line = "table" /\ line' = "start"
  /\ Pass(LAMBDA v, s : onTableEnd(v, s, style))
  /\ style' = Plain /\ UNCHANGED <<events, given>>

\* The page ends, in a table too, and the next one is begun.
Begin ==
  /\ line \in {"start", "table"} /\ line' = "start"
  /\ Pass(LAMBDA v, s : begin(v))
  /\ style' = Plain /\ events' = 0 /\ given' = 0

Next ==
  \/ Text \/ Link \/ Divider \/ TextField \/ Box \/ Image \/ Partial \/ LineEnd
  \/ BlankLine \/ TableBegin \/ TableRowIn \/ TableEnd \/ Begin

Spec == Init /\ [][Next]_vars

-----------------------------------------------------------------------------
(* Properties.                                                             *)

\* Nothing emit_run draws leaves the margins, however deep, long or tall the
\* text, its columns included: a word is wrapped, broken or clipped first.  Two
\* things may: a word after spaces that open a row, and a checkbox on a full row.
InMargins == \A s \in Scrolls : \A c \in view[s].ink :
  c.kind \notin {"led", "box", "bar"} => c.x >= MARGIN_X /\ c.x + c.w <= Right

Meet(a, b) == /\ a.x < b.x + b.w /\ b.x < a.x + a.w
              /\ a.y < b.y + b.h /\ b.y < a.y + a.h

\* No two things drawn lie over each other: every row, wrapped heading and table
\* line moves the pen past what was drawn before.  A field's bar is under it, and a
\* table's rule may cross the mark of a literal cell that was cut.
NoOverlap == \A s \in Scrolls :
  LET drawn == {c \in view[s].ink : c.kind # "bar"}
  IN  \A a \in drawn, b \in drawn :
        Meet(a, b) => a = b \/ {a.kind, b.kind} = {"rule", "mark"}

\* A page is laid out alike whatever the window, up to the first table that two
\* cells a column make wider than the panel: the pens of the passes agree, so do
\* the page's height, which scrolling is clamped to, and every row two windows
\* share.  From such a table on they do not: a cell past the margin makes emit_run
\* begin a row (MicronRender.cpp:752), which happens only to lines in the window,
\* and the height that scrolling is clamped to depends on the scrolling.
WindowsAgree == \A s \in Scrolls, r \in Scrolls : s < r =>
  LET v == view[s]
      w == view[r]
      shared(c) == /\ c.y >= s /\ c.y >= r /\ c.y < s + LCD_HEIGHT /\ c.y < r + LCD_HEIGHT
                   /\ c.y < v.wide
  IN  /\ v.wide = w.wide
      /\ v.wide = Word16 => v.y = w.y /\ v.x = w.x /\ v.open = w.open
      /\ {c \in v.ink : shared(c)} = {c \in w.ink : shared(c)}

\* The box of a link that stayed on its row is its label on the panel, so a press
\* on the label finds the link and a press elsewhere does not.
LinkBoxIsLabel == \A s \in Scrolls : \A i \in DOMAIN view[s].links :
  LET b == view[s].links[i]
      glyphs == {c \in b.label : c.kind # "mark"}
  IN  b.end_y = b.page_y =>
        /\ \A c \in glyphs : /\ c.x >= b.x /\ c.x + c.w <= b.x + b.w
                             /\ c.y - s = b.y /\ c.h = b.h
        /\ b.y < LCD_HEIGHT

\* A page that fits the panel shows every mark it was given, unless a literal line
\* was cut at the margin or a table was larger than its buffer; and no link or row
\* was kept past the arrays, of MAX_LINKS, T_ROWS and T_BYTES, that hold them.
NothingLost == \A s \in Scrolls :
  LET v == view[s]
  IN  /\ line # "table" /\ s = 0 /\ v.y < LCD_HEIGHT /\ ~v.cut
         => Cardinality({c \in v.ink : c.kind \in {"glyph", "led"}}) = given
      /\ Len(v.links) <= MAX_LINKS /\ Len(v.table) <= T_ROWS /\ v.tlen <= T_BYTES

=============================================================================
