--------------------------- MODULE MCPageRenderer ---------------------------
\* A panel eight cells wide and four rows high, its fonts' real sizes.  Tables
\* have up to three columns: indented, three are wider than the panel.
EXTENDS PageRenderer

T(lead, word) == [lead |-> lead, word |-> word]
Line(depth, heading, align, literal) ==
  [depth |-> depth, heading |-> heading, align |-> align, literal |-> literal]

MCHeadW == <<12, 8, 7>>
MCHeadH == <<28, 18, 15>>
MCStyles == {Plain, Line(1, TRUE, "right", FALSE), Line(9, FALSE, "centre", TRUE)}
MCRuns == {<<T(0, 3), T(1, 4)>>, <<T(2, 7), T(1, 10)>>}
MCLabels == {<<T(0, 3), T(1, 4)>>}
MCRows == {<<>>, <<<<"x", "x", " ", "x", "x", " ", "x", "x">>>>,
           <<<<"x", "x", "x", " ", "x", "x">>, <<"x">>, <<"x", "x", "x", "x", "x">>>>}
=============================================================================
