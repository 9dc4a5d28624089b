SPECIFICATION Spec
CONSTANTS
  LCD_WIDTH = 52
  LCD_HEIGHT = 60
  MARGIN_X = 2
  INDENT_PX = 12
  MAX_DEPTH = 1
  FONT_ADVANCE = 6
  LineH = 15
  HeadW <- MCHeadW
  HeadH <- MCHeadH
  MAX_LINKS = 2
  T_ROWS = 2
  T_COLS = 3
  T_BYTES = 20
  Scrolls = {0, 28}
  Styles <- MCStyles
  Runs <- MCRuns
  Labels <- MCLabels
  Widths = {3}
  Rows <- MCRows
  MaxEvents = 3
INVARIANTS InMargins NoOverlap WindowsAgree LinkBoxIsLabel NothingLost
