CONSTANTS
  LCD_LINE_BYTES = 3
  LCD_WIDTH = 24
  LCD_HEIGHT = 14
  FONT_FIRST = 65
  FONT <- Ascii
  FONT_EXTRA <- Extra
  EMOJI <- Smile
  Face <- Faces
  Calls <- AllCalls
  MaxDraws = 2
SPECIFICATION Spec
INVARIANTS
  CleanLinesAgree
  VcomAgrees
PROPERTIES
  DrawsWhatIsAskedFor
  ImplementsScreen
