SPECIFICATION Spec
CONSTANTS
  index = index
  notes = notes
  draft = draft
  news = news
  about = about
  front = front
  n1 = n1
  n2 = n2
  root = root
  sub = sub
  page = page
  None = None
  LCD_HEIGHT = 2
  Pages = {index, notes, draft, news, about, front}
  Height <- MCHeight
  Links <- MCLinks
  Targets <- MCTargets
  Disk <- MCDisk
  Root <- MCRoot
  Home <- MCHome
  Mesh <- MCMesh
  Serves <- MCServes
  Deltas <- MCDeltas
  TIMEOUT = 4
  MaxStack = 2
  MaxFetches = 2
INVARIANTS FrameIsCurrent CommittedIsAsked
PROPERTIES BackReturns FetchEnds
