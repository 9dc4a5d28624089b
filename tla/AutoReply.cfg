CONSTANTS
  Peers = {a}
  Self = self
  Malformed = malformed
  AutosendDest = a
  WORD = 12
  REPLY_DELAY_MS = 2
  Autosend = 1
  MaxLag = 1
  PoolSize = 1
  MaxMessages = 2
  CounterWord = 3
  Throws = TRUE
  MaxSkips = 1
SPECIFICATION ReplySpec
INVARIANTS
  NeverLate
  GapMeansDrop
PROPERTIES
  NeverEarly
