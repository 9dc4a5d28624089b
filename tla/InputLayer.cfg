CONSTANTS
  Modifiers = {shift, alt}
  Ordinary = {k1, k2, k3, k4}
  GHOST_THRESHOLD = 3
  MAX_TRACKED = 4
  MaxHeld = 4
  Resets = TRUE
SPECIFICATION LayerSpec
INVARIANTS
  GuardSinceReset
  NoStuckKey
  EmitsOncePerPress
