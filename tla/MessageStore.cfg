CONSTANTS
  Messages = {"m1", "m2"}
  MaxIdentities = 2
  Room = 2
  MAX_MESSAGES = 1
  MaxDamage = 1
  MaxSaves = 2
  Faults <- AllFaults
SPECIFICATION Spec
INVARIANTS
  NothingInClear
  SavedReadsBack
  OpensOnlyOwn
PROPERTIES
  AttachedHasRoom
