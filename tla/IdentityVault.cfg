CONSTANTS
  Images <- AllImages
  VAULT_MAX_TRIES = 10
  MaxKeys = 3
  Faults <- CountedFaults
SPECIFICATION Spec
INVARIANTS
  GuessesBounded
  EraseIsFinal
  StoredStaysReadable
PROPERTIES
  AddressStable
