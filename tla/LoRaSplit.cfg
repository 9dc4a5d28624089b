CONSTANTS
  Senders = {s1}
  Lens <- EdgeLens
  MaxPackets = 10
  MaxBurst = 13
SPECIFICATION Spec
CHECK_DEADLOCK FALSE
INVARIANTS
  BufferBounded
  CompleteIsDelivered
PROPERTIES
  ImplementsLink
