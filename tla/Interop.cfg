CONSTANTS
  Scenarios <- AllScenarios
  TIMEOUT_S <- Limits
  Breaks <- Switches
  MaxFaults <- FaultLimits
SPECIFICATION Spec
CHECK_DEADLOCK FALSE
INVARIANTS
  
  CalmRunPasses
