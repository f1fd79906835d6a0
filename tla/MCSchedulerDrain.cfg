SPECIFICATION Spec
CONSTANTS
  Segment = {"a", "b", "c", "x"}
  Paths <- MCPaths
  Plans <- ThreeRoots
  MaxRetries = 1
  MaxCorrections = 1
  WindowCapacity = 4
  FailureThreshold = 2
  RetryThreshold = 3
  DenialThreshold = 2
  RejectionThreshold = 2
  SemanticThreshold = 1
  HardTokens = 5
  Estimate = 2
  LiveLimit = 4
  Usages = {1, 3}
  Faults = {}
  MaxFaults = 0
  ForeignPaths <- MCForeign
  MaxForeign = 0
INVARIANTS
  BudgetStopDrains
CHECK_DEADLOCK FALSE
