SPECIFICATION FairSpec
CONSTANTS
  Segment = {"a", "b", "c", "x"}
  Paths <- MCPaths
  Plans <- AllPlans
  MaxRetries = 1
  MaxCorrections = 1
  WindowCapacity = 4
  FailureThreshold = 2
  RetryThreshold = 3
  DenialThreshold = 2
  RejectionThreshold = 2
  SemanticThreshold = 1
  HardTokens = 6
  Estimate = 2
  LiveLimit = 4
  Usages = {1, 3}
  Faults = {"spawn", "die", "error", "checkpoint", "release", "expire", "missing"}
  MaxFaults = 1
  ForeignPaths <- MCForeign
  MaxForeign = 1
INVARIANTS
  DispatchIsSafe
  NoInvisibleReservation
  AuthorityAccounted
  ReportIsTrue
  CancelledForCause
  RetriesAreBounded
PROPERTIES
  NothingAfterStop
  ScheduleEnds
CHECK_DEADLOCK FALSE
