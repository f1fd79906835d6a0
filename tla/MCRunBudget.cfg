SPECIFICATION BudgetSpec
CONSTANTS
  p1 = p1
  NoPool = NoPool
  MaxRecords = 5
  Threads = {a1, a2}
  Requests <- Estimates
  Measurements <- Measured
  LiveLimits = {2}
  SoftTokens = 0
  HardTokens = 4
  SoftCost = 0
  HardCost = 0
  MaxTokens = 5
  MaxCost = 0
  Window = 1
  Pools = {p1}
  Faults = {"append", "head"}
  MaxDuration = TRUE
  ClockSteps <- BothWays
  MaxReservations = 2
  MaxTime = 1
  MaxSessions = 2
SYMMETRY Symmetric
CONSTRAINT KnowsItsJournal
INVARIANTS
  LimitsKept
  AccountsAgree
  CapacityForTerminals
  LedgerReplays
PROPERTY
  NoFalseRefusal
CHECK_DEADLOCK FALSE
