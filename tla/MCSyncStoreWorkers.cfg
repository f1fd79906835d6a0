SPECIFICATION ForwardSpec
CHECK_DEADLOCK FALSE
CONSTANTS
  src = src
  a = a
  b = b
  legacy = legacy
  None = None
  Segment <- MCSegment
  Paths <- WorkerPaths
  Agents = {p1, w1, w2}
  Digests = {d1}
  Owners = {o1, o2}
  Timings <- OneTiming
  LegacyStates <- NoLegacy
  MaxToken = 4
  MaxNow = 2
  MaxSyncClaims = 3
  MaxSyncPaths = 3
  MaxSupersessionRecords = 1
  MaxLineageDepth = 1
SYMMETRY WorkerSymmetry
INVARIANTS
  SubdivisionSafe
  OpensUnlessDoubleRole
PROPERTIES
  OwnershipMovesLegally
