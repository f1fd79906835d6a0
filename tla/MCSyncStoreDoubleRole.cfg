SPECIFICATION StoreSpec
CONSTANTS
  src = src
  a = a
  b = b
  legacy = legacy
  None = None
  Segment <- MCSegment
  Paths <- WorkerPaths
  Agents = {p1, w1, w2}
  Digests = {d1}
  Owners = {o1, o2}
  Timings <- OneTiming
  LegacyStates <- NoLegacy
  MaxToken = 4
  MaxNow = 2
  MaxSyncClaims = 3
  MaxSyncPaths = 9
  MaxSupersessionRecords = 2
  MaxLineageDepth = 1
INVARIANT
  ClaimAcquireReversible
