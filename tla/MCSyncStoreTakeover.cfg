SPECIFICATION SweptSpec
CONSTANTS
  src = src
  a = a
  b = b
  legacy = legacy
  None = None
  Segment <- MCSegment
  Paths <- NestedPaths
  Agents = {legacy, a1}
  Digests = {}
  Owners = {}
  Timings <- OneTiming
  LegacyStates <- LegacyClaim
  MaxToken = 5
  MaxNow = 4
  MaxSyncClaims = 2
  MaxSyncPaths = 3
  MaxSupersessionRecords = 2
  MaxLineageDepth = 2
INVARIANTS
  StoreConsistent
  GuardedClaimsStay
PROPERTIES
  OwnershipMovesLegally
  SilentClaimEventuallyEligible
