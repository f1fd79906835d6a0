SPECIFICATION MCSpec
CONSTANTS
  src = src
  a = a
  b = b
  doc = doc
  CurDir = CurDir
  ParentDir = ParentDir
  RootDir = RootDir
  Segment <- MCSegment
  Paths <- MCPaths
  RawPaths <- AllRaw
  Requests <- MCRequests
  Agents = {p1, w1, w2}
  Digests = {d1}
  MaxToken = 5
CHECK_DEADLOCK FALSE
SYMMETRY Symmetry
INVARIANTS
  SubordinatesContained
  WriteExclusion
  ReservationConsumedOnce
  NormalizesExactly
