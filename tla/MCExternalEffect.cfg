SPECIFICATION EffectSpec
CONSTANTS
  Effects = {e1, e2}
  Payloads = {x, y}
  NoPhase = NoPhase
  None = None
  MaxEvents = 7
  MaxObjects = 2
SYMMETRY EffectSymmetry
INVARIANTS
  AskedAtMostOnce
  NoDuplicateObjects
  ResultsAgree
