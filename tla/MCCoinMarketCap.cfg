SPECIFICATION Spec
CONSTANTS
  s1 = s1
  s2 = s2
  c1 = c1
  c2 = c2
  c3 = c3
  Symbols <- MCSymbols
  Calls <- MCCalls
  None = None
  Interval = 2
  TTL = 2
  MaxTime = 5
CHECK_DEADLOCK FALSE
SYMMETRY Symm
INVARIANTS
  TypeOK
  CrowdedOnlyByOverlap
  KnownIsNotAsked
