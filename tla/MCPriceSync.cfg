SPECIFICATION Spec
CONSTANTS
  m1 = m1
  m2 = m2
  s1 = s1
  s2 = s2
  Mints <- MCMints
  Syncs <- MCSyncs
  None = None
  BatchSize = 1
  TTL = 1
  FetchTime = 1
  MaxTime = 3
CHECK_DEADLOCK FALSE
SYMMETRY Symm
INVARIANTS
  TypeOK
  RowMatchesToken
  EveryTokenAnswered
  WrittenIsFresh
