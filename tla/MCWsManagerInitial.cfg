SPECIFICATION FairSpec
CONSTANTS
  w1 = w1
  w2 = w2
  Addresses <- MCAddresses
  HeartbeatInterval = 3
  StaleThreshold = 5
  InitialBackoff = 1
  MaxBackoff = 4
  MaxBadCloses = 0
  None = None
PROPERTIES
  InitialFailureRetried
