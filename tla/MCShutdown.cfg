SPECIFICATION FairShutdownSpec
CONSTANTS
  h1 = h1
  h2 = h2
  a = a
  b = b
  Hashes <- MCHashes
  Wallets <- MCWallets
  Events <- MCEvents
  None = None
  PoolSize = 1
  NumStrategies = 2
  ChatConfigured = TRUE
  MaxTasks = 2
  MaxCrashes = 2
  Window = 1
  MaxTx = 1
  TTL = 1
  MaxTime = 1
  MaxRecords = 2
INVARIANTS
  ShutdownTypeOK
PROPERTIES
  ShutdownEnds
  OrderlyEnd
CHECK_DEADLOCK FALSE
