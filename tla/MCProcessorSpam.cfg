SPECIFICATION Spec
CONSTANTS
  h1 = h1
  h2 = h2
  a = a
  b = b
  Hashes <- MCHashes
  Wallets <- MCWallets
  Events <- MCEvents
  None = None
  PoolSize = 1
  NumStrategies = 2
  ChatConfigured = TRUE
  MaxTasks = 3
  MaxCrashes = 1
  Window = 1
  MaxTx = 1
  TTL = 1
  MaxTime = 1
  MaxRecords = 2
INVARIANTS
  SpammerBlacklisted
CHECK_DEADLOCK FALSE
