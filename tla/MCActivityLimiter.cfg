SPECIFICATION Spec
CONSTANTS
  w1 = w1
  w2 = w2
  Wallets <- MCWallets
  None = None
  Window = 2
  MaxTx = 2
  TTL = 3
  MaxTime = 7
  MaxRecords = 6
INVARIANTS
  TypeOK
  CleanSlate
PROPERTIES
  BanServedInFull
  ImplementsRule
