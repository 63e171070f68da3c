SPECIFICATION Spec
CONSTANTS
  BTC = BTC
  ETH = ETH
  w1 = w1
  w2 = w2
  Coins <- MCCoins
  Wallets <- MCWallets
  USDC = USDC
  Bad = Bad
  TimeWindow = 2
  Threshold = 2
  LargeValue = 6600
  MaxTime = 2
  MinValue = 100
  Messages <- MCMessages
  MaxMessages = 3
SYMMETRY Symm
CHECK_DEADLOCK FALSE
INVARIANTS
  TypeOK
  LegsBalance
  AlertNamesCoin
  BatchIsExact
