SPECIFICATION BacktestSpec
CONSTANTS
  Prices = {8, 10, 12}
  ATRs = {1, 2}
  Window = 1
  StartIdx = 2
  SlAtrMult = 1
  RewardRisk = 1
  MaxDistance = 25
  NumCandles = 4
CHECK_DEADLOCK FALSE
INVARIANTS
  BacktestTypeOK
  StopAfterEntry
  WonOnlyUnstopped
