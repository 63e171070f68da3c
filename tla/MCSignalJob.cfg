SPECIFICATION Spec
CONSTANTS
  NumSymbols = 3
  Markets <- MCMarkets
  DefaultPasses = {"rsi", "obv"}
  SlMult <- MCSlMult
  TpRr = 2
  MaxDistPct = 5
  MinLeverage = 2
  MaxLeverage = 20
CHECK_DEADLOCK FALSE
INVARIANTS
  TypeOK
  ReportIsExact
  StopBeforeMarginIsGone
