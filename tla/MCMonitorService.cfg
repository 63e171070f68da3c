SPECIFICATION Spec
CONSTANTS
  MaxCalls = 3
  MaxStops = 2
  Modes = {"shared", "own"}
  None = None
INVARIANTS
  TypeOK
  RunningOnOpenPool
  OneListenerPerStart
CHECK_DEADLOCK FALSE
