SPECIFICATION MCSpec
CONSTANTS
  Frame = {"f1", "f2", "b1"}
  Foreground = {"f1", "f2"}
  FgCap = 1
  BgCap = 1
  Producer = {"p1", "p2"}
  Waiter = {"w1"}
  NoFrame = "none"
INVARIANTS BarrierFlushes ClientSafe
PROPERTIES EmitterSettles RequestsSettle EngineAskLands
CHECK_DEADLOCK FALSE
