SPECIFICATION MCSpec
CONSTANTS
  Request = {1, 2}
  Session = {1}
  Model <- MCModel
  Tier <- MCTier
  SessionProvider = "main"
  Provider <- MCProvider
  FloorTier = "t1"
  FloorModel <- MCFloorModel
  Fallbacks <- MCFallbacks
  Denied = {"m1"}
  Unset = Unset
  MaxSets = 2
  MaxEdits = 1
INVARIANTS ModelReachesSessions FreshUnlessMissed ConfigSafe
PROPERTY PrecedenceHonoured
CHECK_DEADLOCK FALSE
