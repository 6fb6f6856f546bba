SPECIFICATION MCSpec
CONSTANTS
  Turn = {"t1", "t2"}
  Call = {"c1", "c2", "c3"}
  NoTurn = "none"
  NoCall = "none"
INVARIANTS ResultOnce TurnsSafe
PROPERTIES EveryNoteDelivered EverySuspensionSettles StreamEnds
CHECK_DEADLOCK FALSE
