SPECIFICATION MCSpec
CONSTANTS
  Field <- MCField
  Bounds <- MCBounds
  DowField = "dow"
  At <- MCAt
  Drafts <- MCDrafts
  Patches <- MCPatches
  MaxDelay = 5
  ScanHorizon = 3
  Absent = Absent
  Corrupt = Corrupt
  MaxAutos = 1
  MaxTime = 4
  MaxUpdates = 1
  MaxCrash = 1
  MaxFail = 2
INVARIANTS FiresOnce AutonomySafe
PROPERTIES EveryDueClaimed CancelEndsChain
CHECK_DEADLOCK FALSE
