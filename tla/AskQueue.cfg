SPECIFICATION FairSpec
CONSTANTS
  a1 = a1
  a2 = a2
  a3 = a3
  t1 = t1
  t2 = t2
  Ask <- MCAsk
  Turn <- MCTurn
  TurnOf <- MCTurnOf
  Foreground <- MCForeground
  NoAsk = NoAsk
  Pump = {p1, p2}
  Drainer = {d1}
INVARIANTS TypeOK NoStrandedAsk ResolvedOnce NoZombieAsk
PROPERTIES ImplementsOneDialog EveryAskResolved
CHECK_DEADLOCK FALSE
