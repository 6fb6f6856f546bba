SPECIFICATION FairSpec
CONSTANTS
  Session = {1, 2}
  ClientSession = {1}
  Buf = 1
  MaxTurns = 1
  MaxPublish = 1
PROPERTY PublishReturns
CHECK_DEADLOCK FALSE
