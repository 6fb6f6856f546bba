CONSTANTS
  Turn = {t1, t2}
  Call = {c1, c2}
  NoTurn = NoTurn
  NoCall = NoCall
SPECIFICATION Spec
PROPERTY AnswerMatchesAsk
CHECK_DEADLOCK FALSE
