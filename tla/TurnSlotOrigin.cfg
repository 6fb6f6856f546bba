SPECIFICATION Spec
CONSTANTS
  Client = {c1}
  Automation = {a1}
  Chain = {w1, w2}
  Note = {n1}
  Nobody = Nobody
INVARIANT OriginIsTheTurns
CHECK_DEADLOCK FALSE
