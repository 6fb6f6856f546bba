SPECIFICATION Spec
CONSTANTS
  Call = {c1}
  Resolver = {}
  NoCall = NoCall
INVARIANT NoWriteAfterClose
CHECK_DEADLOCK FALSE
