SPECIFICATION MCSpec
CONSTANTS
  Scope = {"user", "project"}
  Call = {1, 2}
  Request <- MCRequest
  AskClass <- MCAskClass
  Mutating <- MCMutating
  Documents <- MCDocuments
  MaxBatches = 2
  MaxEdits = 2
INVARIANTS NoSilentRun TurnFlushed UndoOfUndo BackgroundSafe
CHECK_DEADLOCK FALSE
