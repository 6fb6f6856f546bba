SPECIFICATION Spec
INVARIANT ToolsSafe
PROPERTIES EveryCallReturns HookBounded DeadLockFileGoes CloseEndsWired EvictedIsReaped
CHECK_DEADLOCK FALSE
