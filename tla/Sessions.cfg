SPECIFICATION MCSpec
CONSTANTS
  Prompt = {p1, p2}
  Loader = {l1, l2}
  Closer = {"k1"}
  Logout = {"g1"}
  Canceller = {"n1"}
  Overlap = FALSE
  Wedges = TRUE
  NoPrompt = NoPrompt
SYMMETRY Symmetry
INVARIANTS DeletedStaysDeleted PairedWindow LoadedMeansComplete SessionsSafe
PROPERTIES CancelReachesTurn TurnIdsFresh
CHECK_DEADLOCK FALSE
