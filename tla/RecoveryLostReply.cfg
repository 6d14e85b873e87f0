SPECIFICATION Spec
CONSTANTS
  Response <- OneBatch
  MaxToolIterations = 1
  MaxMessages = 2
  MaxCrashes = 0
  MaxFaults = 1
  LostReplies = TRUE
  UserCancels = FALSE
  MaxStops = 0
  None = None
INVARIANTS OutcomeMatchesTask
