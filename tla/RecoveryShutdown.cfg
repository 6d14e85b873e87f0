SPECIFICATION Spec
CONSTANTS
  Response <- OneBatch
  MaxToolIterations = 1
  MaxMessages = 2
  MaxCrashes = 0
  MaxFaults = 0
  LostReplies = FALSE
  UserCancels = FALSE
  MaxStops = 1
  None = None
INVARIANTS NoStrandedTask
