SPECIFICATION Spec
CONSTANTS
  Response <- OneBatch
  MaxToolIterations = 2
  MaxMessages = 3
  MaxCrashes = 2
  MaxFaults = 1
  LostReplies = TRUE
  UserCancels = TRUE
  MaxStops = 1
  None = None
INVARIANTS OutcomeKept CallsKept  RoundsBounded
