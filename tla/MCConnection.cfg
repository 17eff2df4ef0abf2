CONSTANTS
  Attempts = {a, b}
  NoAttempt = NoAttempt
  MaxTokens = 2
  MaxWorkers = 1
  MaxFaults = 1
  MaxEvents = 3
  MaxEpoch = 2
  MaxAsks = 1
  MaxLost = 1
  MaxFailed = 1
  MaxGeneration = 6
  MaxCalls = 1
SPECIFICATION ConnectionSpec
CHECK_DEADLOCK FALSE
INVARIANTS OneCurrent NoOrphanWorker PageHoldsLog ShownIsCurrent
PROPERTIES RetiredIsClosed
