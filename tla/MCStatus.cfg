CONSTANTS
  a1 = a1  b1 = b1  c1 = c1  c2 = c2
  A = A  B = B  C = C
  Items <- MCItems
  Keys <- MCKeys
  Kids <- MCKids
  KeyOf <- MCKeyOf
  MaxKeys = 1
  TTL = 1
  MaxTime = 2
  MaxRestarts = 1
  ViewTime = 1
  ViewMax = 1
  MaxTombs = 3
  MaxFaults = 2
  MaxInFlight = 1
SPECIFICATION StatusSpec
CHECK_DEADLOCK FALSE
INVARIANTS TerminalIsFinal SettledTurnIsFinal ReadyMeansDone Remembered WatchedCatchesUp
