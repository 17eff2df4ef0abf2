CONSTANTS
  Turns = {t1, t2}
  Delegating = {t1}
  MaxItems = 2
  MaxRaises = 1
  Questions = {q1, q2, q3}
  DialogueTurns = {u1, u2}
  NoQuestion = NoQuestion
  MaxCandidates = 1
  Timeout = 2
  MaxTime = 3
  MaxEpoch = 2
  RecordedTurns = {recorded}
  RecordedWidth <- WidthOfTurn
  Children = 2
SPECIFICATION TurnsSpec
SYMMETRY Interchangeable
CHECK_DEADLOCK FALSE
INVARIANTS ReadyMeansCommitted CancelledIsSilent EveryChildSettles TurnAddsUp
PROPERTIES CapturesOnlyOpen
