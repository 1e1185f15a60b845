SPECIFICATION Spec
CONSTANTS
  c1 = c1
  c2 = c2
  r1 = r1
  r2 = r2
  None = None
  Old = Old
  Convs <- TwoConvs
  Requests <- TwoRequests
  MaxTokens = 2
  Lossy = TRUE
  MaxEdits = 1
  MaxRemovals = 1
SYMMETRY Symmetry
CONSTRAINT Focus
INVARIANTS TypeOK FlagTruthful TokensInOrder NothingLeftBehind DoneIsWhole
PROPERTY ResolvedIsFinal
CHECK_DEADLOCK FALSE
