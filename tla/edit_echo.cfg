SPECIFICATION Spec
CONSTANTS
  Texts = {"", "hi", "salam"}
  Blank = ""
  Chars <- Lengths
  Arabic = {"salam"}
  System = "hi"
  ModelWindow = 10
  Tunings <- TwoTunings
  MinReserve = 2
  RagMax = 12
  MaxTurns = 2
  MaxTouches = 0
INVARIANT HistoryIsPrior
CHECK_DEADLOCK FALSE
