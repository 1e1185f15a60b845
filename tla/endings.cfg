\* Five parts of the program, one in each behaviour: see MCEndings.
SPECIFICATION FairSpec
CONSTANTS
  f1 = f1
  t1 = t1
  m1 = m1
  r1 = r1
  c1 = c1
  None = None
  NonUtf8 = NonUtf8
PROPERTIES CancelledRunNeverReady EveryRunEnds  StatusGoes WorkEnds
CHECK_DEADLOCK FALSE
