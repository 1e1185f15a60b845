\* Six parts of the program, one in each behaviour: see MCAnswers.
SPECIFICATION FairSpec
CONSTANTS
  c1 = c1
  r1 = r1
  r2 = r2
  m1 = m1
  m2 = m2
  p1 = p1
  f1 = f1
  None = None
  Old = Old
PROPERTIES StreamResolves HydrationEnds ModelIsReady SpinnersStop
CHECK_DEADLOCK FALSE
