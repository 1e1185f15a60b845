SPECIFICATION Spec
CONSTANTS
  f1 = f1
  f2 = f2
  t1 = t1
  t2 = t2
  m1 = m1
  m2 = m2
  r1 = r1
  r2 = r2
  r3 = r3
  c1 = c1
  None = None
  NonUtf8 = NonUtf8
  Files <- OneFile
  Texts <- OneText
  Models <- OneModel
  Runs <- TwoRuns
  Clients <- NoClient
  MaxAttempts = 1
  MaxEdits = 0
  MaxFaults = 0
  MaxCrashes = 0
INVARIANT LiveRunIsAbortable
CHECK_DEADLOCK FALSE
