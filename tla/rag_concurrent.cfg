SPECIFICATION Spec
CONSTANTS
  f1 = f1
  f2 = f2
  t1 = t1
  t2 = t2
  m1 = m1
  m2 = m2
  r1 = r1
  r2 = r2
  r3 = r3
  c1 = c1
  None = None
  NonUtf8 = NonUtf8
  Files <- OneFile
  Texts <- OneText
  Models <- TwoModels
  Runs <- TwoRuns
  Clients <- OneClient
  MaxAttempts = 2
  MaxEdits = 1
  MaxFaults = 1
  MaxCrashes = 1
SYMMETRY Symmetry
CONSTRAINT OneTrouble
INVARIANTS TypeOK HandleMeansRun NoOrphanRows NoPartialFileIfSound
CHECK_DEADLOCK FALSE
