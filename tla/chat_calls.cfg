SPECIFICATION FairSpec
CONSTANTS
  c1 = c1
  c2 = c2
  c3 = c3
  i1 = i1
  i2 = i2
  None = None
  Calls <- TwoCalls
  Ids <- TwoIds
  MaxRequests = 2
  MaxChats = 1
  MaxCache = 2
  MaxTries = 2
  RequestTimeout = 1
  StreamTimeout = 1
  TTL = 2
  MaxAborts = 2
  MaxOthers = 1
INVARIANTS TypeOK OneCallPerId NothingLeaks LiveIsAbortable
PROPERTY EveryCallEnds
CHECK_DEADLOCK FALSE
