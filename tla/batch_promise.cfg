SPECIFICATION FairSpec
CONSTANTS
  a1 = a1
  a2 = a2
  a3 = a3
  a4 = a4
  x = x
  y = y
  c1 = c1
  c2 = c2
  None = None
  Appends <- ThreeAppends
  Messages <- TwoMessages
  Conversations <- TwoConversations
  ConvOf <- Apart
  Capacity = 2
  MaxBatch = 2
  MaxFaults = 1
  MaxCrashes = 1
INVARIANT TypeOK
PROPERTIES Linearizable EveryAppendAnswered
CHECK_DEADLOCK FALSE
