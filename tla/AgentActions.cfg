SPECIFICATION FairSpec
CONSTANTS
  m1 = m1
  Msgs = {m1}
  MaxConcurrentRuns = 1
  MaxKeys = 2
  MaxCalls = 2
  MaxEdits = 1
  MaxFaults = 1
INVARIANTS
  TypeOK
  OneSkuUnlessLost
PROPERTIES
  EndChangesOnlyToSuccess
  WritesWhatIsShown
  EveryExecutionEnds
CHECK_DEADLOCK FALSE
