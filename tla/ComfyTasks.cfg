SPECIFICATION FairSpec
CONSTANTS
  c1 = c1
  MaxTasks = 2
  Conns = {c1}
  NumOutputs = 2
  None = None
  MaxAttempts = 2
  MaxFaults = 2
  MaxOps = 1
INVARIANTS
  TypeOK
  SubmittedOncePerAttempt
  OneJobAtATime
  SucceededIsComplete
PROPERTIES
  EveryTaskEnds
CHECK_DEADLOCK FALSE
