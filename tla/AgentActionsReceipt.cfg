SPECIFICATION Spec
CONSTANTS
  m1 = m1
  Msgs = {m1}
  MaxConcurrentRuns = 1
  MaxKeys = 1
  MaxCalls = 1
  MaxEdits = 0
  MaxFaults = 0
PROPERTY
  SubmittedIsFinal
CHECK_DEADLOCK FALSE
