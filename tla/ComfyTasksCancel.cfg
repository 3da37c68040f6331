SPECIFICATION Spec
CONSTANTS
  c1 = c1
  MaxTasks = 1
  Conns = {c1}
  NumOutputs = 2
  None = None
  MaxAttempts = 1
  MaxFaults = 0
  MaxOps = 1
INVARIANTS
  CancelledNotExecuted
CHECK_DEADLOCK FALSE
