SPECIFICATION Spec
CONSTANTS
  app1 = app1
  s1 = s1
  s2 = s2
  g1 = g1
  g2 = g2
  r1 = r1
  r2 = r2
  Apps = {app1}
  Sessions = {s1, s2}
  Agents = {g1}
  Requests = {r1, r2}
  AppOf <- OneApp
  Unlimited = Unlimited
  None = None
  Limits = {1}
  QueueLimit = 2
  Faults = {"take"}
  MaxTasks = 2
  MaxMessages = 2
  MaxHandovers = 1
  MaxFaults = 1
  MaxStops = 1
SYMMETRY Symmetry
CHECK_DEADLOCK FALSE
INVARIANTS
  SlotHasExecutor
