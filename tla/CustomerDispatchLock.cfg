SPECIFICATION FairSpec
CONSTANTS
  p1 = p1
  p2 = p2
  t1 = t1
  t2 = t2
  Procs = {p1, p2}
  Tasks = {t1, t2}
  None = None
  Limit = 1
  MaxLosses = 1
  MaxStops = 1
  MaxFails = 1
INVARIANTS
  TypeOK
  LockGuardsWork
  NoDoubleExecution
  RecoversOnlyOrphans
PROPERTIES
  StandbyTakesOver
CHECK_DEADLOCK FALSE
