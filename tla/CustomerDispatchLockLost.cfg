SPECIFICATION Spec
CONSTANTS
  p1 = p1
  p2 = p2
  t1 = t1
  t2 = t2
  Procs = {p1, p2}
  Tasks = {t1, t2}
  None = None
  Limit = 1
  MaxLosses = 1
  MaxStops = 0
  MaxFails = 0
INVARIANT SlotHeldUntilSettled
