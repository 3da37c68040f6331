SPECIFICATION FairSpec
CONSTANTS
  a1 = a1
  u1 = u1
  p1 = p1
  p2 = p2
  Articles = {a1}
  Users = {u1}
  Owner <- OneArticle
  Procs = {p1, p2}
  None = None
  MaxTasks = 2
  MaxVersion = 2
  MaxFaults = 1
INVARIANTS
  TypeOK
  HeldWhileUnfinished
  PaidOnce
PROPERTIES
  ImplementsPaidGeneration
  AdoptKeepsEdits
  EveryTaskEnds
CHECK_DEADLOCK FALSE
