SPECIFICATION FairSpec
CONSTANTS
  u1 = u1
  MaxProcs = 2
  Users = {u1}
  MaxTasks = 2
  MaxFiles = 2
  MaxVersion = 2
  MaxFaults = 1
INVARIANTS
  TypeOK
  FilesAccounted
PROPERTIES
  OnlyTimelyResults
  EveryGenerationEnds
CHECK_DEADLOCK FALSE
