CONSTANTS
  k1 = k1
  k2 = k2
  k3 = k3
  v1 = v1
  v2 = v2
  Tasks = {t1, t2}
  Keys = {k1, k2, k3}
  Values = {v1, v2}
  Absent = Absent
  None = None
  Lists <- SomeLists
  Capacity = 2
  MaxWrites = 2
  MaxCrashes = 1
  MaxFaults = 1
  InitFirst = TRUE
SPECIFICATION Spec
INVARIANTS
  MemoryAgrees
  OkMeansDone
PROPERTIES
  RefinesStore
