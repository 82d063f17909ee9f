CONSTANTS
  t1 = t1
  t2 = t2
  s0 = s0
  s1 = s1
  c1 = c1
  c2 = c2
  None = None
  Tasks = {t1, t2}
  Streams = {s0, s1}
  ControlStream = s0
  StreamOf <- OwnStreams
  Commands = {c1}
  SeqMod = 4
  Retries = 3
  OutOfMemory = FALSE
  MaxCalls = 3
  MaxFaults = 2
  MaxEvents = 1
  MaxResets = 0
SPECIFICATION Spec
CHECK_DEADLOCK FALSE
INVARIANTS
  OwnAnswer
PROPERTIES
  HandedOnce
  RefinesRpc
