CONSTANTS
  t1 = t1
  t2 = t2
  s0 = s0
  s1 = s1
  c1 = c1
  c2 = c2
  None = None
  Tasks = {t1, t2}
  Streams = {s0, s1}
  ControlStream = s0
  StreamOf <- SharedStream
  Commands = {c1}
  SeqMod = 5
  Retries = 2
  OutOfMemory = TRUE
  MaxCalls = 2
  MaxFaults = 1
  MaxEvents = 1
  MaxResets = 1
SPECIFICATION FairSpec
CHECK_DEADLOCK FALSE
INVARIANT NoFalseLoss
PROPERTIES
  OnlyRepeatsIgnored
  CallReturns
