SPECIFICATION Spec
CONSTANTS
  MaxStreams = 2
  MaxOpens = 3
  MaxRestarts = 1
  MayFail = {"structure"}
  OpenOneAtATime = TRUE
  Null = Null
INVARIANT HeldIsAllocated
CHECK_DEADLOCK FALSE
