SPECIFICATION FairSpec
CONSTANTS
  MaxStreams = 2
  MaxOpens = 3
  MaxRestarts = 1
  MayFail = {"structure"}
  OpenOneAtATime = TRUE
  Null = Null
INVARIANTS TableIntact ConnsHeld StreamServed
PROPERTIES ClosedIsFreed
CHECK_DEADLOCK FALSE
