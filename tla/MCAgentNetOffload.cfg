CONSTANTS
  Modes = {"offload"}
  MboxSize = 2
  MaxCommands = 1
  MaxLosses = 1
  MaxMishaps = 0
SPECIFICATION FairSpec
CHECK_DEADLOCK FALSE
PROPERTY LinkCallbackReturns
