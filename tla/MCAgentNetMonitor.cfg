CONSTANTS
  Modes = {"static"}
  MboxSize = 2
  MaxCommands = 2
  MaxLosses = 0
  MaxMishaps = 0
SPECIFICATION FairSpec
CHECK_DEADLOCK FALSE
PROPERTY MonitorReconfigured
