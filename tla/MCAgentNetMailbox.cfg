CONSTANTS
  Modes = {"static"}
  MboxSize = 2
  MaxCommands = 2
  MaxLosses = 1
  MaxMishaps = 0
SPECIFICATION Spec
CHECK_DEADLOCK FALSE
INVARIANT LinkChangePosted
