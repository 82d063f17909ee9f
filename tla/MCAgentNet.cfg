CONSTANTS
  Modes = {"dhcp", "offload"}
  MboxSize = 2
  MaxCommands = 3
  MaxLosses = 1
  MaxMishaps = 1
SPECIFICATION FairSpec
CHECK_DEADLOCK FALSE
INVARIANTS
  ContextAlive
  AddressFollowsMode
PROPERTIES
  CommandsReturn
  LinkReported
