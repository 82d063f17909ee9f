CONSTANTS
  Bufs = {b1}
  NoBuf = NoBuf
  MaxFaults = 0
  MaxOvertakes = 1
  SleepModes = {"HARDWARE"}
SPECIFICATION Spec
PROPERTY CallbackGetsPacket
