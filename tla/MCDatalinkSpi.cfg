CONSTANTS
  Bufs = {b1, b2, b3}
  NoBuf = NoBuf
  MaxFaults = 1
  MaxOvertakes = 1
  SleepModes = {"HARDWARE", "ONE_SHOT"}
SPECIFICATION Spec
SYMMETRY BufSymmetry
INVARIANTS
  BuffersApart
  AckMeansPassedOn
  AwakeInTransaction
PROPERTIES
  CopiesWholePackets
  NoPacketLost
