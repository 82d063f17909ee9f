CONSTANTS
  Bufs = {b1, b2, b3}
  NoBuf = NoBuf
  MaxFaults = 0
  MaxOvertakes = 0
  SleepModes = {"HARDWARE"}
SPECIFICATION Spec
SYMMETRY BufSymmetry
INVARIANT NoAgentAssert
