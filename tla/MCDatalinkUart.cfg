CONSTANTS
  RingSize = 3
  MaxLength = 3
  Payloads <- EscapedPayload
  Headers = {"checked"}
  MaxFrames = 2
  MaxNoise = 1
  FaultValues = {"END", "ESC"}
  MaxAllocFails = 1
SPECIFICATION UartFairSpec
INVARIANTS
  WholeFramesArrive
  InOrder
  SleepsWhenRead
PROPERTIES
  RefinesFifo
  FrameDecided
CHECK_DEADLOCK FALSE
