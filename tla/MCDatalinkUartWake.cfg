CONSTANTS
  RingSize = 3
  MaxLength = 3
  Payloads <- EscapedPayload
  Headers = {"checked"}
  MaxFrames = 2
  MaxNoise = 0
  FaultValues = {}
  MaxAllocFails = 0
SPECIFICATION UartSpec
INVARIANT CanWake
CHECK_DEADLOCK FALSE
