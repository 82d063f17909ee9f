CONSTANTS
  Tasks = {t1, t2}
  CommandBlocks = {c1}
  None = None
  TxBlocks = 4
  RxBlocks <- OneOfEach
  Waits = 1
  PacketsOutliveDriver = TRUE
SPECIFICATION Spec
INVARIANT RxConservation
