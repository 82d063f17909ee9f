CONSTANTS
  Tasks = {t1, t2}
  CommandBlocks = {c1, c2}
  None = None
  TxBlocks = 4
  RxBlocks <- OneOfEach
  Waits = 1
  PacketsOutliveDriver = FALSE
SPECIFICATION Spec
INVARIANT ListIntact
