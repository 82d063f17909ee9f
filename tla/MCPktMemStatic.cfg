CONSTANTS
  Tasks = {t1, t2, t3}
  CommandBlocks = {c1}
  None = None
  TxBlocks = 4
  RxBlocks <- OneOfEach
  Waits = 1
  PacketsOutliveDriver = FALSE
SPECIFICATION FairSpec
INVARIANTS
  FlagTellsRoom
PROPERTIES
  RefinesPool
  PauseEnds
