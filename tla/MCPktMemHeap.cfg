CONSTANTS
  Tasks = {t1, t2, t3}
  TxBlocks = 5
  RxBlocks = 2
  CommandBlocks = 1
  PacketsOutliveDriver = FALSE
SPECIFICATION FairSpec
INVARIANTS
  NoFailedAssert
  StackLearnsPause
  RxPoolBound
  CommandConservation
PROPERTIES
  RefinesPool
  PauseEnds
