CONSTANTS
  DupBits = 2
  MaxRetries = 1
  Counts = {1, 3}
  MaxStarts = 2
  MaxFailures = 1
  QuietStarts = TRUE
SPECIFICATION FairSpec
INVARIANTS CountsAgree GivesUpAfterRetries
PROPERTIES NoNeedlessRequest SessionEnds
CHECK_DEADLOCK FALSE
