SPECIFICATION FairSpec
CONSTANTS
  Plans <- MCPlans
  BlankLines <- MCBlankLines
  Frames <- MCFrames
  RbCap = 6
  IpdCap = 2
  ReadLen = 2
  MaxFrames = 1
  MaxLate = 1
CHECK_DEADLOCK FALSE
INVARIANTS StreamsWhole OwnAnswer
PROPERTIES CallReturns
