CONSTANTS
  Sessions <- MCSessions
  WireSize = 10
  MaxSkipped = 30
SPECIFICATION FairSpec
INVARIANTS TypeOK GenuineOnly InStepWithinTwoFrames StaysInStep
PROPERTY KeepsReporting
\* the script exits when its gauge stops
CHECK_DEADLOCK FALSE
