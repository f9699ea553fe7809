CONSTANTS
  MedLimit = 5
  HvLimit = 3
  RxSize = 5
  IntHalf = 32
  LongHalf = 128
  Plant <- MCPlant
  Lines <- MCLines
  MaxLines = 3
SPECIFICATION FairSpec
INVARIANTS TypeOK HvAsCommanded ActedInOrder
PROPERTIES HvRisesOnlyOnCommand StopHolds Regulates
