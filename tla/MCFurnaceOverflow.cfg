CONSTANTS
  RAMP_1_TIME = 2
  RAMP_1_TEMP = 2
  HOLD_1_TIME = 3
  RAMP_2_TIME = 2
  RAMP_2_TEMP = 6
  HOLD_2_TIME = 2
  IntegralLimit = 6
  OutputLimit = 20
  IntHalf = 16
  MillisWrap = 53
  LoopSeconds = 1
  Readings <- MCReadings
SPECIFICATION Spec
INVARIANT RampsUp
