SPECIFICATION IntakeFairSpec
CONSTANTS
  Processes = {i1, i2}
  Platforms = {telegram}
  Ttl = 3
  EngineFails = FALSE
  SlowConnect = FALSE
  MaxRestarts = 0
  MaxEpoch = 3
CHECK_DEADLOCK FALSE
PROPERTY FailsOver
