SPECIFICATION IntakeSpec
CONSTANTS
  Processes = {i1}
  Platforms = {telegram, slack}
  Ttl = 3
  EngineFails = TRUE
  SlowConnect = TRUE
  MaxRestarts = 0
  MaxEpoch = 1
CHECK_DEADLOCK FALSE
INVARIANT LossStopsPolling
