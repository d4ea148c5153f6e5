SPECIFICATION MCSpec
CONSTANTS
  i1 = i1
  telegram = telegram
  slack = slack
  c1 = c1
  w1 = w1
  w2 = w2
  m1 = m1
  m2 = m2
  Focuses = {"turns"}
  Processes = {i1}
  Platforms = {telegram, slack}
  Ttl = 3
  EngineFails = TRUE
  SlowConnect = FALSE
  MaxRestarts = 1
  MaxEpoch = 3
  Backends = {telegram}
  Channels = {c1}
  BackendOf <- MCBackendOf
  Waiters = {w1, w2}
  Window = 1
  MaxWait = 2
  MaxMessages = 3
  Messages = {m1, m2}
  MaxAttempts = 2
  Limit = 1
  MaxRecords = 3
CHECK_DEADLOCK FALSE
INVARIANT NextMessageResolves
