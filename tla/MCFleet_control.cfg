SPECIFICATION MCSpec
CONSTANTS
  Focuses = {"child", "scale", "loads", "browser"}
  c1 = c1
  c2 = c2
  None = None
  Calls = {c1, c2}
  Shape <- CallShapes
  MaxConc = 1
  Threshold = 1
  MaxRestarts = 1
  Ages = TRUE
  MaxGen = 3
  Deliveries = {d1, d2}
  MaxDeliveries = 3
  Intents = {"asked", "altered"}
  Controllers = {"writer", "other"}
  Writer = "writer"
  Glasses = {"signed", "resigned"}
  MaxAttempts = 2
  LeaseTtl = 1
  FenceEnd = 2
  LoadItems = {t1, t2}
  LoadRequests = {q1, q2}
  Bindings = {"b1"}
  LoadCap = 1
  MaxLoads = 2
  MaxEdits = 1
  Clients = {"client"}
CHECK_DEADLOCK FALSE
INVARIANTS LoadsTypeOK SlotsConserved ReplayOnlyAfterDeath SentAfterRefresh ProbeHasOwner
           VerifiedAnswersAgree ActuationIsOnRecord
           OneShotOnce QuietSessionIsClean NoticeOwed
           ReceiptIsBacked EffectAsReported
PROPERTY StaleGrantIsHarmless
