SPECIFICATION Spec
CONSTANTS
  c1 = c1
  c2 = c2
  None = None
  Calls = {c1, c2}
  Shape <- OnceShapes
  MaxConc = 1
  Threshold = 1
  MaxRestarts = 1
  Ages = FALSE
  MaxGen = 2
CHECK_DEADLOCK FALSE
INVARIANT ProbeOutcomeSettles
