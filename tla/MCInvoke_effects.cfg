SPECIFICATION MCSpec
CONSTANTS
  Invocations = {i1, i2, i3}
  None = None
  alice = alice
  a1 = a1
  a2 = a2
  k1 = k1
  p1 = p1
  Scenarios <- FleetScenarios
  Requests <- MCRequests
  Ops = {"fleet.call"}
  Operation <- MCOperation
  FleetCall = "fleet.call"
  Decisions <- ChangingTool
  Principals = {alice}
  Args = {a1, a2}
  Keys = {k1}
  PlanRefs = {p1}
  MaxRev = 1
INVARIANTS AtMostOneDispatch SuccessIsDurable PlanSpentOnce
           DispatchedAsReserved DispatchedAsConfirmed
PROPERTIES ImplementsEffectOnce
SYMMETRY Symmetry
