SPECIFICATION ControlSpec
CONSTANTS
  Focuses = {"invoke", "mounts", "migration", "intake", "tasks"}
  Invocations = {i1, i2}
  None = None
  alice = alice
  a1 = a1
  a2 = a2
  k1 = k1
  p1 = p1
  Scenarios <- MixedScenario
  Requests <- MCRequests
  Ops <- MixedOps
  Operation <- MCOperation
  FleetCall = "fleet.call"
  Decisions <- WriteTool
  Principals = {alice}
  Args = {a1}
  Keys = {k1}
  PlanRefs = {p1}
  MaxRev = 0
  MountCalls = {n1, n2}
  Probes = {r1, r2}
  MaxTools = 2
  MaxCatalog = 1
  Plans = {l1, l2}
  Records = {x1}
  Refs = {e1, e2}
  Targets = {"source", "target"}
  Cohorts = {h1, h2}
  MaxPlanVersion = 9
  Processes = {n1, n2}
  Platforms = {r1, r2}
  Ttl = 3
  EngineFails = TRUE
  SlowConnect = FALSE
  MaxRestarts = 0
  MaxEpoch = 2
  Deliveries = {n1, n2}
SYMMETRY ControlSymmetry
CHECK_DEADLOCK FALSE
INVARIANTS AuditLeads OneRuntime FollowersHaveALeader OneSharedProbe
           PublishedIsServed FenceFollowsPlan EvidenceReplays OnePoller
           AcknowledgedIsDecided OneProvenVerdict
PROPERTIES ImplementsSoleOwner
