SPECIFICATION FairSpec
CONSTANTS
  c1 = c1
  c2 = c2
  r1 = r1
  r2 = r2
  Controllers <- OneController
  InCluster = {}
  Requests <- TwoRequests
  NoRequest = NoRequest
  Counts = {0, 3}
  FlagCount = 1
  InitTargets = {NoCount, 1}
  NoCount = NoCount
  Others = 2
  ListLimit = 5
  Allowed <- TwoErrors
CHECK_DEADLOCK FALSE
INVARIANTS
  PoolWithinTargets
  ReportedCountWasCurrent
  AcceptedCountKept
PROPERTIES
  TargetEventuallyMet
  ImplementsPool
