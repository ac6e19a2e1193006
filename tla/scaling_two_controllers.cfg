SPECIFICATION Spec
CONSTANTS
  c1 = c1
  c2 = c2
  r1 = r1
  r2 = r2
  Controllers <- TwoControllers
  InCluster <- OneController
  Requests <- OneRequest
  NoRequest = NoRequest
  Counts = {2}
  FlagCount = 1
  InitTargets = {NoCount, 1}
  NoCount = NoCount
  Others = 3
  ListLimit = 32
  Allowed <- ThreeErrors
CHECK_DEADLOCK FALSE
INVARIANTS
  TypeOK
  OvershootBounded
PROPERTIES
  ImplementsPool
