SPECIFICATION FairSpec
CONSTANTS
  c1 = c1
  c2 = c2
  r1 = r1
  r2 = r2
  Controllers <- OneController
  InCluster <- OneController
  Requests <- OneRequest
  NoRequest = NoRequest
  Counts = {5}
  FlagCount = 1
  InitTargets = {1}
  NoCount = NoCount
  Others = 3
  ListLimit = 32
  Allowed <- ThreeConflicts
CHECK_DEADLOCK FALSE
PROPERTY
  TargetEventuallyMet
