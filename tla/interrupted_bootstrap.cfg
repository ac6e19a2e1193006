SPECIFICATION FairSpec
CONSTANTS
  Count = 3
  Ids = {0, 1, 2}
  Commands <- TailnetCommand
  Page = 32
  Losable = {}
  Allowed <- NoFault
PROPERTY
  ClusterEnsured
