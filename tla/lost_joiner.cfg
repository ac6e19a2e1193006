SPECIFICATION FairSpec
CONSTANTS
  Count = 3
  Ids = {0, 1, 2}
  Commands <- DefaultCommand
  Page = 32
  Losable = {1, 2}
  Allowed <- OneLoss
CHECK_DEADLOCK FALSE
PROPERTY
  KeptAlive
