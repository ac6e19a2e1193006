SPECIFICATION FairSpec
CONSTANTS
  Count = 3
  Ids = {0, 1, 2, 3}
  Commands <- PairwiseCommands
  Page = 32
  Losable = {0, 1, 2}
  Allowed <- EveryFault
CHECK_DEADLOCK FALSE
INVARIANTS
  TypeOK
  OneCluster
  NoOvershoot
  PublishedAfterSecret
PROPERTIES
  JoinersCanJoin
  
  CompletesUnlessInterrupted
  ImplementsMembers
  LostJoinerStays
  AbandonedStays
  HeadlessStays
