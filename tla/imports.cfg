SPECIFICATION FairSpec
CONSTANTS
  c1 = c1
  c2 = c2
  debian = debian
  other = other
  Controllers = {c1, c2}
  Images = {debian, other}
  Scenarios <- ImportScenarios
  MaxSize = 2
  OtherProjects = 3
  ListLimit = 32
  Quota = 3
CHECK_DEADLOCK FALSE
INVARIANTS
  TypeOK
  OnlyFinishedUploads
  ReadyWithImages
  RootDisksFit
  DisksAccountedFor
PROPERTIES
  ImportsUnlessStranded
  ImplementsCatalogue
  StrandedStays
