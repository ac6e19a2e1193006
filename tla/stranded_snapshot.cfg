SPECIFICATION FairSpec
CONSTANTS
  c1 = c1
  c2 = c2
  debian = debian
  other = other
  Controllers = {c1}
  Images = {debian, other}
  Scenarios <- OneFailure
  MaxSize = 1
  OtherProjects = 3
  ListLimit = 32
  Quota = 2
PROPERTY
  ImagesCreated
