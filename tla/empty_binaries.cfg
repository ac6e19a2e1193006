SPECIFICATION FairSpec
CONSTANTS
  n1 = n1
  n2 = n2
  w1 = w1
  small = small
  large = large
  Unset = Unset
  Servers = {n1, n2}
  Workers = {w1}
  Specs = {small, large}
  DefaultSpec = small
  Scenarios <- NoFaults
CHECK_DEADLOCK FALSE
INVARIANT
  BinaryOnEveryNode
