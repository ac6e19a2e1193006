SPECIFICATION Spec
CONSTANTS
  Sizes = {1, 4, 10, 16, 19, 20}
  Blocksize = 2
  Parallelism = 3
  Buffer = 4
  Refusals = 0
CHECK_DEADLOCK FALSE
INVARIANT
  WholeFileWritten
