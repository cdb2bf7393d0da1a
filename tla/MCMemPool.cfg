SPECIFICATION Spec
CONSTANTS
  Buffers <- MCBuffers
  Header = 2
  Requests = {0, 3}
  SizeMod = 65536
CHECK_DEADLOCK FALSE
INVARIANTS NoOverlap ChainSound BlockLargeEnough
PROPERTIES Conserved
