SPECIFICATION Spec
CONSTANTS
  heap_start = 32
  HeapLength = 352
  Wide = 65536
  MaxSegments = 11
  Sizes <- MCSizes
INVARIANTS ListSound BlocksAreTaken FreeIsMerged
CHECK_DEADLOCK FALSE
