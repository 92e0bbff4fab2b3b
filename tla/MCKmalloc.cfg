CONSTANTS
  HeapSize <- MCHeapSize
  SizeBits = 16
  Requests <- MCRequests
  ReallocStale = FALSE
  NULL = NULL
SPECIFICATION Spec
INVARIANTS
  TypeOK
  HeapTiled
  LiveBlocksExact
  HeapUsedAccurate
PROPERTIES
  NoSilentHeapChange
  HeapRefinement
