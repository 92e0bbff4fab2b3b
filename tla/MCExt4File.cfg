CONSTANTS
  Files <- MCFiles
  DiskNodes <- MCDiskNodes
  BlockSize <- MCBlockSize
  ExtentsFeature = TRUE
  Blocks <- MCBlocks
  Offsets <- MCOffsets
  Sizes <- MCSizes
  Width = 20
  NULL = NULL
SPECIFICATION Spec
INVARIANTS
  TypeOK
  ScratchFreed
  BlockLookupCorrect
  ReadFileDataCorrect
  ExtentReadsInBounds
