CONSTANTS
  NULL = NULL
  BlockSize = 36
  Image <- MCImage
  HEAP_SLOTS = 16
  MAX_OPEN_FILES = 1
  MAX_MOUNTS = 2
  MAX_PATH_LENGTH = 8
  FsRoots <- MCFsRoots
  Paths <- MCMountPaths
  Flags = {0, 2}
  Offsets = {0, 30}
  Whences = {0, 1, 2, 3}
  ReadSizes = {40}
  Indices = {3, 4}
  IoFails = {0, 2}
  Width = 6
SPECIFICATION Spec
INVARIANT
  MountedTreeVisible
