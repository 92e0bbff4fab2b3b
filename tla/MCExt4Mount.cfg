CONSTANTS
  Disks <- MCDisks
  InodeNums <- MCInodeNums
  Gens = {1, 2}
  NULL = NULL
SPECIFICATION Spec
INVARIANTS
  TypeOK
  MountAllOrNothing
  InodeLocated
