CONSTANTS
  Layout <- MCLayout
  DiskSize = 23
  Slots = {0, 1}
  Identity <- MCIdentity
  Tar <- MCTar
  NR_DIRECT_ZONE = 1
  MINOR_hd1a = 16
  NR_SUB_PER_PART = 2
  HD_TIMEOUT = 1
  ROOT_DEV = 20
  Files <- MCFiles
  MaxFiles = 2
  MaxCrashes = 2
SPECIFICATION Spec
CHECK_DEADLOCK FALSE
INVARIANTS
  InterruptsPaired
  DiskIsFound
  UnpackedIsWhole
PROPERTIES
  ImplementsDisk
  FsComesUp
