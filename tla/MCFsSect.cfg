\* Sectors of two bytes, one direct zone and two zones in a block: a file of four
\* sectors reaches all three levels.  cmd.tar takes eight of the fifteen sectors,
\* and the map fills up while the others are written, truncated and removed.
CONSTANTS
  Files = {tar, f, g}
  CmdTar = tar
  TarStart = 4
  TarSize = 4
  SECTOR_SIZE = 2
  NR_DIRECT_ZONE = 1
  NR_ZONE_PER_SECT = 2
  NrBits = 15
  NR_FILE_DESC = 2
  Lens = {1, 4}
  OldZones <- MCBlank
  Careful = TRUE
SPECIFICATION Spec
SYMMETRY Symmetry
\* A failed check of the code stops TASK FS.
CHECK_DEADLOCK FALSE
INVARIANTS
  SectorsHaveOneOwner
  InodeIsSynced
  ReadsBack
