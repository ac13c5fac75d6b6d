CONSTANTS
  User = {5, 9}
  FS = FS
  MM = MM
  MaxIno = 4
  NR_CONSOLES = 1
  MaxEnt = 6
  BlockEnt = 4
  NR_FILES = 1
  NR_FILE_DESC = 2
  NR_INODE = 3
  NewDirs <- MCNames
  Programs <- MCNames
  Paths <- MCPaths
  Flags <- MCFlags
  MaxNames = 1
  Callers = {9}
SPECIFICATION GSpec
\* The system stops at an assertion or a panic.
CHECK_DEADLOCK FALSE
INVARIANTS
  PointersCounted
  HeldIsAllocated
  NamesAreAllocated
  GetcwdReturns
