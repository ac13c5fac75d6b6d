\* Three regions, so that a page may have three users; a program uses two pages
\* at the bottom of its region, and exec the one at its top.  The CPU keeps one
\* translation that fork, exec or exit has taken back.
CONSTANTS
  NR_ENTRY_PER_PAGE = 3
  NrTables = 2
  NrRegions = 3
  nr_page = 5
  PAGE_SIZE = 2
  InitImage = 2
  Touched = {0, 1}
  TlbSize = 1
SPECIFICATION Spec
\* A panic stops the machine.
CHECK_DEADLOCK FALSE
INVARIANTS
  UsesCounted
  WritableIsPrivate
  StoresArePrivate
