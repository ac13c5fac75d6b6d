\* Two consoles of four lines of two characters, with one word between them, and
\* a screen of two lines.  Six characters reach the end of a console twice.
CONSTANTS
  NR_CONSOLES = 2
  SCR_WIDTH = 2
  SCR_LINES = 2
  V_MEM_SIZE = 18
  Writers = {0}
  Texts <- MCTexts
  DispPos = 2
  Counts = {2}
  MaxOut = 6
SPECIFICATION Spec
CHECK_DEADLOCK FALSE
INVARIANTS
  ScreenIsTrue
PROPERTIES
  OutputEnds
