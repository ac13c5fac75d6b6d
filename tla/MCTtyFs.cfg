\* One program reads the terminal; both write it.
CONSTANTS
  User = {a, b}
  Reader = {a}
  Lens = {2}
  KB_IN_BYTES = 1
  TTY_IN_BYTES = 2
  MaxKeys = 3
  TTY = TTY
SPECIFICATION Spec
\* msg_send stops the machine at a cycle of SENDs.
CHECK_DEADLOCK FALSE
INVARIANTS
  SuspendedIsServed
  RepliesMatchCalls
PROPERTIES
  KeysAreRead
  EnterEndsRead
