\* Three presses and releases; a buffer that PrintScreen and an arrow overflow.
CONSTANTS
  Keys <- MCKeys
  Arrivals = 3
  KB_IN_BYTES = 6
SPECIFICATION Spec
CHECK_DEADLOCK FALSE
INVARIANTS
  KeysFollowTheUser
PROPERTIES
  TtyComesBack
