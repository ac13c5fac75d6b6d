\* Three processes with one message each: a RECEIVE, a SEND to the receiver
\* and an interrupt for it can meet in every order.
CONSTANTS
  tty = tty
  fs = fs
  u = u
  Proc = {tty, fs, u}
  IntTask = {tty}
  MaxSends = 1
  ANY = ANY
  INTERRUPT = INTERRUPT
  NO_TASK = NO_TASK
SPECIFICATION WSpec
SYMMETRY Symmetry
CHECK_DEADLOCK FALSE
INVARIANT WindowIsSound
