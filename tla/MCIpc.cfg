\* Three processes, one of them an interrupt task: the smallest table with a
\* cycle of senders longer than two and a queue of two senders.
CONSTANTS
  tty = tty
  fs = fs
  u = u
  Proc = {tty, fs, u}
  IntTask = {tty}
  MaxSends = 2
  ANY = ANY
  INTERRUPT = INTERRUPT
  NO_TASK = NO_TASK
SPECIFICATION Spec
INVARIANTS
  WellFormed
  NoSendCycle
  NobodySleepsInVain
  AssertsHold
  ExactlyOnce
PROPERTIES
  MessagesInOrder
  ImplementsRendezvous
SYMMETRY Symmetry
CHECK_DEADLOCK FALSE
