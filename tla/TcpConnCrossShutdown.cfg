\* shutdown() called from another thread.
CONSTANTS
  LoopThread = L
  OtherThreads = {t1}
  Messages = {m1}
  Long = {m1}
  Size <- MCSize
  Capacity = 2
  ReadMax = 2
  MaxArrivals = 2
  ShutdownCallers = {t1}
  PeerCloses = FALSE
  PeerResets = FALSE
SPECIFICATION Spec
INVARIANTS
  HalfCloseLosesNothing
\* users and peer may fall silent, and SIGPIPE ends the process
CHECK_DEADLOCK FALSE
