\* Input and FIN arrive together.
CONSTANTS
  LoopThread = L
  OtherThreads = {t1}
  Messages = {m1}
  Long = {m1}
  Size <- MCSize
  Capacity = 2
  ReadMax = 2
  MaxArrivals = 2
  ShutdownCallers = {}
  PeerCloses = TRUE
  PeerResets = FALSE
SPECIFICATION FairSpec
PROPERTIES
  PeerCloseIsNoticed
\* users and peer may fall silent, and SIGPIPE ends the process
CHECK_DEADLOCK FALSE
