\* Another thread sends, only the loop thread calls shutdown(); a slow peer
\* that may close or reset the connection. One read() takes all the input there
\* can be.
CONSTANTS
  LoopThread = L
  OtherThreads = {t1}
  Messages = {m1, m2}
  Long = {m1}
  Size <- MCSize
  Capacity = 2
  ReadMax = 2
  MaxArrivals = 2
  ShutdownCallers = {L}
  PeerCloses = TRUE
  PeerResets = TRUE
SPECIFICATION FairSpec
INVARIANTS
  TypeOK
  StreamInOrder
  WriteInterest
  HalfCloseLosesNothing
  OwnWritesSucceed
  CloseCallbackOnce
PROPERTIES
  ClosedIsFinal
  RefinesGracefulStream
  ShutdownCompletes
  OutputFlushed
  InputIsRead
\* users and peer may fall silent, and SIGPIPE ends the process
CHECK_DEADLOCK FALSE
