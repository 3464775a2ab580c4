\* Nobody calls quit() before loop(): what is left is the place between the two
\* stores at its head.
CONSTANTS
  LoopThread = L
  OtherThreads = {t1}
  Functors = {f1}
  Quitters = {t1}
  SetupPosts = FALSE
  EarlyQuits = FALSE
SPECIFICATION FairSpec
PROPERTIES
  QuitIsHonoured
CHECK_DEADLOCK FALSE
