CONSTANTS
  Threads = {t1}
  Events = {e1, e2}
  Console = Console
  MoreHandlers = {}
SPECIFICATION FairSpec
PROPERTIES
  StopCompletes
\* the process ends
CHECK_DEADLOCK FALSE
