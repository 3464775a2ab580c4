\* Two threads log three events to two handlers, also while the process exits.
CONSTANTS
  Threads = {t1, t2}
  Events = {e1, e2, e3}
  Console = Console
  MoreHandlers = {File}
SPECIFICATION FairSpec
INVARIANTS
  TypeOK
  NoLostNotification
  HandlersAgree
  StopDrains
PROPERTIES
  RefinesFunctorQueue
  EventsAreHandled
\* the process ends
CHECK_DEADLOCK FALSE
