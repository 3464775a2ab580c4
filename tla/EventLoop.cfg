\* One loop thread, two others, three functors, everybody may quit. No symmetry:
\* liveness is checked in the same run.
CONSTANTS
  LoopThread = L
  OtherThreads = {t1, t2}
  Functors = {f1, f2, f3}
  Quitters = {L, t1, t2}
  SetupPosts = FALSE
  EarlyQuits = TRUE
SPECIFICATION FairSpec
INVARIANTS
  TypeOK
  NoLostWakeup
  WakeUpArmed
PROPERTIES
  RefinesFunctorQueue
  NoFunctorStarves
  QuitStopsRunningLoop
\* after quit() the loop is over and its callers have nothing left to do
CHECK_DEADLOCK FALSE
