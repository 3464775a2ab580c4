\* The user keeps nothing, as examples/BasicUsage.cpp, and destroys nothing
\* before the counterexample is complete.
CONSTANTS
  Conns = {c1, c2}
  MaxAttempts = 0
  Acceptor = A
  Fds = {2, 5}
  FD_WORD = 3
  Senders = {}
  Resetters = {}
  Guarded = {}
  Loose = {}
SPECIFICATION Spec
INVARIANTS
  NoUseAfterEnd
\* the process may end in the use of a destroyed channel
CHECK_DEADLOCK FALSE
