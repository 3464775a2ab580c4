\* One connection of the server's and one of the client's the user guards, one
\* of the client's it drops at any time, one of the server's it never keeps.
\* The guarded one of the client's is reset, so that poll() returns it when it is
\* closed. Number 2 is a uint16_t, number 5 is not, and is taken for 2.
CONSTANTS
  Conns = {c1, c2}
  MaxAttempts = 2
  Acceptor = A
  Fds = {2, 5}
  FD_WORD = 3
  Senders = {1}
  Resetters = {2}
  Guarded = {c1, 2}
  Loose = {1}
SPECIFICATION FairSpec
INVARIANTS
  TypeOK
  EntryPerOpenConnection
  GuardedAreSafe
  DescriptorsAreTheirs
  NoDescriptorLeaks
  ConnectionWasAccepted
PROPERTIES
  DescriptorsComeBack
  AnswerIsNoticed
  AnnouncedIsAccepted
\* the process may end in the use of a destroyed channel
CHECK_DEADLOCK FALSE
