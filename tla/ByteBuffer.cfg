CONSTANTS
  Bytes = {x, y}
  Zero = x
  PREPEND = 2
  INITIAL_SIZE = 1
  READ_MIN = 2
  MaxLen = 2
  MaxWaiting = 3
SPECIFICATION Spec
INVARIANTS
  TypeOK
  EmptyHasHeadroom
  MemoryFollowsDemand
PROPERTIES
  RefinesByteQueue
