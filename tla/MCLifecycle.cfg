\* One open vault, its tasks, a rebuild of the search index and its close.
SPECIFICATION FairSpec
CONSTANTS
  MaxRebuilds = 1
  Free = Free
INVARIANTS LiveFlagsTrue OneWriterWhileOpen
PROPERTIES BuildingEnds ClosedComesToRest
CHECK_DEADLOCK FALSE
