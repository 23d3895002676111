SPECIFICATION FairSpec
CONSTANTS
  N = 3
  MaxArgs = 2
INVARIANTS NeverRemovedTwice NoReaderLeft NothingDeadLeft OnlyDeadRemoved
PROPERTY Terminates
