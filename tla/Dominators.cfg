SPECIFICATION FairSpec
CONSTANTS
  MCN = 5
  N = 5
  Graphs <- MCGraphs
INVARIANTS NoPanic ClimbsDown Dominance
PROPERTY Terminates
CHECK_DEADLOCK FALSE
