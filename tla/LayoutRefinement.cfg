CONSTANTS
  Block = {b1, b2, b3}
  Inst = {i1, i2, i3, i4}
  None = None
SPECIFICATION Spec
INVARIANTS BlocksReachable InstsReachable BackwardReading
PROPERTIES RefinesAbstractLayout
\* remove_empty_block may panic: nothing follows.
CHECK_DEADLOCK FALSE
