CONSTANTS
  Value = {v1, GRAVESTONE}
  Inst = {i1, i2}
  Use = {u1, u2, u3, u4}
  Block = {b1, b2}
  GRAVESTONE = GRAVESTONE
  MaxArgs = 2
  None = None
SPECIFICATION Spec
SYMMETRY Symmetry
INVARIANTS ValueUses OperandsOwned AttachesDetached PhiEdges UsesReachable
\* make_inst may find no fresh use: the bound on Use stops it.
CHECK_DEADLOCK FALSE
