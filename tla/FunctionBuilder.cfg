SPECIFICATION Spec
CONSTANTS
  NumBlocks = 3
  Place = {x, y}
  MaxOps = 3
INVARIANTS LookupsNest WellFormed ReadsSeeVariable
\* The finished function stops at its exit.
CHECK_DEADLOCK FALSE
SYMMETRY Symmetry
