CONSTANTS
  Handle = {h1, h2}
  Elem = {a, b}
  Reserved = Reserved
  MaxLen = 4
  MaxWords = 16
SYMMETRY Symmetry
SPECIFICATION PoolSpec
INVARIANTS PoolSound
PROPERTIES RefinesLists
