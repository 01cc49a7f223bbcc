SPECIFICATION HeapSpec
CONSTANTS
  TMEVTB = {e1, e2, e3, e4, e5, e6}
  TIMES = {1, 2, 3, 4}
SYMMETRY Symmetry
INVARIANTS HeapOK
PROPERTIES OneAtATime
