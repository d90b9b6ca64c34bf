SPECIFICATION Spec
CONSTANTS
  PageSize = 1024
  Header = 32
  Ptr = 8
  Sizes <- MCSizes
  Aligns <- MCAligns
  Blocks <- MCBlocks
  Pages <- MCPages
  NULL = NULL
  OWN = OWN
  MixedClass = FALSE
  b1 = b1
  b2 = b2
  b3 = b3
  p1 = p1
  p2 = p2
  p3 = p3
  p4 = p4
SYMMETRY MCSymmetry
INVARIANTS
  TypeOK
  NoOverlap
  PagesHeld
  PageAccounting
  PageList
  LeakReport
CHECK_DEADLOCK FALSE
