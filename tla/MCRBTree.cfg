SPECIFICATION Spec
CONSTANTS
  MaxKey = 8
  Keys <- MCKeys
  NULL = NULL
INVARIANTS
  TypeOK
  RedBlack
  PathFits
  PathIsCurrent
PROPERTY
  ImplementsOrderedSet
