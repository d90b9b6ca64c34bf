SPECIFICATION Spec
CONSTANTS
  Rates <- MCRates
  Walls <- MCWalls
  MaxReal = 8
  MaxSets = 2
INVARIANTS
  NoBacklog
  NoBurst
  NoDrift
PROPERTY
  NoStall
