SPECIFICATION Spec
CONSTANTS
  e = e
  v = v
  b = b
  x = x
  NULL = NULL
  Buttons <- MCButtons
  Entries <- MCEntries
  Views <- MCViews
  Layouts <- MCLayouts
  Steady = TRUE
INVARIANTS
  TypeOK
  FocusEvents
PROPERTY
  FocusRemains
