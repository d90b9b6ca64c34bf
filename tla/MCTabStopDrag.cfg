SPECIFICATION Spec
CONSTANTS
  e = e
  v = v
  b = b
  x = x
  NULL = NULL
  Buttons <- MCButtons
  Entries <- MCEntries
  Views <- MCViews
  Layouts <- MCTwoButtons
  Steady = TRUE
PROPERTY
  OneTransient
CHECK_DEADLOCK FALSE
