\* Two text sources and a circuit built on the page between them.
SPECIFICATION Spec
CONSTANTS
  None = None
  BuiltSources = {2}
  MaxSource = 3
  MaxOptions = 2
  MaxCompiles = 4
INVARIANTS
  LiveIsHeld
  ShowsNewest
  NothingLeftBehind
PROPERTY NeverGoesBack
CHECK_DEADLOCK FALSE
