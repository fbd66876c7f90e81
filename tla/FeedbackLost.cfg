SPECIFICATION Spec
CONSTANTS
  Top = "Top"
  None = None
  Designs <- MCDesigns
  Loops = TRUE
  Feeds = FALSE
INVARIANTS
  ReadsItsSignal
CHECK_DEADLOCK FALSE
