SPECIFICATION Spec
CONSTANTS
  Top = "Top"
  None = None
  Designs <- MCDesigns
  Loops = FALSE
  Feeds = FALSE
INVARIANTS
  PassesKeepNets
  ReadsItsSignal
  WokenBySource
  NetlistIsFlat
CHECK_DEADLOCK FALSE
