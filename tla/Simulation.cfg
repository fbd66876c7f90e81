SPECIFICATION Spec
CONSTANTS
  None = None
  Words <- MCWords
  Memories <- MCMemories
  Zero = 0
  Declared <- MCDeclared
  Programs <- MCPrograms
  Overlay <- MCOverlay
  NextReg <- MCNextReg
  NextMem <- MCNextMem
  Throws <- MCThrows
  HistorySize = 2
  TickCounts = {1, 2}
  MaxCycles = 2
  MaxWrites = 2
INVARIANTS
  ReadsAreSettled
  HistoryIsSettled
  CyclesAgree
PROPERTY HistoryOnlyGrowsAtCursor
