SPECIFICATION FairSpec
CONSTANTS
  Nodes = {"a", "b", "c"}
  Inputs = {"in"}
  Slots = {1, 2}
  Open = Open
  Types <- MCTypes
  SourceTypes = {"Switch"}
  StatefulTypes = {"Register", "Enabled", "Memory"}
  Words = {0, 1}
  Zero = 0
  Eval <- MCEval
  OnTick <- MCOnTick
  Circuits <- MCCircuits
  CapFloor = 12
  CapPerNode = 3
  MaxCalls = 4
INVARIANTS
  QueueIsPending
  OnlyPendingAreStale
  WaveIsBounded
PROPERTIES
  ImplementsCircuit
  CallsEnd
CHECK_DEADLOCK FALSE
