SPECIFICATION FairSpec
CONSTANTS
  ByteBits = 1
  Zero = 0
  Four = 4
  Regs = {0, 1, 2}
  x0 = 0
  Functs = {0, 1, 2, 4, 5}
  Offsets = {0, 1, 2, 3}
  AluOps <- MCAluOps
  Words <- MachineWords
  Memories <- DataMemories
  Contents <- MCContents
  Programs <- MCPrograms
  Fetch <- InstructionAt
  Plus <- Add
  Even <- WithoutBit0
  Alu <- AluResult
  Take <- BranchTaken
  ReadWord <- WordAt
  Offset <- ByteOffset
  Align <- AlignedLoad
  Store <- AfterStore
  Load <- LoadedAt
INVARIANTS
  LoadsAreAwaited
  OnPath
PROPERTIES
  ImplementsIsa
  KeepsExecuting
