\* Fair behaviours: every call settles, every restart ends.
SPECIFICATION FairSpec
CONSTANTS
  None = None
  Compiles = {c1}
  OwnedCompiles = {}
  Sessions = {s1, s2}
  MaxRequests = 4
  OpTypes = {"run"}
  StepsThrow = FALSE
PROPERTIES
  EveryCallSettles
  RestartEnds
CHECK_DEADLOCK FALSE
