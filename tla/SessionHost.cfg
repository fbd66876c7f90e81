\* One session, every kind of request.
SPECIFICATION FairSpec
CONSTANTS
  None = None
  Compiles = {c1}
  Sessions = {s1}
  MaxRequests = 5
  OpTypes = {"run", "pause", "op", "scan"}
  StepsThrow = TRUE
  MaxSlices = 2
INVARIANTS OneStepToCome
PROPERTIES ImplementsWorker AnsweredUnlessFaulty
CHECK_DEADLOCK FALSE
