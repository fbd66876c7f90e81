\* Two sessions, one compile of the page's and one an open owns.
SPECIFICATION Spec
CONSTANTS
  None = None
  Compiles = {c1, c2}
  OwnedCompiles = {c2}
  Sessions = {s1, s2}
  MaxRequests = 4
  OpTypes = {"run", "pause", "op", "scan"}
  StepsThrow = TRUE
INVARIANTS
  WatchdogArmed
  WorkerSeesOneSide
  EveryCallOwedOnce
  HandlesAreBacked
  TableMatchesWorker
  RunStatesAgree
PROPERTY RestartAccountsForAll
CHECK_DEADLOCK FALSE
