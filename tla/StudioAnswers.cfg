\* Two calls to one tab.
SPECIFICATION Spec
CONSTANTS
  None = None
  Tabs = {t1}
  Servers = {v1}
  k1 = k1
  k2 = k2
  Calls <- MCCalls
  Conns = {d1}
  Sources = {"a", "b", "bad"}
  Starts = {0, 1}
  NoStart <- MCNoStart
  Shown <- MCShown
  Broken = {"bad"}
  Misfits <- MCMisfits
  MaxFaults = 0
  MaxAttempts = 1
PROPERTY AnswersAreTrue
CHECK_DEADLOCK FALSE
