\* Two calls, two tabs, two servers.
SPECIFICATION Spec
CONSTANTS
  None = None
  Tabs = {t1, t2}
  Servers = {v1, v2}
  k1 = k1
  k2 = k2
  Calls <- MCCalls
  Conns = {d1, d2}
  Sources = {"a", "b", "bad"}
  Starts = {0, 1}
  NoStart <- MCNoStart
  Shown <- MCShown
  Broken = {"bad"}
  Misfits <- MCMisfits
  MaxFaults = 2
  MaxAttempts = 1
INVARIANTS
  SlotIsCurrent
  PushHasTarget
  SessionsAreOpen
  RequestsCarryTheirPush
  ShowsLastPush
SYMMETRY Symmetry
CHECK_DEADLOCK FALSE
