CONSTANTS
  w1 = w1 w2 = w2 c1 = c1
  Workers = {w1, w2}
  Clients = {c1}
  NLots = 2
  Plans <- CheckedPlans
  NTasks = 3
  RqCap = 1
  RemoteCap = 1
  None = None
SPECIFICATION Spec
INVARIANTS NoTaskStranded NoIdleWhileReady
PROPERTIES ReadyRuns WorkersEnd
CHECK_DEADLOCK FALSE
