CONSTANTS
  Callers = {c1, c2}
  Workers = {w1, w2}
  MaxCalls = 4
  MaxId = 2
SPECIFICATION Spec
SYMMETRY Symmetry
INVARIANTS OneConsumer InOrder RunOrCancelled HighPriorityFirst StopIsLast NothingLeft
CHECK_DEADLOCK FALSE
