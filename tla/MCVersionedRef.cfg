CONSTANTS
  Users = {u1, u2}
  Checkers = {c1}
  Owner = o
  MaxId = 4
SPECIFICATION Spec
SYMMETRY Symmetry
INVARIANTS NoFatal NoUseAfterRecycle RecycledOnce RefsCounted
PROPERTY RemovedStaysFailed
CHECK_DEADLOCK FALSE
