CONSTANTS
  Users = {u1}
  Checkers = {c1}
  Owner = o
  MaxId = 2
SPECIFICATION Spec
INVARIANT ReleasedObjectRecycled
CHECK_DEADLOCK FALSE
