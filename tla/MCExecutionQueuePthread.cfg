CONSTANTS
  Producers = {p1, p2}
  Threads = {t1, t2, t3}
  MaxTasks = 3
  MaxId = 2
SPECIFICATION Spec
INVARIANT RightUnique
CHECK_DEADLOCK FALSE
