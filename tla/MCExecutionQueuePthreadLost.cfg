CONSTANTS
  Producers = {p1, p2}
  Threads = {t1, t2}
  MaxTasks = 2
  MaxId = 0
SPECIFICATION FairSpec
PROPERTY TasksComplete
CHECK_DEADLOCK FALSE
