CONSTANTS
  Bthreads = {b1}
  PthreadTasks = {q1}
  Pthreads = {p1}
  Wakers = {w1}
  Interrupters = {i1}
  Butexes = {x, y}
  WaitButexes = {x}
  Values = {0, 1}
  Timed = {TRUE, FALSE}
  Lifo = {q1}
  Sleepers = {b1}
  Limits <- Plans
  None = None
SPECIFICATION Spec
INVARIANTS ReadyOnce 
PROPERTIES ImplementsFutex DueWaitReturns
CHECK_DEADLOCK FALSE
