CONSTANTS
  Procs = {p1, p2}
  IdMaxRange = 3
  CreateRange = 1
  ResetRanges = {0, 2}
  Undo = FALSE
  Modulus = 17
  StartVers = {0}
  MaxCalls = 3
  MaxErrors = 0
  MaxCreates = 1
SPECIFICATION FairSpec
PROPERTY LockReturns
CHECK_DEADLOCK FALSE
