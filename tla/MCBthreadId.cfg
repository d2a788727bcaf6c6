CONSTANTS
  Procs = {p1, p2, p3}
  IdMaxRange = 3
  CreateRange = 1
  ResetRanges = {0, 3}
  Undo = FALSE
  Modulus = 17
  StartVers = {9, 11, 12}
  MaxCalls = 4
  MaxErrors = 2
  MaxCreates = 2
SPECIFICATION Spec
SYMMETRY Symmetry
INVARIANTS  NoErrorForgotten   VersionsOrdered
PROPERTY ErrorsInOrder
CHECK_DEADLOCK FALSE
