CONSTANTS
  Writers = {w1, w2}
  Keepers = {k1, k2}
  Readers = {r1}
  Options = {{}, {"notify"}, {"bad"}, {"shutdown"}}
  Length = 2
  Limit = 5
  DataListMax = 2
  MaxReq = 3
SPECIFICATION Spec
SYMMETRY Symmetry
INVARIANTS OneWriter MessagesIntact PipelineMatchesWire UnwrittenExact NothingAfterShutdown NoIdLeft
CHECK_DEADLOCK FALSE
