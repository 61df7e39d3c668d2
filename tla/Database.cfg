CONSTANTS
  w1 = w1
  b1 = b1
  p1 = p1
  o1 = o1
  o2 = o2
  x1 = x1
  None = None
  Writers <- MCWriters
  Blocks <- MCBlocks
  Pruners <- MCPruners
  Openers <- MCOpeners
  Closers <- MCClosers
  Cancellable <- MCCallers
  LastVersion = 2
  MaxFaults = 2
SPECIFICATION Spec
INVARIANTS SchemaIsTrue LockHasWorker
PROPERTIES AtomicStoreSpec
CHECK_DEADLOCK FALSE
