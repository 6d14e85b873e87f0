SPECIFICATION MCSpec
CONSTANTS
  Writer = {w1, w2}
  Scanner = {w1, w2}
  NTasks = 2
  Owner = {o1, o2}
  MaxRetries = 2
  MaxIter = 0
  MaxRev = 5
  Batch <- AllBatches
  None = None
  a1 = a1
  a2 = a2
  c1 = c1
  c2 = c2
  child = child
  res = res
SYMMETRY Symmetry
INVARIANTS TypeOK StoredIsIndexed ScanMissesNothing
PROPERTIES AdvancesValidly CallsAreSettled
