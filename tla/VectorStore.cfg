SPECIFICATION Spec
CONSTANTS
  Chunk = {k1, k2}
  Writer = {w1, w2}
  Reader = {r1}
  None = None
  BatchSize = 1
  MaxStores = 2
  MaxCalls = 4
  MaxFaults = 2
SYMMETRY Symmetry
INVARIANT UpsertedKept
INVARIANT FreshRead
CHECK_DEADLOCK FALSE
