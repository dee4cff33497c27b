SPECIFICATION Spec
CONSTANTS
  k1 = k1  k2 = k2
  r1 = r1  r2 = r2  r3 = r3
  w1 = w1  w2 = w2
  Keys = {k1, k2}
  Records = {r1, r2, r3}
  Workers = {w1, w2}
  KeyOf <- MCKeyOf
  Measured <- MCMeasured
  MaxEntries = 1
  TTL = 0
  MaxTime = 1
  Other = Other
  Sweeper = Sweeper
  None = None
INVARIANTS TypeOK EntryBound CountedOnce LatchExact FoldsExplainOverflow
PROPERTIES SnapshotComplete ScrapesMonotone CountsAsTally EvictsOnlyIdle
SYMMETRY MCSymmetry
