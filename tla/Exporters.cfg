SPECIFICATION FairSpec
CONSTANTS
  a = a  b = b  c = c  w1 = w1  w2 = w2
  da1 = da1  da2 = da2  db1 = db1  db2 = db2  dc1 = dc1
  SourceOf <- MCSourceOf
  None = None
  Addresses = {a, b, c}
  Datagrams = {da1, db1, db2, dc1}
  Workers = {w1, w2}
  Feeds <- MCPartly
  MaxExporters = 2
  TTL = 1
  MaxTime = 2
  Ids = {1, 2, 3, 4, 5}
INVARIANTS
  BudgetHeld
  CountedOnce
PROPERTIES
  EvictsOnlySilent
  SilentGiveWay
