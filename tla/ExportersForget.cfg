SPECIFICATION Spec
CONSTANTS
  a = a  b = b  c = c  w1 = w1  w2 = w2
  da1 = da1  da2 = da2  db1 = db1  db2 = db2  dc1 = dc1
  SourceOf <- MCSourceOf
  None = None
  Addresses = {a, b, c}
  Datagrams = {da1, da2}
  Workers = {w1, w2}
  Feeds <- MCSharded
  MaxExporters = 1
  TTL = 1
  MaxTime = 3
  Ids = {1, 2, 3, 4, 5}
PROPERTIES
  ForgetsOnlyDropped
