SPECIFICATION FairSpec
CONSTANTS
  l1 = l1  x = x  y = y  wx = wx  wy = wy
  dx1 = dx1  dx2 = dx2   dy1 = dy1
  ShardOf <- MCShardOf
  SourceOf <- MCSourceOf
  None = None
  Listeners = {l1}
  Workers = {wx, wy}
  Exporters = {x, y}
  Datagrams = {dx1, dx2, dy1}
  Arrivals <- MCArrivals
  Truncated = {}
  BatchSize = 2
  QueueSize = 1
  ShardSize = 1
  Buffers = {1, 2, 3, 4, 5}
  Readers = {db1, db2}
INVARIANTS
  BufferIntact
  OneWorkerPerDevice
  NothingClosedIsUsed
  DrainedAtExit
PROPERTIES
  DeliversInOrder
  StopEnds
