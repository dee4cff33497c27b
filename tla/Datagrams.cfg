CONSTANTS
  Mod = 64
  ForwardWindow = 16
  ReorderWindow = 12
  MaxLateRun = 3
  MaxSessions = 1
  MaxSamplers = 1
  Base = 4
  Variable = 9
  MaxSet = 6
  MaxHeld = 2
  MaxFields = 4
  Ttl = 1
  Protocols = {"v5", "v8", "v9", "ipfix", "sflow"}
  Samplers = {"i1", "i2"}
  First = "i1"
  FirstLayouts <- MCFirstLayouts
  Layouts <- MCLayouts
  Streams <- MCStreams
  Starts <- MCStarts
  Jumps <- MCJumps
  MaxSends <- MCMaxSends
  MaxFlight = 2
  MaxFaults <- MCMaxFaults
SPECIFICATION Spec
INVARIANTS
  MissedExact
  PositionRecovers
  HeldAsAnnounced
  ReturnsEveryRecord
  RefusesOnlyWhileFresh
  PoolMeasured
CHECK_DEADLOCK FALSE
