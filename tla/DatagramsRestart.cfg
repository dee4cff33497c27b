CONSTANTS
  Mod = 64
  ForwardWindow = 16
  ReorderWindow = 12
  MaxLateRun = 1
  MaxSessions = 1
  MaxSamplers = 2
  Base = 4
  Variable = 9
  MaxSet = 6
  MaxHeld = 2
  MaxFields = 4
  Ttl = 1
  Protocols = {"sflow"}
  Samplers = {"i1", "i2"}
  First = "i1"
  FirstLayouts <- MCFirstLayouts
  Layouts <- MCLayouts
  Streams <- MCStreams
  Starts <- MCStarts
  Jumps <- MCLowJumps
  MaxSends <- MCMaxSends
  MaxFlight = 2
  MaxFaults <- MCMaxFaults
SPECIFICATION Spec
INVARIANT SamplerRecovers
CHECK_DEADLOCK FALSE
