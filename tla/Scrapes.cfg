CONSTANTS
  Damaged = Damaged
  Unreadable = Damaged
  Content <- MCContent
  Builtin <- MCBuiltin
  Private = {}
  MaxNames = 1
  IfIndexMax = 3
  VLANIDMax = 3
  Width = 16
  TopK = 2
  MinBytes = 1
  Scenes <- MCScenes
  Arrivals <- MCArrivals
  Callers = {http, hangup}
  Clients = {c1, c2}
  Others <- MCOthers
  MaxEntries = 5
SPECIFICATION Spec
INVARIANTS
  CutExact
  NamesWhatItPublishes
  TellsPushesApart
PROPERTIES
  ReloadsMoveForward
  OneListing
