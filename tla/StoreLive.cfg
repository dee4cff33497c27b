SPECIFICATION FairSpec
CONSTANTS
  a = a  b = b  a1 = a1  a2 = a2  b1 = b1  t1 = t1  t2 = t2  w1 = w1  w2 = w2
  Exporters = {a, b}
  Domains = {a1, a2, b1}
  Refs = {}
  FieldCounts = {1, 2}
  Samplers = {}
  Workers = {w1, w2}
  Feeds <- MCPartly
  MaxDomains = 1
  MaxExporters = 1
  MaxTemplates = 1
  MaxFields = 3
  MaxSamplers = 1
  TTL = 1
  MaxTime = 2
  Ids = {1, 2, 3, 4, 5, 6, 7}
  ExporterOf <- MCExporterOf
  TableOf <- MCTableOf
  None = None
INVARIANTS
  BudgetsFollowDomains
PROPERTIES
  IdleDomainsLeave
