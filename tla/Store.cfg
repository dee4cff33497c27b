SPECIFICATION Spec
CONSTANTS
  a = a  b = b  a1 = a1  a2 = a2  b1 = b1  t1 = t1  t2 = t2  w1 = w1  w2 = w2
  Exporters = {a}
  Domains = {a1, a2}
  Refs = {t1}
  FieldCounts = {1, 2}
  Samplers = {s1}
  Workers = {w1}
  Feeds <- MCOneWorker
  MaxDomains = 2
  MaxExporters = 1
  MaxTemplates = 1
  MaxFields = 1
  MaxSamplers = 1
  TTL = 1
  MaxTime = 2
  Ids = {1, 2, 3, 4}
  ExporterOf <- MCExporterOf
  TableOf <- MCTableOf
  None = None
VIEW MCView
SYMMETRY MCSymmetry
INVARIANTS
  FieldsCharged
  DecodesByLastLayout
  TableShared
