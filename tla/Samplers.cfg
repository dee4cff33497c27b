SPECIFICATION Spec
CONSTANTS
  d1 = d1  d2 = d2  r1 = r1  r2 = r2
  Domains = {d1, d2}
  SamplerIds = {zero, one}
  Unsampled = zero
  Templates = {t1}
  Interfaces = {i1}
  Rates = {r1, r2}
  Arriving <- MCArriving
  MaxSamplers = 2
  TTL = 1
  MaxTime = 2
  None = None
VIEW MCView
SYMMETRY MCSymmetry
INVARIANTS
  CopiesAgree
  CorrectedByPrecedence
PROPERTIES
  OnlySilentLeave
