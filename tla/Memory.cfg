SPECIFICATION Spec
CONSTANTS
  d1 = d1  d2 = d2  t1 = t1  t2 = t2  m1 = m1  m2 = m2
  h1 = h1  h2 = h2  s1 = s1  s2 = s2
  Empty = Empty
  EtlMeta = EtlMeta
  Docs = {d1, d2}
  Texts = {t1, t2}
  Metas = {m1, m2}
  Handlers = {h1, h2}
  Servers = {s1, s2}
  MaxBatch = 2
  MaxRequests = 2
  MaxFaults = 1
  MaxIngests = 2
  MaxRuns = 1
SYMMETRY Interchangeable
INVARIANTS
  
  RepeatedIngestHeals
  MigrationFaithful
PROPERTY OneSource
CHECK_DEADLOCK FALSE
