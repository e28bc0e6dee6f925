SPECIFICATION LifeSpec
CONSTANTS
  PKs = {k1, k2}
  Cols = {"price"}
  Vals = {0, 1}
  Null = 0
  Absent = Absent
  Branches = {main, dev}
  Main = main
  ChangeSets <- MCChangeSets
  MaxCommits = 5
  MaxSeq = 9
  MaxChainDepth = 2
  Tables = {{k1, k2}}
  AuditTables = {}
  r1 = r1
  r2 = r2
  c1 = c1
  c2 = c2
  Requests = {r1, r2}
  Kinds = {}
  NoRequest = NoRequest
  s1 = s1
  s2 = s2
  SessionIds = {s1, s2}
  NoSession = NoSession
  Callers = {c1, c2}
  SharedSessions = FALSE
  AtomicLimit = 0
  TrackedAtStart = {{k1, k2}}
  Partitioned = {{k1, k2}}
  WriteModes = {"open", "guarded"}
  Workloads <- MCWorkloads
INVARIANTS
  LifeTypeOK
  IntervalsSane
  DriftExplained
  StagedVersionsOwned
PROPERTIES
  
  PublishExact
  RevertExact
SYMMETRY LifeSymmetry
CHECK_DEADLOCK FALSE
