SPECIFICATION EvolutionSpec
CONSTANTS
  k1 = k1
  k2 = k2
  k3 = k3
  PKs = {k1, k2, k3}
  Cols = {"price", "stock"}
  Vals <- MCVals
  Null = null
  Absent = Absent
  Branches = {main, dev, test}
  Main = main
  dev = dev
  test = test
  ChangeSets <- MCChangeSets
  MaxCommits = 4
  MaxSeq = 9
  MaxChainDepth = 3
  Tables = {{k1, k2, k3}}
  AuditTables = {}
  r1 = r1
  r2 = r2
  Requests = {r1, r2}
  Kinds = {}
  NoRequest = NoRequest
  SessionIds = {}
  NoSession = NoSession
  KeyOrder <- MCKeyOrder
  Filters <- MCFilters
  IntWidth = 2
  NotNull = {"price"}
  Unique = {{"stock"}}
  InitialShape <- MCInitialShape
  MaxEpoch = 2
  MaxPlans = 2
  Principals = {ann, bob}
  MaxProposals = 1
  Keys = {x}
  Subjects = {sue, tom}
  Texts = {t1, t2}
  Lines = {trunk, side}
  Trunk = trunk
  Writers = {w1}
  MaxVersions = 2
  Assignments <- MCAssignments
  Workloads <- MCCatchUpWorkloads
  Confirmations = {TRUE, FALSE}
INVARIANT
  LiveCatchesUp
CHECK_DEADLOCK FALSE
