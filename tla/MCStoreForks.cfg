SPECIFICATION Spec
CONSTANTS
  PKs = {k1}
  Cols = {"price"}
  Vals = {0, 1, 2}
  Null = 0
  Absent = Absent
  Branches = {main, dev, fix}
  Main = main
  ChangeSets <- MCForkChangeSets
  MaxCommits = 4
  MaxSeq = 9
  MaxChainDepth = 3
  Tables = {{k1}}
  AuditTables = {}
  Requests = {r1}
  NoRequest = NoRequest
  SessionIds = {}
  NoSession = NoSession
  Kinds = {"commit", "merge", "update"}
SYMMETRY BranchSymmetry
INVARIANTS
  RefMatchesHead
  IdsDetermineStates
CHECK_DEADLOCK FALSE
