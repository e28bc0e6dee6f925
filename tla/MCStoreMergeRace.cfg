SPECIFICATION Spec
CONSTANTS
  PKs = {k1}
  Cols = {"price", "name"}
  Vals = {0, 1}
  Null = 0
  Absent = Absent
  Branches = {main, dev}
  Main = main
  ChangeSets <- MCMergeChangeSets
  MaxCommits = 4
  MaxSeq = 9
  MaxChainDepth = 3
  Tables = {{k1}}
  AuditTables = {}
  Requests = {r1, r2}
  NoRequest = NoRequest
  SessionIds = {}
  NoSession = NoSession
  Kinds = {"commit", "merge", "update"}
INVARIANTS
  MergeCommitExact
CHECK_DEADLOCK FALSE
