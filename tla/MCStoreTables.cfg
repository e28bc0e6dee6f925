SPECIFICATION Spec
CONSTANTS
  PKs = {k1, k2}
  Cols = {"price"}
  Vals = {0, 1}
  Null = 0
  Absent = Absent
  Branches = {main, dev}
  Main = main
  ChangeSets <- MCRaceChangeSets
  MaxCommits = 5
  MaxSeq = 9
  MaxChainDepth = 3
  Tables = {{k1}, {k2}}
  AuditTables = {}
  Requests = {r1}
  NoRequest = NoRequest
  SessionIds = {}
  NoSession = NoSession
  Kinds = {"commit", "merge", "update"}
INVARIANTS
  MergeCommitExact
CHECK_DEADLOCK FALSE
