SPECIFICATION Spec
CONSTANTS
  PKs = {k1}
  Cols = {"price"}
  Vals = {0, 1}
  Null = 0
  Absent = Absent
  Branches = {main, dev}
  Main = main
  ChangeSets <- MCRaceChangeSets
  MaxCommits = 4
  MaxSeq = 9
  MaxChainDepth = 3
  Tables = {{k1}}
  AuditTables = {}
  Requests = {r1, r2}
  NoRequest = NoRequest
  SessionIds = {}
  NoSession = NoSession
  Kinds = {"commit", "update"}
INVARIANTS
  RefMatchesHead
CHECK_DEADLOCK FALSE
