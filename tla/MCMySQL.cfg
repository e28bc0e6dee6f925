SPECIFICATION MySQLSpec
CONSTANTS
  PKs = {k1}
  Cols = {"price"}
  Vals = {0, 1}
  Null = 0
  Absent = Absent
  Branches = {main, dev}
  Main = main
  ChangeSets <- MCChangeSets
  MaxCommits = 3
  MaxSeq = 9
  MaxChainDepth = 3
  Tables = {{k1}}
  AuditTables = {}
  Requests = {r1, r2}
  NoRequest = NoRequest
  SessionIds = {}
  NoSession = NoSession
  Kinds = {}
  Connections = {c1, c2}
  NoConnection = NoConnection
INVARIANTS
  CommitsShowChanges
CHECK_DEADLOCK FALSE
