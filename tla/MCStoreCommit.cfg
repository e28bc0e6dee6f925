SPECIFICATION FairSpec
CONSTANTS
  PKs = {k1, k2}
  Cols = {"price"}
  Vals = {0, 1}
  Null = 0
  Absent = Absent
  Branches = {main, dev}
  Main = main
  ChangeSets <- MCRaceChangeSets
  MaxCommits = 3
  MaxSeq = 9
  MaxChainDepth = 2
  Tables = {{k1}, {k2}}
  AuditTables = {{k2}}
  Requests = {r1, r2}
  NoRequest = NoRequest
  SessionIds = {}
  NoSession = NoSession
  Kinds = {"commit", "expect"}
INVARIANTS
  TypeOK
  LinearHistory
  LiveIsMain
PROPERTIES
  HistoryStable
  CommitsBuildOnHead
  LockProtectsRef
  RequestsFinish
CHECK_DEADLOCK FALSE
