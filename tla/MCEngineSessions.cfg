SPECIFICATION Spec
CONSTANTS
  PKs = {k1}
  Cols = {"price"}
  Vals = {0, 1}
  Null = 0
  Absent = Absent
  Branches = {main, dev}
  Main = main
  SessionIds = {s1, s2}
  ChangeSets <- MCAllChangeSets
  MaxCommits = 3
  MaxTogether = 3
  MaxSeq = 9
  NoSession = NoSession
INVARIANTS
  StagedVersionsOwned
PROPERTIES
  SessionViewPinned
  ImplementsModel
CHECK_DEADLOCK FALSE
