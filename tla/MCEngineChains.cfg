SPECIFICATION Spec
CONSTANTS
  PKs = {k1}
  Cols = {"price", "name"}
  Vals = {0, 1}
  Null = 0
  Absent = Absent
  Branches = {main, dev, fix}
  Main = main
  SessionIds = {}
  ChangeSets <- MCChangeSets
  MaxCommits = 5
  MaxTogether = 4
  MaxSeq = 9
  NoSession = NoSession
SYMMETRY BranchSymmetry
INVARIANTS
  IntervalsSane
  HeadMatchesHistory
  FilteredReadExact
  MasksCoverDivergence
PROPERTIES
  HistoryStable
  ImplementsModel
CHECK_DEADLOCK FALSE
