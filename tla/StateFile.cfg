SPECIFICATION Spec
CONSTANTS
  r1 = r1
  r2 = r2
  r3 = r3
  f1 = f1
  f2 = f2
  f3 = f3
  f4 = f4
  Runs <- MCThree
  Concurrent = FALSE
  Faults = {"state", "history"}
  Crashes = TRUE
  MaxIterations = 1
  Inodes <- MCThreeInodes
  MaxLines = 2
  KeepLines = 1
  NoInode = NoInode
  Empty = Empty
  Torn = Torn
  NewLine = NewLine
  Nothing = Nothing
SYMMETRY MCThreeSymmetry
INVARIANTS
  HistoryKeepsRecent
  ReadersSeeWholeFile
  LeftoverIsExplained
PROPERTIES
  TaskIsFound
