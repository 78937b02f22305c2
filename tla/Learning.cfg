SPECIFICATION Spec
CONSTANTS
  p1 = p1
  p2 = p2
  Procs <- MCProcs
  Histories <- MCHistories
  Answers <- MCAnswers
  MaxTasks = 3
INVARIANTS
  MigratedOnce
  NothingLearned
