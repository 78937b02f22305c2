SPECIFICATION FairSpec
CONSTANTS
  c1 = c1
  c2 = c2
  NoContent = NoContent
  Contents <- MCContents
  Scores <- MCFewScores
  Usages <- MCUsages
  Limits <- MCLimits
  MaxUsage = 1
  QualityThreshold = 8
  SkipConfidence = 9
  TokenBudget = 4
  MaxCost = 5
  MaxDuration = 1
  AbortOnRegression = TRUE
  RegressionThreshold = 3
  ExecPrice = 1
  EvalPrice = 1
  ConservativeScore = 5
  LearnDrop = 1
  SameScoreDelta = 0
  StoreMayFail = TRUE
INVARIANTS
  AnswerIsLatestBest
  OnlyLastCycleEnds
  UnevaluatedIsRepeated
  RegressionEndsRun
  RowsAgree
PROPERTIES
  RetryWithinLimits
  ImplementsTaskRun
  FollowsProtocol
  Terminates
