SPECIFICATION Spec
CONSTANTS
  Sessions <- MCSessions
  Outputs <- MCOutputs
  TestRuns <- MCTestRuns
  LintRuns <- MCLintRuns
  Answers <- MCAnswers
  Rubric <- MCRubric
  ContextBuffer = 10
  ProtectRecent = 4
  PlaceholderTokens = 1
  NoteTokens = 2
  OutputLimit = 7
INVARIANT NoStaleFailure
INVARIANT OnlyResolvedLeave
INVARIANT FeedbackSurvives
INVARIANT RecallFits
CHECK_DEADLOCK FALSE
