SPECIFICATION FairSpec
CONSTANTS
  run1 = run1
  run2 = run2
  status1 = status1
  news1 = news1
  t1 = t1
  t2 = t2
  p1 = p1
  Mentions <- MCMentions
  Messages <- MCMessages
  Commands <- MCCommands
  ApiTasks <- MCApiTasks
  Patterns <- MCPatterns
  Frequency <- MCFrequency
  Minutes <- MCMinutes
  Capacity = 1
  Limits <- MCLimits
  MaxTicks = 1
  Fates = {"answered"}
  None = None
INVARIANTS
  AcceptedInOrder
  OneAnswer
  HooksFollowTasks
PROPERTIES
  NoticeWhileRunning
  CatchesUp
  SignalStops
