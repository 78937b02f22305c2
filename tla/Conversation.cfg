SPECIFICATION ConversationSpec
CONSTANTS
  MaxRounds = 2
  MaxRetries = 1
  MaxCalls = 2
  Critical = 1
  Breaker = 3
  Contexts <- MCContexts
  Static <- MCStatic
  Default <- MCDefault
  Asked <- MCAsked
  Caches <- MCCaches
  Lists <- MCLists
  Abilities <- MCAbilities
  MaxNotes = 1
INVARIANTS
  WireAccepted
  AnswersMatch
  DispatchedOnce
  BreakerHolds
PROPERTIES
  RunEnds
