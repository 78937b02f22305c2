SPECIFICATION FairSpec
CONSTANTS
  team = team
  alice = alice
  plan = plan
  None = None
  Chats <- MCChats
  Groups <- MCGroups
  FirstId <- MCFirstId
  DefaultTeam = TRUE
  Services = {"telegram", "notion"}
  Credentials <- MCCredentials
  Polled <- MCPolled
  Documents <- MCDocuments
  Contents <- MCContents
  Sayings <- MCSayings
  Outputs <- MCOutputs
  MaxMessages = 3
  MaxEdits = 3
  MaxSent = 3
  Batch = 2
  PageSize = 2
  Capacity = 1
INVARIANTS
  EmittedInOrder
  ShownIsEmitted
PROPERTIES
  WatcherStops
