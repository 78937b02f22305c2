SPECIFICATION Spec
CONSTANTS
  team = team
  alice = alice
  plan = plan
  None = None
  Chats <- MCChats
  Groups <- MCGroups
  FirstId <- MCFirstId
  DefaultTeam = TRUE
  Services = {"slack", "discord", "msteams", "imessage"}
  Credentials <- MCCredentials
  Polled <- MCPolled
  Documents <- MCDocuments
  Contents <- MCContents
  Sayings <- MCSlackSayings
  Outputs <- MCOutputs
  MaxMessages = 5
  MaxEdits = 3
  MaxSent = 3
  Batch = 2
  PageSize = 2
  Capacity = 1
INVARIANT
  EmittedOnce
