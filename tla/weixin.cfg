\* Two accounts, one with two messages; login generations up to three, two calls at once.
SPECIFICATION FairSpec
CONSTANTS
  None = None
  botA = botA
  botB = botB
  Account = {botA, botB}
  Feed <- Feeds
  MaxLogins = 3
  MaxCalls = 2
CONSTRAINT Bound
INVARIANTS
  CursorFollowsAdmission
  LoggedInPolls
  QuietAfterStop
PROPERTIES
  LatestLoginWins
  ContextNeverOlder
  StopCompletes
