\* Three processes, two of one PID; two challenges, room for one.
SPECIFICATION FairSpec
CONSTANTS
  None = None
  first = first
  second = second
  other = other
  c1 = c1
  c2 = c2
  n1 = n1
  n2 = n2
  Process = {first, second, other}
  Installed = {first, second}
  PidOf <- Pids
  Challenge = {c1, c2}
  Nonce = {n1, n2}
  MaxChallenges = 1
  Asked = {first}
CONSTRAINT Bound
INVARIANTS
  TokenReachesVerified
  RegistryHolds
  CleanExitFreesDatabase
PROPERTIES
  SpentStaysSpent
  DoneMeansStopped
  StopsEnd
